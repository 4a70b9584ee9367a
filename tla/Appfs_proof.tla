------------------------------ MODULE Appfs_proof ------------------------------
(***************************************************************************)
(* Proofs about Appfs and SignedInstall, for pages, headers, signatures and *)
(* files of any size and any number of appends: nothing is written twice,   *)
(* as long as no transfer fails the device stores the stream in order and   *)
(* completely, and host and device verify exactly what was signed.          *)
(***************************************************************************)
EXTENDS SignedInstall, SequenceTheorems, TLAPS

(* There is room for more: nothing was declared yet, or not all of it came. *)
Open == size = 0 \/ written < size

Numbers ==
  /\ size \in Nat /\ written \in Nat /\ loc \in Nat /\ base \in Nat
  /\ fileLen \in Nat /\ filePos \in Nat /\ sent \in Nat
  /\ blob \in [from : Nat, len : Nat, done : Nat]
  /\ filePos <= fileLen /\ blob.done <= blob.len

Phases ==
  /\ pc \in {"idle", "read", "copy", "sign"}
  /\ pc \in {"read", "copy"} => fileLen > 0
  /\ pc = "copy" => size # 0
  /\ request \in {"none", "create", "install"}
  /\ request = "none" => written = 0 /\ loc = 0 /\ base = 0 /\ size = 0 /\ pc = "idle"
  /\ size = 0 => written = 0
  /\ request = "create" => size # 0

(* The page under way: what it has is the stream from loc on.               *)
PageRight ==
  Open => /\ written % PageSize = written - loc /\ loc <= written
          /\ \A i \in 0 .. written - loc - 1 : buffer[i] = loc + i

(* What is copied next is what the stream has next.                         *)
InStep ==
  Open =>
    /\ pc \in {"idle", "sign"} => base = written
    /\ pc = "read" => base + filePos = written /\ sent <= written
    /\ pc = "copy" =>
         /\ blob.from + blob.done = written
         /\ sent <= written + (blob.len - blob.done)
         /\ \/ blob.from + blob.len = base + filePos
            \/ written + (blob.len - blob.done) >= size

(* An error that is no fault of a transfer is that there is no room.        *)
NoErrorUnlessFull == pc \in {"read", "copy"} /\ error => ~Open

(* All that holds as long as nothing failed.                                *)
Unfaulted == ~faulted => PageRight /\ InStep /\ NoErrorUnlessFull

(* Nothing is stored from the next page on, whatever failed.                *)
BelowLoc == \A x \in Places : flash[x] # NoByte => x < loc

IInv == Numbers /\ Phases /\ Unfaulted /\ StreamInOrder /\ BelowLoc

-----------------------------------------------------------------------------
(* That everything arrives.                                                 *)
FirstFile == request = "install" /\ appends = 1 /\ (required => fileLen >= Marker)

Started ==
  /\ appends \in 0 .. MaxAppends
  /\ request = "none" => appends = 0 /\ ~error
  /\ request = "install" /\ appends = 0 => size = 0 /\ pc = "idle"
  /\ pc \in {"read", "copy", "sign"} => appends > 0
  /\ pc = "sign" => request = "install"
  /\ request = "create" => size > Overhead
  /\ fileLen <= MaxFile

(* A data file gets no byte but those of the files appended, and is refused *)
(* one only if they are too many.                                           *)
NoMoreThanAppended ==
  request = "create" =>
    /\ pc = "idle" => written <= base /\ (error => base > size)
    /\ pc = "read" => written <= base + filePos /\ (error => base + fileLen > size)
    /\ pc = "copy" => written + (blob.len - blob.done) <= base + filePos /\ ~error

(* The size of an executable is that of its first file without a signature, *)
(* so append stops where it ends, and without an error.                     *)
FirstFileFits ==
  FirstFile =>
    /\ required <=> needsSig
    /\ size = IF required THEN fileLen - Marker ELSE fileLen
    /\ ~error /\ sent <= size
    /\ pc \in {"idle", "sign"} => base = size /\ written <= size
    /\ pc \in {"read", "copy"} => base = 0
    /\ pc = "read" => written = sent
    /\ pc = "copy" => sent = written + (blob.len - blob.done)

AllSent ==
  ~faulted => NoMoreThanAppended /\ FirstFileFits /\ (Full => loc = size)

ArriveInv == IInv /\ Started /\ AllSent

-----------------------------------------------------------------------------
(* Arithmetic of pages.                                                     *)
LEMMA Sizes ==
  /\ PageSize \in Nat /\ PageSize > 1 /\ Overhead \in 1 .. PageSize - 1
  /\ Marker \in Nat \ {0} /\ MaxFile \in Nat \ {0} /\ Word \in Nat \ {0}
  /\ MaxAppends \in Nat \ {0}
<1>1. /\ PageSize \in Nat /\ Overhead \in 1 .. PageSize - 1
      /\ Marker \in Nat \ {0} /\ MaxFile \in Nat \ {0} /\ MaxAppends \in Nat \ {0}
      /\ Word \in Nat /\ Word > Overhead + MaxAppends * MaxFile + Marker + PageSize
  BY SizesAssumption
<1>2. MaxAppends * MaxFile \in Nat
  BY <1>1, SMT
<1> QED
  BY <1>1, <1>2

LEMMA Remainder ==
  ASSUME NEW n \in Nat
  PROVE  /\ n \div PageSize \in Nat /\ n % PageSize \in 0 .. PageSize - 1
         /\ n = PageSize * (n \div PageSize) + (n % PageSize)
BY Sizes, SMT

LEMMA OneRemainder ==
  ASSUME NEW k \in Nat, NEW x \in 0 .. PageSize - 1,
         NEW q \in Nat, NEW y \in 0 .. PageSize - 1,
         PageSize * k + x = PageSize * q + y
  PROVE  x = y
<1>1. PageSize \in Nat /\ PageSize > 1 /\ PageSize * k \in Nat /\ PageSize * q \in Nat
  BY Sizes, SMT
<1>2. CASE k = q
  BY <1>1, <1>2
<1>3. CASE k > q
  <2>1. PICK d \in Nat : k = q + 1 + d
    <3>1. k - q - 1 \in Nat /\ k = q + 1 + (k - q - 1)
      BY <1>3
    <3> QED
      BY <3>1
  <2>2. PageSize * k = PageSize * q + PageSize + PageSize * d /\ PageSize * d \in Nat
    BY <1>1, <2>1, SMT
  <2> QED
    BY <1>1, <2>2
<1>4. CASE k < q
  <2>1. PICK d \in Nat : q = k + 1 + d
    <3>1. q - k - 1 \in Nat /\ q = k + 1 + (q - k - 1)
      BY <1>4
    <3> QED
      BY <3>1
  <2>2. PageSize * q = PageSize * k + PageSize + PageSize * d /\ PageSize * d \in Nat
    BY <1>1, <2>1, SMT
  <2> QED
    BY <1>1, <2>2
<1> QED
  BY <1>2, <1>3, <1>4

LEMMA RemainderIs ==
  ASSUME NEW m \in Nat, NEW k \in Nat, NEW x \in 0 .. PageSize - 1, m = PageSize * k + x
  PROVE  m % PageSize = x
<1>1. PICK q \in Nat, y \in 0 .. PageSize - 1 : y = m % PageSize /\ m = PageSize * q + y
  BY Remainder, Zenon
<1>2. PageSize * k + x = PageSize * q + y
  BY <1>1, Zenon
<1>3. x = y
  BY <1>2, OneRemainder, Zenon
<1> QED
  BY <1>1, <1>3, Zenon

(* Copying n bytes within a page fills it up or does not.                   *)
LEMMA InPage ==
  ASSUME NEW w \in Nat, NEW n \in Nat, NEW o \in 0 .. PageSize - 1,
         o = w % PageSize, o + n <= PageSize
  PROVE  (w + n) % PageSize = IF o + n = PageSize THEN 0 ELSE o + n
<1>1. PICK k \in Nat : w = PageSize * k + o
  BY Remainder, Zenon
<1>2. PageSize \in Nat /\ PageSize > 1 /\ PageSize * k \in Nat
      /\ PageSize * (k + 1) = PageSize * k + PageSize
  BY Sizes, SMT
<1>3. CASE o + n = PageSize
  <2>1. w + n = PageSize * (k + 1) + 0 /\ k + 1 \in Nat /\ w + n \in Nat
        /\ 0 \in 0 .. PageSize - 1
    BY <1>1, <1>2, <1>3
  <2> QED
    BY <1>3, <2>1, RemainderIs, Zenon
<1>4. CASE o + n # PageSize
  <2>1. w + n = PageSize * k + (o + n) /\ w + n \in Nat /\ o + n \in 0 .. PageSize - 1
    BY <1>1, <1>2, <1>4
  <2> QED
    BY <1>4, <2>1, RemainderIs, Zenon
<1> QED
  BY <1>3, <1>4

LEMMA Wrapped ==
  ASSUME NEW n \in Nat
  PROVE  (n - Marker) % Word \in Nat
<1>1. n - Marker \in Int /\ Word \in Nat \ {0}
  BY Sizes
<1>2. \A a \in Int, p \in Nat \ {0} : a % p \in Nat
  BY SMT
<1> QED
  BY <1>1, <1>2

-----------------------------------------------------------------------------
LEMMA InitHolds == Init => IInv
<1> SUFFICES ASSUME Init
             PROVE  IInv
  OBVIOUS
<1>1. 0 % PageSize = 0
  <2>1. 0 = PageSize * 0 + 0 /\ 0 \in 0 .. PageSize - 1
    BY Sizes
  <2> QED
    BY <2>1, RemainderIs
<1>2. Numbers /\ Phases
  BY DEF Init, Numbers, Phases
<1>3. PageRight /\ InStep /\ NoErrorUnlessFull
  BY <1>1 DEF Init, PageRight, InStep, NoErrorUnlessFull
<1>4. StreamInOrder /\ BelowLoc
  BY DEF Init, StreamInOrder, BelowLoc, Places, NoByte
<1> QED
  BY <1>2, <1>3, <1>4 DEF IInv, Unfaulted

LEMMA ConstructKeeps ==
  ASSUME IInv, ConstructCreate \/ ConstructInstall
  PROVE  IInv'
<1> USE DEF IInv
<1>1. /\ request = "none" /\ written = 0 /\ loc = 0 /\ base = 0 /\ size = 0 /\ pc = "idle"
      /\ UNCHANGED <<loc, error, flash, pc, fileLen, filePos, sent, blob, faulted>>
  BY DEF ConstructCreate, ConstructInstall, Phases
<1>2. StreamInOrder' /\ BelowLoc'
  BY <1>1 DEF StreamInOrder, BelowLoc
<1>3. CASE ConstructCreate
  <2>1. PICK n \in 1 .. MaxFile : size' = n + Overhead
    BY <1>3 DEF ConstructCreate
  <2>2. /\ request' = "create" /\ written' = Overhead /\ base' = Overhead
        /\ buffer' = [i \in 0 .. PageSize - 1 |-> IF i < Overhead THEN i ELSE NoByte]
    BY <1>3 DEF ConstructCreate
  <2>3. Numbers' /\ Phases'
    BY <1>1, <2>1, <2>2, Sizes DEF Numbers, Phases
  <2>4. written' % PageSize = written' - loc'
    <3>1. Overhead = PageSize * 0 + Overhead /\ Overhead \in 0 .. PageSize - 1
      BY Sizes
    <3>2. Overhead % PageSize = Overhead
      BY <3>1, RemainderIs
    <3> QED
      BY <1>1, <2>2, <3>2, Sizes
  <2>5. \A i \in 0 .. written' - loc' - 1 : buffer'[i] = loc' + i
    BY <1>1, <2>2, Sizes
  <2>6. PageRight' /\ InStep' /\ NoErrorUnlessFull'
    BY <1>1, <2>2, <2>4, <2>5, Sizes DEF PageRight, InStep, NoErrorUnlessFull
  <2> QED
    BY <1>2, <2>3, <2>6 DEF Unfaulted
<1>4. CASE ConstructInstall
  <2>1. request' = "install" /\ UNCHANGED <<size, written, buffer, base>>
    BY <1>4 DEF ConstructInstall
  <2>2. Numbers' /\ Phases'
    BY <1>1, <2>1 DEF Numbers, Phases
  <2>3. Unfaulted'
    BY <1>1, <2>1 DEF Unfaulted, PageRight, InStep, NoErrorUnlessFull, Open
  <2> QED
    BY <1>2, <2>2, <2>3
<1> QED
  BY <1>3, <1>4

LEMMA AppendFileKeeps ==
  ASSUME IInv, AppendFile
  PROVE  IInv'
<1> USE DEF IInv
<1>1. PICK n \in 1 .. MaxFile, answered \in BOOLEAN :
        /\ fileLen' = n
        /\ required' = (needsSig /\ answered)
        /\ faulted' = (faulted \/ ~answered)
        /\ size' = IF request = "install" /\ size = 0
                     THEN InstallSize(n, required') ELSE size
  BY DEF AppendFile
<1>2. /\ pc = "idle" /\ request # "none" /\ ~error /\ pc' = "read"
      /\ filePos' = 0 /\ sent' = 0
      /\ UNCHANGED <<request, written, loc, buffer, error, flash, blob, base>>
  BY DEF AppendFile
<1>3. InstallSize(n, required') \in Nat
  BY Wrapped, Sizes DEF InstallSize
<1>4. Numbers'
  BY <1>1, <1>2, <1>3, Sizes DEF Numbers
<1>5. Phases'
  BY <1>1, <1>2, Sizes DEF Phases
<1>6. Open' => Open
  BY <1>1, <1>2 DEF Open, Phases
<1>7. Unfaulted'
  <2> SUFFICES ASSUME ~faulted'
               PROVE  PageRight' /\ InStep' /\ NoErrorUnlessFull'
    BY DEF Unfaulted
  <2>1. PageRight /\ InStep
    BY <1>1 DEF Unfaulted
  <2>2. PageRight'
    BY <1>2, <1>6, <2>1 DEF PageRight
  <2>3. Open' => base' + filePos' = written' /\ sent' <= written'
    BY <1>2, <1>6, <2>1 DEF InStep, Numbers
  <2>4. InStep' /\ NoErrorUnlessFull'
    BY <1>2, <2>3 DEF InStep, NoErrorUnlessFull
  <2> QED
    BY <2>2, <2>4
<1>8. StreamInOrder' /\ BelowLoc'
  BY <1>1, <1>2 DEF StreamInOrder, BelowLoc
<1> QED
  BY <1>4, <1>5, <1>7, <1>8

(* The end of append: the next file starts where the stream has got to, if  *)
(* there is room for more at all.                                           *)
LEMMA LeaveLoopKeeps ==
  ASSUME IInv, pc = "read", LeaveLoop,
         UNCHANGED <<request, size, written, loc, buffer, flash, fileLen>>,
         \/ UNCHANGED <<error, faulted>> /\ (error \/ filePos = fileLen \/ sent >= size)
         \/ faulted'
  PROVE  IInv'
<1> USE DEF IInv
<1>1. /\ pc' \in {"idle", "sign"} /\ UNCHANGED <<filePos, sent, blob>>
      /\ base' = base + IF request = "install" THEN Least(size, fileLen) ELSE fileLen
  BY DEF LeaveLoop
<1>2. Numbers'
  BY <1>1 DEF Numbers, Least
<1>3. Phases'
  BY <1>1 DEF Phases
<1>4. StreamInOrder' /\ BelowLoc'
  BY DEF StreamInOrder, BelowLoc
<1>5. Unfaulted'
  <2> SUFFICES ASSUME ~faulted', ~faulted
               PROVE  PageRight' /\ InStep' /\ NoErrorUnlessFull'
    BY DEF Unfaulted
  <2>1. PageRight' /\ NoErrorUnlessFull'
    BY <1>1 DEF Unfaulted, PageRight, Open, NoErrorUnlessFull
  <2>2. ASSUME Open
        PROVE  base' = written
    <3>1. /\ base + filePos = written /\ sent <= written /\ ~error
          /\ fileLen > 0 /\ (size = 0 => written = 0)
      BY <2>2 DEF Unfaulted, InStep, NoErrorUnlessFull, Phases
    <3>2. CASE filePos = fileLen
      <4>1. size # 0 /\ fileLen < size
        BY <2>2, <3>1, <3>2 DEF Open, Numbers
      <4> QED
        BY <1>1, <3>1, <3>2, <4>1 DEF Least, Numbers
    <3>3. CASE sent >= size /\ filePos # fileLen
      <4>1. size = 0 /\ base = 0 /\ written = 0
        BY <2>2, <3>1, <3>3 DEF Open, Numbers
      <4>2. request = "install"
        BY <4>1 DEF Phases
      <4> QED
        BY <1>1, <4>1, <4>2 DEF Least, Numbers
    <3> QED
      BY <3>1, <3>2, <3>3
  <2>3. InStep'
    BY <1>1, <2>2 DEF InStep, Open
  <2> QED
    BY <2>1, <2>3
<1> QED
  BY <1>2, <1>3, <1>4, <1>5

LEMMA ReadChunkKeeps ==
  ASSUME IInv, ReadChunk
  PROVE  IInv'
<1> USE DEF IInv
<1> DEFINE n == Least(PageSize, fileLen - filePos)
           pageSize == IF sent + n > size THEN size - sent ELSE n
<1>1. /\ pc = "read"
      /\ UNCHANGED <<request, size, written, loc, buffer, flash, fileLen, required>>
  BY DEF ReadChunk
<1>2. /\ n \in Nat /\ n <= fileLen - filePos /\ (n = 0 => filePos = fileLen)
      /\ PageSize \in Nat /\ PageSize > 1
  BY Sizes DEF Least, Numbers
<1>3. CASE /\ LeaveLoop
           /\ \/ UNCHANGED <<error, faulted>> /\ (error \/ n = 0 \/ sent >= size)
              \/ faulted'
  BY <1>1, <1>2, <1>3, LeaveLoopKeeps
<1>4. CASE /\ ~error /\ n > 0 /\ sent < size
           /\ filePos' = filePos + n
           /\ sent' = sent + pageSize
           /\ IF Full THEN /\ error' = TRUE
                           /\ UNCHANGED <<pc, blob>>
                      ELSE /\ error' = error
                           /\ blob' = [from |-> base + filePos, len |-> pageSize, done |-> 0]
                           /\ pc' = "copy"
           /\ UNCHANGED <<base, faulted>>
  <2>1. /\ pageSize \in Nat /\ (pageSize = n \/ pageSize = size - sent)
        /\ filePos' = filePos + n /\ sent' = sent + pageSize
        /\ UNCHANGED <<base, faulted>>
        /\ size # 0
    BY <1>2, <1>4 DEF Numbers
  <2> HIDE DEF n, pageSize
  <2>2. StreamInOrder' /\ BelowLoc'
    BY <1>1, <2>1 DEF StreamInOrder, BelowLoc
  <2>3. (Open' <=> Open) /\ PageRight' = PageRight
    BY <1>1 DEF Open, PageRight
  <2>4. CASE Full
    <3>1. error' = TRUE /\ UNCHANGED <<pc, blob>>
      BY <1>4, <2>4
    <3>2. Numbers' /\ Phases'
      BY <1>1, <1>2, <2>1, <3>1 DEF Numbers, Phases
    <3>3. ~Open'
      BY <2>3, <2>4 DEF Full, Open, Numbers
    <3>4. Unfaulted'
      BY <3>3 DEF Unfaulted, PageRight, InStep, NoErrorUnlessFull
    <3> QED
      BY <2>2, <3>2, <3>4
  <2>5. CASE ~Full
    <3>1. /\ error' = error /\ pc' = "copy"
          /\ blob' = [from |-> base + filePos, len |-> pageSize, done |-> 0]
      BY <1>4, <2>5
    <3>2. blob'.from = base + filePos /\ blob'.len = pageSize /\ blob'.done = 0
      BY <3>1
    <3>3. Numbers'
      BY <1>1, <1>2, <2>1, <3>1 DEF Numbers
    <3>4. Phases'
      BY <1>1, <2>1, <3>1 DEF Phases
    <3>5. Unfaulted'
      <4> SUFFICES ASSUME ~faulted
                   PROVE  PageRight' /\ InStep' /\ NoErrorUnlessFull'
        BY <2>1 DEF Unfaulted
      <4>1. PageRight' /\ NoErrorUnlessFull'
        BY <1>1, <1>4, <2>3, <3>1 DEF Unfaulted, NoErrorUnlessFull
      <4>2. Open => base + filePos = written /\ sent <= written
        BY <1>1 DEF Unfaulted, InStep
      <4>3. ASSUME Open
            PROVE  /\ blob'.from + blob'.done = written'
                   /\ sent' <= written' + (blob'.len - blob'.done)
                   /\ \/ blob'.from + blob'.len = base' + filePos'
                      \/ written' + (blob'.len - blob'.done) >= size'
        BY <1>1, <1>2, <2>1, <3>2, <4>2, <4>3 DEF Numbers
      <4>4. InStep'
        BY <2>3, <3>1, <4>3 DEF InStep
      <4> QED
        BY <4>1, <4>4
    <3> QED
      BY <2>2, <3>3, <3>4, <3>5
  <2> QED
    BY <2>4, <2>5
<1> QED
  BY <1>2, <1>3, <1>4 DEF ReadChunk, LeaveLoop, Numbers

(* A page that is sent is one place, whatever the device makes of it.       *)
LEMMA SendPageStores ==
  ASSUME NEW page, NEW nbyte \in Nat, Numbers, BelowLoc, SendPage(page, nbyte)
  PROVE  /\ \A x \in Places : flash[x] # NoByte => flash'[x] = flash[x]
         /\ \A x \in Places : flash'[x] # NoByte => x < loc + nbyte
         /\ ~faulted' /\ ~error
              => /\ ~faulted /\ ~error'
                 /\ \A x \in Places : flash'[x] = IF x \in loc .. loc + nbyte - 1
                                                THEN page[x - loc] ELSE flash[x]
<1>1. PICK stored \in BOOLEAN, ok \in BOOLEAN :
        /\ ok => stored
        /\ error => ~stored
        /\ flash' = IF stored
                      THEN [x \in Places |-> IF x \in loc .. loc + nbyte - 1
                                               THEN page[x - loc] ELSE flash[x]]
                      ELSE flash
        /\ error' = ~ok
        /\ faulted' = (faulted \/ (~error /\ ~ok))
  BY Zenon DEF SendPage
<1>2. loc \in Nat /\ Places \subseteq Int
  BY DEF Numbers, Places
<1>3. \A x \in Places : flash[x] # NoByte => x < loc
  BY DEF BelowLoc
<1>4. CASE stored
  <2>1. \A x \in Places : flash'[x] = IF x \in loc .. loc + nbyte - 1
                                       THEN page[x - loc] ELSE flash[x]
    BY <1>1, <1>4, Zenon
  <2>2. \A x \in Places : x \in loc .. loc + nbyte - 1 => ~(x < loc) /\ x < loc + nbyte
    BY <1>2
  <2>3. \A x \in Places : x < loc => x < loc + nbyte
    BY <1>2
  <2>4. \A x \in Places : flash[x] # NoByte => flash'[x] = flash[x]
    BY <1>3, <2>1, <2>2, Zenon
  <2>5. \A x \in Places : flash'[x] # NoByte => x < loc + nbyte
    BY <1>3, <2>1, <2>2, <2>3, Zenon
  <2> QED
    BY <1>1, <2>1, <2>4, <2>5, Zenon
<1>5. CASE ~stored
  <2>1. \A x \in Places : x < loc => x < loc + nbyte
    BY <1>2
  <2>2. flash' = flash /\ ~ok
    BY <1>1, <1>5, Zenon
  <2> QED
    BY <1>1, <1>3, <2>1, <2>2, Zenon
<1> QED
  BY <1>4, <1>5

(* One round of append_view's loop that copies n bytes.                     *)
LEMMA CopyKeeps ==
  ASSUME IInv, CopyPage, written < size, blob.done < blob.len
  PROVE  IInv'
<1> USE DEF IInv
<1> DEFINE o == written % PageSize
           n == Least(blob.len - blob.done, PageSize - o)
<1>1. /\ pc = "copy" /\ pc' = "copy"
      /\ buffer' = [i \in 0 .. PageSize - 1 |->
                      IF i \in o .. o + n - 1
                        THEN blob.from + blob.done + (i - o) ELSE buffer[i]]
      /\ written' = written + n
      /\ blob' = [blob EXCEPT !.done = @ + n]
      /\ IF PageDue(written')
           THEN /\ SendPage(buffer', PageBytes(written'))
                /\ loc' = loc + PageBytes(written')
           ELSE UNCHANGED <<loc, flash, error, faulted>>
      /\ UNCHANGED <<request, size, fileLen, filePos, sent, base>>
  BY DEF CopyPage, PageOffset, NextLoc
<1>2. o \in 0 .. PageSize - 1 /\ PageSize \in Nat /\ PageSize > 1
  BY Remainder, Sizes DEF Numbers
<1>3. n \in Nat \ {0} /\ o + n <= PageSize /\ n <= blob.len - blob.done
  <2> HIDE DEF o
  <2> QED
    BY <1>2 DEF Least, Numbers
<1>4. (written + n) % PageSize = IF o + n = PageSize THEN 0 ELSE o + n
  <2> HIDE DEF n
  <2>1. written \in Nat /\ n \in Nat
    BY <1>3 DEF Numbers
  <2> QED
    BY <1>2, <1>3, <2>1, InPage
<1> HIDE DEF o, n
<1>5. PageBytes(written') = o + n
  BY <1>1, <1>2, <1>3, <1>4 DEF PageBytes
<1>6. /\ blob'.from = blob.from /\ blob'.len = blob.len
      /\ blob'.done = blob.done + n
  BY <1>1 DEF Numbers
<1>13. /\ written' = written + n
       /\ UNCHANGED <<size, filePos, sent, base>>
  BY <1>1
<1>14. /\ o \in Nat /\ n \in Nat /\ loc \in Nat /\ written \in Nat
  BY <1>2, <1>3 DEF Numbers
<1>7. blob' \in [from : Nat, len : Nat, done : Nat]
  <2>1. blob.done + n \in Nat
    BY <1>3 DEF Numbers
  <2> QED
    BY <1>1, <2>1 DEF Numbers
<1>8. loc' \in Nat
  <2>1. loc' = loc \/ loc' = loc + (o + n)
    BY <1>1, <1>5, Zenon
  <2>2. loc + (o + n) \in Nat
    BY <1>14
  <2> QED
    BY <1>14, <2>1, <2>2, Zenon
<1>9. Numbers'
  <2>1. size \in Nat /\ base \in Nat /\ fileLen \in Nat /\ filePos \in Nat /\ sent \in Nat
        /\ filePos <= fileLen
    BY Zenon DEF Numbers
  <2>2. written + n \in Nat /\ blob.done + n <= blob.len
    BY <1>3, <1>14 DEF Numbers
  <2>3. /\ size' = size /\ base' = base /\ fileLen' = fileLen /\ filePos' = filePos
        /\ sent' = sent
    BY <1>1, Zenon
  <2> QED
    BY <1>6, <1>7, <1>8, <1>13, <2>1, <2>2, <2>3, Zenon DEF Numbers
<1>10. Phases'
  BY <1>1, <1>3 DEF Phases, Numbers
<1>11. BelowLoc'
  <2>1. CASE PageDue(written')
    <3>1. SendPage(buffer', o + n) /\ loc' = loc + (o + n) /\ o + n \in Nat
      BY <1>1, <1>2, <1>3, <1>5, <2>1
    <3>2. \A x \in Places : flash'[x] # NoByte => x < loc + (o + n)
      BY <3>1, SendPageStores, Zenon
    <3> QED
      BY <3>1, <3>2 DEF BelowLoc
  <2>2. CASE ~PageDue(written')
    BY <1>1, <2>2 DEF BelowLoc
  <2> QED
    BY <2>1, <2>2
<1>12. Unfaulted' /\ StreamInOrder'
  <2> SUFFICES ASSUME ~faulted'
               PROVE  /\ PageRight' /\ InStep' /\ NoErrorUnlessFull'
                      /\ \A x \in Places : flash'[x] = IF x < loc' THEN x ELSE NoByte
    BY DEF Unfaulted, StreamInOrder
  <2>1. ~faulted
    BY <1>1 DEF SendPage
  <2>2. Open
    BY DEF Open
  <2>3. /\ o = written - loc /\ loc <= written /\ ~error
        /\ \A i \in 0 .. written - loc - 1 : buffer[i] = loc + i
        /\ blob.from + blob.done = written
        /\ sent <= written + (blob.len - blob.done)
        /\ \/ blob.from + blob.len = base + filePos
           \/ written + (blob.len - blob.done) >= size
    BY <1>1, <2>1, <2>2 DEF Unfaulted, PageRight, InStep, NoErrorUnlessFull, o
  <2>4. \A i \in 0 .. o + n - 1 : buffer'[i] = loc + i
    <3> SUFFICES ASSUME NEW i \in 0 .. o + n - 1
                 PROVE  buffer'[i] = loc + i
      OBVIOUS
    <3>1. buffer'[i] = IF i \in o .. o + n - 1
                         THEN blob.from + blob.done + (i - o) ELSE buffer[i]
      BY <1>1, <1>2, <1>3
    <3> QED
      BY <1>2, <1>3, <2>3, <3>1 DEF Numbers
  <2>5. InStep'
    <3>1. /\ blob'.from + blob'.done = written'
          /\ sent' <= written' + (blob'.len - blob'.done)
          /\ \/ blob'.from + blob'.len = base' + filePos'
             \/ written' + (blob'.len - blob'.done) >= size'
      BY <1>3, <1>6, <1>13, <2>3 DEF Numbers
    <3> QED
      BY <1>1, <3>1 DEF InStep
  <2>6. \A x \in Places : flash[x] = IF x < loc THEN x ELSE NoByte
    BY <2>1 DEF StreamInOrder
  <2>7. CASE PageDue(written')
    <3>1. SendPage(buffer', o + n) /\ loc' = loc + (o + n) /\ o + n \in Nat
      BY <1>1, <1>2, <1>3, <1>5, <2>7
    <3>2. /\ ~error'
          /\ \A x \in Places : flash'[x] = IF x \in loc .. loc + (o + n) - 1
                                          THEN buffer'[x - loc] ELSE flash[x]
      BY <2>3, <3>1, SendPageStores, Zenon
    <3>3. \A x \in Places : flash'[x] = IF x < loc' THEN x ELSE NoByte
      <4> SUFFICES ASSUME NEW x \in Places
                   PROVE  flash'[x] = IF x < loc' THEN x ELSE NoByte
        OBVIOUS
      <4>1. x \in Int /\ loc \in Nat
        BY DEF Places, Numbers
      <4>2. flash'[x] = IF x \in loc .. loc + (o + n) - 1
                          THEN buffer'[x - loc] ELSE flash[x]
        BY <3>2
      <4>3. CASE x \in loc .. loc + (o + n) - 1
        <5>1. x - loc \in 0 .. o + n - 1 /\ loc + (x - loc) = x /\ x < loc'
          BY <1>14, <3>1, <4>1, <4>3
        <5> QED
          BY <2>4, <4>2, <4>3, <5>1
      <4>4. CASE x \notin loc .. loc + (o + n) - 1
        <5>1. x < loc' <=> x < loc
          BY <3>1, <4>1, <4>4
        <5>2. flash'[x] = flash[x]
          BY <4>2, <4>4
        <5> QED
          BY <2>6, <5>1, <5>2
      <4> QED
        BY <4>3, <4>4
    <3>4. ASSUME Open'
          PROVE  written' % PageSize = 0
      BY <1>1, <1>9, <2>7, <3>4 DEF PageDue, Open, Numbers
    <3>5. written' = loc'
      BY <1>13, <1>14, <2>3, <3>1
    <3>6. PageRight'
      <4>1. written' \in Nat
        BY <1>13, <1>14
      <4>2. written' - loc' = 0 /\ loc' <= written'
        <5>1. \A k \in Nat : k - k = 0 /\ k <= k
          BY SMT
        <5> QED
          BY <3>5, <4>1, <5>1, Zenon
      <4>3. \A i \in 0 .. written' - loc' - 1 : buffer'[i] = loc' + i
        BY <4>2
      <4> QED
        BY <3>4, <4>2, <4>3 DEF PageRight
    <3> QED
      BY <2>5, <3>2, <3>3, <3>6 DEF NoErrorUnlessFull
  <2>8. CASE ~PageDue(written')
    <3>1. UNCHANGED <<loc, flash, error, faulted>>
      BY <1>1, <2>8
    <3>2. written' % PageSize = o + n
      BY <1>1, <1>2, <1>3, <1>4, <2>8 DEF PageDue
    <3>3. o + n = written' - loc' /\ loc' <= written'
      BY <1>13, <1>14, <2>3, <3>1
    <3>4. PageRight'
      <4>1. \A i \in 0 .. written' - loc' - 1 : buffer'[i] = loc' + i
        <5>1. loc' = loc /\ written' - loc' = o + n
          BY <3>1, <3>3, Zenon
        <5> SUFFICES ASSUME NEW i \in 0 .. written' - loc' - 1
                     PROVE  buffer'[i] = loc' + i
          OBVIOUS
        <5>2. i \in 0 .. o + n - 1
          BY <1>14, <5>1
        <5>3. buffer'[i] = loc + i
          BY <2>4, <5>2, Zenon
        <5> QED
          BY <5>1, <5>3, Zenon
      <4> QED
        BY <3>2, <3>3, <4>1, Zenon DEF PageRight
    <3> QED
      BY <2>3, <2>5, <2>6, <3>1, <3>4 DEF NoErrorUnlessFull
  <2> QED
    BY <2>7, <2>8
<1> QED
  BY <1>9, <1>10, <1>11, <1>12

LEMMA CopyPageKeeps ==
  ASSUME IInv, CopyPage
  PROVE  IInv'
<1>1. CASE written < size /\ blob.done < blob.len
  BY <1>1, CopyKeeps
<1>2. CASE ~(written < size /\ blob.done < blob.len)
  <2> USE DEF IInv
  <2>1. /\ pc = "copy" /\ pc' = "read"
        /\ UNCHANGED <<written, loc, buffer, flash, error, faulted, blob>>
        /\ UNCHANGED <<request, size, fileLen, filePos, sent, base>>
    BY <1>2 DEF CopyPage
  <2>2. Numbers' /\ Phases' /\ StreamInOrder' /\ BelowLoc'
    BY <2>1 DEF Numbers, Phases, StreamInOrder, BelowLoc
  <2>3. Unfaulted'
    <3> SUFFICES ASSUME ~faulted
                 PROVE  PageRight' /\ InStep' /\ NoErrorUnlessFull'
      BY <2>1 DEF Unfaulted
    <3>1. PageRight' /\ NoErrorUnlessFull'
      BY <2>1 DEF Unfaulted, PageRight, Open, NoErrorUnlessFull
    <3>2. ASSUME Open
          PROVE  base + filePos = written /\ sent <= written
      <4>1. written < size
        BY <2>1, <3>2 DEF Open, Phases
      <4>2. blob.done = blob.len
        BY <1>2, <4>1 DEF Numbers
      <4>3. /\ blob.from + blob.done = written
            /\ sent <= written + (blob.len - blob.done)
            /\ \/ blob.from + blob.len = base + filePos
               \/ written + (blob.len - blob.done) >= size
        BY <2>1, <3>2 DEF Unfaulted, InStep
      <4> QED
        BY <4>1, <4>2, <4>3 DEF Numbers
    <3>3. InStep'
      BY <2>1, <3>2 DEF InStep, Open
    <3> QED
      BY <3>1, <3>3
  <2> QED
    BY <2>2, <2>3
<1> QED
  BY <1>1, <1>2

-----------------------------------------------------------------------------
LEMMA StepKeeps == IInv /\ [Next]_vars => IInv'
<1> SUFFICES ASSUME IInv, [Next]_vars
             PROVE  IInv'
  OBVIOUS
<1>1. CASE ConstructCreate \/ ConstructInstall
  BY <1>1, ConstructKeeps
<1>2. CASE AppendFile
  BY <1>2, AppendFileKeeps
<1>3. CASE ReadChunk
  BY <1>3, ReadChunkKeeps
<1>4. CASE CopyPage
  BY <1>4, CopyPageKeeps
<1>5. CASE Sign \/ ClearError \/ UNCHANGED vars
  <2>1. /\ UNCHANGED <<request, size, written, loc, buffer, flash, fileLen, filePos,
                       sent, blob, base>>
        /\ faulted => faulted'
        /\ UNCHANGED <<pc, error>> \/ (pc \in {"idle", "sign"} /\ pc' = "idle")
    <3>1. CASE Sign
      BY <3>1 DEF Sign
    <3>2. CASE ClearError
      BY <3>2 DEF ClearError
    <3>3. CASE UNCHANGED vars
      BY <3>3 DEF vars
    <3> QED
      BY <1>5, <3>1, <3>2, <3>3
  <2>2. Numbers' /\ Phases' /\ StreamInOrder' /\ BelowLoc'
    BY <2>1 DEF IInv, Numbers, Phases, StreamInOrder, BelowLoc
  <2>3. Unfaulted'
    BY <2>1 DEF IInv, Unfaulted, PageRight, InStep, NoErrorUnlessFull, Open
  <2> QED
    BY <2>2, <2>3 DEF IInv
<1> QED
  BY <1>1, <1>2, <1>3, <1>4, <1>5 DEF Next

LEMMA StepStoresOnce ==
  IInv /\ [Next]_vars => \A x \in Places : flash[x] # NoByte => flash'[x] = flash[x]
<1> SUFFICES ASSUME IInv, [Next]_vars, flash' # flash
             PROVE  \A x \in Places : flash[x] # NoByte => flash'[x] = flash[x]
  OBVIOUS
<1>1. CopyPage /\ SendPage(buffer', PageBytes(written'))
  BY DEF Next, vars, ConstructCreate, ConstructInstall, AppendFile, ClearError,
         ReadChunk, CopyPage, Sign
<1>2. PageBytes(written') \in Nat
  <2>1. written' \in Nat
    BY StepKeeps DEF IInv, Numbers
  <2> QED
    <3>1. written' % PageSize \in 0 .. PageSize - 1
      BY <2>1, Remainder, Zenon
    <3>2. written' % PageSize \in Nat
      BY <3>1, Sizes
    <3>3. PageBytes(written') = PageSize \/ PageBytes(written') = written' % PageSize
      BY Zenon DEF PageBytes
    <3> QED
      BY <3>2, <3>3, Sizes
<1> QED
  BY <1>1, <1>2, SendPageStores, Zenon DEF IInv

-----------------------------------------------------------------------------
(* One round of append_view's loop: what it copies is part of the chunk, and*)
(* the page that completes the file is sent up to its end.                  *)
LEMMA PageCopied ==
  ASSUME IInv, CopyPage, written < size, blob.done < blob.len, ~faulted'
  PROVE  /\ ~faulted /\ ~error /\ ~error'
         /\ \E n \in Nat \ {0} :
              /\ n <= blob.len - blob.done
              /\ written' = written + n
              /\ blob'.len = blob.len /\ blob'.done = blob.done + n
         /\ written' = size => loc' = size
<1> USE DEF IInv
<1> DEFINE o == written % PageSize
           n == Least(blob.len - blob.done, PageSize - o)
<1>1. /\ pc = "copy" /\ written' = written + n
      /\ blob' = [blob EXCEPT !.done = @ + n]
      /\ IF PageDue(written')
           THEN /\ SendPage(buffer', PageBytes(written'))
                /\ loc' = loc + PageBytes(written')
           ELSE UNCHANGED <<loc, flash, error, faulted>>
  BY DEF CopyPage, PageOffset, NextLoc
<1>2. o \in 0 .. PageSize - 1 /\ PageSize \in Nat /\ PageSize > 1
  BY Remainder, Sizes DEF Numbers
<1>3. n \in Nat \ {0} /\ o + n <= PageSize /\ n <= blob.len - blob.done
  <2> HIDE DEF o
  <2> QED
    BY <1>2 DEF Least, Numbers
<1>4. (written + n) % PageSize = IF o + n = PageSize THEN 0 ELSE o + n
  <2> HIDE DEF n
  <2>1. written \in Nat /\ n \in Nat
    BY <1>3 DEF Numbers
  <2> QED
    BY <1>2, <1>3, <2>1, InPage
<1>5. ~faulted /\ Open
  BY <1>1 DEF SendPage, Open
<1>6. ~error /\ o = written - loc
  BY <1>1, <1>5 DEF Unfaulted, NoErrorUnlessFull, PageRight
<1> HIDE DEF o, n
<1>7. PageBytes(written') = o + n
  BY <1>1, <1>2, <1>3, <1>4 DEF PageBytes
<1>8. ~error'
  BY <1>1, <1>6 DEF SendPage
<1>9. ASSUME written' = size
      PROVE  loc' = size
  <2>1. loc' = loc + (o + n)
    BY <1>1, <1>7, <1>9 DEF PageDue
  <2> QED
    BY <1>1, <1>2, <1>3, <1>6, <1>9, <2>1 DEF Numbers
<1>10. blob'.len = blob.len /\ blob'.done = blob.done + n
  BY <1>1 DEF Numbers
<1> QED
  BY <1>1, <1>3, <1>5, <1>6, <1>8, <1>9, <1>10

(* The stream has room for a file, and an unsigned for the stream.          *)
LEMMA Room ==
  /\ MaxPlace \in Nat /\ Word \in Nat
  /\ MaxFile <= MaxPlace /\ MaxFile < Word /\ MaxFile + Overhead < Word
<1>1. PICK k \in Nat : MaxAppends = k + 1
  <2>1. MaxAppends - 1 \in Nat /\ MaxAppends = (MaxAppends - 1) + 1
    BY SizesAssumption
  <2> QED
    BY <2>1
<1>2. MaxAppends * MaxFile = k * MaxFile + MaxFile /\ k * MaxFile \in Nat
  BY <1>1, Sizes, SMT
<1>3. /\ Word \in Nat /\ Word > Overhead + MaxAppends * MaxFile + Marker + PageSize
      /\ Overhead \in Nat /\ Marker \in Nat /\ PageSize \in Nat /\ MaxFile \in Nat
  BY Sizes, SizesAssumption
<1> QED
  BY <1>2, <1>3 DEF MaxPlace

(* Sizes do not wrap but in the file that is shorter than a signature.      *)
LEMMA InstallSizeIs ==
  ASSUME NEW n \in 1 .. MaxFile, NEW cut \in BOOLEAN, cut => n >= Marker
  PROVE  InstallSize(n, cut) = IF cut THEN n - Marker ELSE n
<1>1. Word > MaxFile /\ Word \in Nat
  BY Room, Sizes
<1>2. \A a \in Nat, p \in Nat : a < p => a % p = a
  BY SMT
<1>3. ASSUME cut
      PROVE  (n - Marker) % Word = n - Marker
  <2>1. n - Marker \in Nat /\ n - Marker < Word
    BY <1>1, <1>3, Sizes
  <2> QED
    BY <1>1, <1>2, <2>1
<1> QED
  BY <1>3 DEF InstallSize

LEMMA InitArrives == Init => ArriveInv
<1> SUFFICES ASSUME Init
             PROVE  Started /\ AllSent
  BY InitHolds DEF ArriveInv
<1>1. Started
  BY Sizes DEF Init, Started
<1>2. AllSent
  BY DEF Init, AllSent, NoMoreThanAppended, FirstFileFits, FirstFile, Full
<1> QED
  BY <1>1, <1>2

LEMMA ConstructArrives ==
  ASSUME ArriveInv, ConstructCreate \/ ConstructInstall
  PROVE  Started' /\ AllSent'
<1> USE DEF ArriveInv, IInv
<1>1. /\ request = "none" /\ written = 0 /\ loc = 0 /\ base = 0 /\ size = 0 /\ pc = "idle"
      /\ appends = 0
      /\ UNCHANGED <<loc, error, needsSig, pc, fileLen, filePos, sent, blob, required,
                     appends, faulted>>
  BY DEF ConstructCreate, ConstructInstall, Phases, Started
<1>2. CASE ConstructCreate
  <2>1. PICK n \in 1 .. MaxFile : size' = n + Overhead
    BY <1>2 DEF ConstructCreate
  <2>2. request' = "create" /\ written' = Overhead /\ base' = Overhead
    BY <1>2 DEF ConstructCreate
  <2>3. size' > Overhead /\ Overhead \in Nat
    BY <2>1, Sizes
  <2>4. Started'
    BY <1>1, <2>2, <2>3 DEF Started
  <2>5. written' <= base' /\ ~Full' /\ ~FirstFile'
    BY <1>1, <2>2, <2>3 DEF Full, FirstFile
  <2>6. AllSent'
    <3>1. ~error' /\ pc' = "idle"
      BY <1>1 DEF Started
    <3> QED
      BY <2>5, <3>1 DEF AllSent, NoMoreThanAppended, FirstFileFits
  <2> QED
    BY <2>4, <2>6
<1>3. CASE ConstructInstall
  <2>1. request' = "install" /\ UNCHANGED <<size, written, base>>
    BY <1>3 DEF ConstructInstall
  <2> QED
    BY <1>1, <2>1 DEF Started, AllSent, NoMoreThanAppended, FirstFileFits, FirstFile, Full
<1> QED
  BY <1>2, <1>3

LEMMA AppendFileArrives ==
  ASSUME ArriveInv, AppendFile
  PROVE  Started' /\ AllSent'
<1> USE DEF ArriveInv, IInv
<1>1. PICK n \in 1 .. MaxFile, answered \in BOOLEAN :
        /\ fileLen' = n
        /\ required' = (needsSig /\ answered)
        /\ faulted' = (faulted \/ ~answered)
        /\ size' = IF request = "install" /\ size = 0
                     THEN InstallSize(n, required') ELSE size
  BY DEF AppendFile
<1>2. /\ pc = "idle" /\ request # "none" /\ ~error /\ pc' = "read"
      /\ appends < MaxAppends /\ appends' = appends + 1
      /\ filePos' = 0 /\ sent' = 0
      /\ UNCHANGED <<request, written, loc, buffer, error, needsSig, flash, blob, base>>
  BY DEF AppendFile
<1>3. Started'
  <2>1. appends' \in 0 .. MaxAppends /\ appends' > 0 /\ fileLen' <= MaxFile
    BY <1>1, <1>2, Sizes DEF Started
  <2>2. request = "create" => size' > Overhead
    BY <1>1 DEF Started
  <2> QED
    BY <1>2, <2>1, <2>2 DEF Started
<1>4. AllSent'
  <2> SUFFICES ASSUME ~faulted'
               PROVE  NoMoreThanAppended' /\ FirstFileFits' /\ (Full' => loc' = size')
    BY DEF AllSent
  <2>1. /\ ~faulted /\ (required' <=> needsSig) /\ required' \in BOOLEAN
        /\ NoMoreThanAppended /\ FirstFileFits /\ (Full => loc = size)
    BY <1>1 DEF AllSent
  <2>2. NoMoreThanAppended'
    BY <1>2, <2>1 DEF NoMoreThanAppended, Numbers
  <2>3. Full' => loc' = size'
    <3>1. CASE request = "install" /\ size = 0
      BY <1>2, <3>1 DEF Full, Phases
    <3>2. CASE ~(request = "install" /\ size = 0)
      BY <1>1, <1>2, <2>1, <3>2 DEF Full
    <3> QED
      BY <3>1, <3>2
  <2>4. FirstFileFits'
    <3> SUFFICES ASSUME FirstFile'
                 PROVE  FirstFileFits'
      BY DEF FirstFileFits
    <3>1. /\ request = "install" /\ appends = 0
          /\ (required' => n >= Marker)
      BY <1>1, <1>2 DEF FirstFile, Started
    <3>2. size = 0 /\ written = 0 /\ base = 0
      BY <1>2, <2>1, <3>1 DEF Started, Phases, Unfaulted, InStep, Open
    <3>3. size' = IF required' THEN n - Marker ELSE n
      BY <1>1, <2>1, <3>1, <3>2, InstallSizeIs
    <3>4. required' <=> needsSig'
      BY <1>2, <2>1
    <3>5. sent' <= size'
      BY <1>2, <3>1, <3>3, Sizes
    <3> QED
      BY <1>1, <1>2, <3>2, <3>3, <3>4, <3>5 DEF FirstFileFits
  <2> QED
    BY <2>2, <2>3, <2>4
<1> QED
  BY <1>3, <1>4

LEMMA ReadChunkArrives ==
  ASSUME ArriveInv, ReadChunk
  PROVE  Started' /\ AllSent'
<1> USE DEF ArriveInv, IInv
<1> DEFINE n == Least(PageSize, fileLen - filePos)
           pageSize == IF sent + n > size THEN size - sent ELSE n
<1>1. /\ pc = "read"
      /\ UNCHANGED <<request, size, written, loc, needsSig, fileLen, required, appends>>
  BY DEF ReadChunk
<1>2. n \in Nat /\ n <= fileLen - filePos
  BY Sizes DEF Least, Numbers
<1>3. Started'
  <2>1. /\ pc' \in {"read", "copy", "idle"} \/ request = "install"
        /\ error' # error => request # "none"
    BY <1>1 DEF ReadChunk, LeaveLoop, Phases
  <2> QED
    BY <1>1, <2>1 DEF Started, Phases
<1>4. CASE LeaveLoop /\ (UNCHANGED <<error, faulted>> \/ faulted')
  <2>1. /\ pc' = (IF required /\ request = "install" THEN "sign" ELSE "idle")
        /\ UNCHANGED <<filePos, sent, blob>>
        /\ base' = base + IF request = "install" THEN Least(size, fileLen) ELSE fileLen
    BY <1>4 DEF LeaveLoop
  <2> SUFFICES ASSUME ~faulted'
               PROVE  NoMoreThanAppended' /\ FirstFileFits' /\ (Full' => loc' = size')
    BY <1>3 DEF AllSent
  <2>2. ~faulted /\ error' = error
    BY <1>4
  <2>3. NoMoreThanAppended /\ FirstFileFits /\ (Full' => loc' = size')
    BY <1>1, <2>2 DEF AllSent, Full
  <2>4. NoMoreThanAppended'
    <3> SUFFICES ASSUME request = "create"
                 PROVE  pc' = "idle" /\ written' <= base' /\ (error' => base' > size')
      BY <1>1 DEF NoMoreThanAppended
    <3> QED
      BY <1>1, <2>1, <2>2, <2>3 DEF NoMoreThanAppended, Numbers
  <2>5. FirstFileFits'
    <3> SUFFICES ASSUME FirstFile
                 PROVE  FirstFileFits'
      BY <1>1 DEF FirstFileFits, FirstFile
    <3>1. /\ (required <=> needsSig) /\ size = (IF required THEN fileLen - Marker ELSE fileLen)
          /\ ~error /\ sent <= size /\ base = 0 /\ written = sent
      BY <1>1, <2>3 DEF FirstFileFits
    <3>2. base' = size /\ pc' \in {"sign", "idle"}
      BY <1>1, <2>1, <3>1, Sizes DEF Least, Numbers, FirstFile
    <3> QED
      BY <1>1, <2>1, <2>2, <3>1, <3>2 DEF FirstFileFits
  <2> QED
    BY <2>3, <2>4, <2>5
<1>5. CASE /\ ~error /\ n > 0 /\ sent < size
           /\ filePos' = filePos + n
           /\ sent' = sent + pageSize
           /\ IF Full THEN /\ error' = TRUE
                           /\ UNCHANGED <<pc, blob>>
                      ELSE /\ error' = error
                           /\ blob' = [from |-> base + filePos, len |-> pageSize, done |-> 0]
                           /\ pc' = "copy"
           /\ UNCHANGED <<base, faulted>>
  <2>1. /\ pageSize \in Nat /\ pageSize <= n /\ sent + pageSize <= size
        /\ filePos' = filePos + n /\ sent' = sent + pageSize
        /\ n > 0 /\ sent < size /\ ~error
        /\ UNCHANGED <<base, faulted>>
    BY <1>2, <1>5 DEF Numbers
  <2> HIDE DEF n, pageSize
  <2> SUFFICES ASSUME ~faulted
               PROVE  NoMoreThanAppended' /\ FirstFileFits' /\ (Full' => loc' = size')
    BY <1>3, <2>1 DEF AllSent
  <2>2. NoMoreThanAppended /\ FirstFileFits /\ (Full' => loc' = size')
    BY <1>1 DEF AllSent, Full
  <2>3. FirstFile' => FirstFile
    BY <1>1 DEF FirstFile
  <2>4. CASE Full
    <3>1. error' = TRUE /\ UNCHANGED <<pc, blob>>
      BY <1>5, <2>4
    <3>2. NoMoreThanAppended'
      BY <1>1, <1>2, <2>1, <2>2, <2>4, <3>1 DEF NoMoreThanAppended, Numbers, Full
    <3>3. ~FirstFile
      BY <1>1, <2>1, <2>2, <2>4 DEF FirstFileFits, Numbers, Full
    <3> QED
      BY <2>2, <2>3, <3>2, <3>3 DEF FirstFileFits
  <2>5. CASE ~Full
    <3>1. /\ error' = error /\ pc' = "copy"
          /\ blob'.len = pageSize /\ blob'.done = 0
      BY <1>5, <2>5
    <3>2. NoMoreThanAppended'
      BY <1>1, <1>2, <2>1, <2>2, <3>1 DEF NoMoreThanAppended, Numbers
    <3>3. FirstFileFits'
      <4> SUFFICES ASSUME FirstFile
                   PROVE  FirstFileFits'
        BY <2>3 DEF FirstFileFits
      <4> QED
        BY <1>1, <2>1, <2>2, <3>1 DEF FirstFileFits, Numbers
    <3> QED
      BY <2>2, <3>2, <3>3
  <2> QED
    BY <2>4, <2>5
<1> QED
  BY <1>4, <1>5 DEF ReadChunk

LEMMA CopyPageArrives ==
  ASSUME ArriveInv, CopyPage
  PROVE  Started' /\ AllSent'
<1> USE DEF ArriveInv, IInv
<1>1. /\ pc = "copy" /\ pc' \in {"copy", "read"}
      /\ UNCHANGED <<request, size, needsSig, fileLen, filePos, sent, required, base, appends>>
  BY DEF CopyPage
<1>2. Started'
  BY <1>1 DEF Started, Phases
<1> SUFFICES ASSUME ~faulted'
             PROVE  NoMoreThanAppended' /\ FirstFileFits' /\ (Full' => loc' = size')
  BY <1>2 DEF AllSent
<1>3. FirstFile' => FirstFile
  BY <1>1 DEF FirstFile
<1>4. CASE written < size /\ blob.done < blob.len
  <2>1. PICK n \in Nat \ {0} :
          /\ n <= blob.len - blob.done
          /\ written' = written + n
          /\ blob'.len = blob.len /\ blob'.done = blob.done + n
    BY <1>4, PageCopied, Zenon
  <2>2. ~faulted /\ ~error /\ ~error' /\ pc' = "copy" /\ (Full' => loc' = size')
    <3>1. ~faulted /\ ~error /\ ~error' /\ (written' = size => loc' = size)
      BY <1>4, PageCopied, Zenon
    <3> QED
      BY <1>1, <1>4, <3>1 DEF CopyPage, Full
  <2>3. NoMoreThanAppended'
    BY <1>1, <2>1, <2>2 DEF AllSent, NoMoreThanAppended, Numbers
  <2>4. FirstFileFits'
    <3> SUFFICES ASSUME FirstFile
                 PROVE  FirstFileFits'
      BY <1>3 DEF FirstFileFits
    <3> QED
      BY <1>1, <2>1, <2>2 DEF AllSent, FirstFileFits, Numbers
  <2> QED
    BY <2>2, <2>3, <2>4
<1>5. CASE ~(written < size /\ blob.done < blob.len)
  <2>1. pc' = "read" /\ UNCHANGED <<written, loc, error, faulted, blob>>
    BY <1>5 DEF CopyPage
  <2>2. NoMoreThanAppended /\ FirstFileFits /\ (Full' => loc' = size')
    BY <1>1, <2>1 DEF AllSent, Full
  <2>3. NoMoreThanAppended'
    BY <1>1, <2>1, <2>2 DEF NoMoreThanAppended, Numbers
  <2>4. FirstFileFits'
    <3> SUFFICES ASSUME FirstFile
                 PROVE  FirstFileFits'
      BY <1>3 DEF FirstFileFits
    <3>1. /\ (required <=> needsSig) /\ size = (IF required THEN fileLen - Marker ELSE fileLen)
          /\ ~error /\ sent <= size /\ base = 0 /\ sent = written + (blob.len - blob.done)
      BY <1>1, <2>2 DEF FirstFileFits
    <3>2. written = sent
      BY <1>5, <3>1 DEF Numbers
    <3> QED
      BY <1>1, <2>1, <3>1, <3>2 DEF FirstFileFits
  <2> QED
    BY <2>2, <2>3, <2>4
<1> QED
  BY <1>4, <1>5

LEMMA StepArrives == ArriveInv /\ [Next]_vars => ArriveInv'
<1> SUFFICES ASSUME ArriveInv, [Next]_vars
             PROVE  Started' /\ AllSent'
  BY StepKeeps DEF ArriveInv
<1>1. CASE ConstructCreate \/ ConstructInstall
  BY <1>1, ConstructArrives
<1>2. CASE AppendFile
  BY <1>2, AppendFileArrives
<1>3. CASE ReadChunk
  BY <1>3, ReadChunkArrives
<1>4. CASE CopyPage
  BY <1>4, CopyPageArrives
<1>5. CASE Sign
  <2>1. /\ pc = "sign" /\ pc' = "idle"
        /\ UNCHANGED <<request, size, written, loc, needsSig, fileLen, filePos, sent, blob,
                       required, base, appends>>
    BY <1>5 DEF Sign
  <2>2. request = "install" /\ (~faulted' => ~faulted /\ (error' <=> error))
    BY <1>5, <2>1 DEF Sign, ArriveInv, Started
  <2> QED
    BY <2>1, <2>2 DEF ArriveInv, Started, AllSent, NoMoreThanAppended, FirstFileFits, FirstFile, Full
<1>6. CASE ClearError \/ UNCHANGED vars
  <2>1. /\ UNCHANGED <<request, size, written, loc, pc, needsSig, fileLen, filePos, sent,
                       blob, required, base, appends, faulted>>
        /\ error' => error
    BY <1>6 DEF ClearError, vars
  <2> QED
    BY <2>1 DEF ArriveInv, Started, AllSent, NoMoreThanAppended, FirstFileFits, FirstFile, Full
<1> QED
  BY <1>1, <1>2, <1>3, <1>4, <1>5, <1>6 DEF Next

(* What DeclaredArrives says of a data file and of an executable is the same*)
(* of the stream: there is no room left, and nothing more than it was sent. *)
LEMMA ArrivesIfDeclared == ArriveInv => DeclaredArrives
<1> SUFFICES ASSUME ArriveInv, pc = "idle", ~faulted, Declared
             PROVE  /\ written = size /\ ~error
                    /\ request = "install" => size = IF needsSig THEN fileLen - Marker ELSE fileLen
                    /\ \A x \in Places : flash[x] = IF x < size THEN x ELSE NoByte
  BY DEF DeclaredArrives
<1> USE DEF ArriveInv, IInv
<1>1. /\ Open => base = written /\ loc <= written
      /\ NoMoreThanAppended /\ FirstFileFits /\ (Full => loc = size)
      /\ \A x \in Places : flash[x] = IF x < loc THEN x ELSE NoByte
  BY DEF Unfaulted, InStep, PageRight, AllSent, StreamInOrder
<1>2. base = size /\ written <= size /\ ~error
  BY <1>1 DEF Declared, NoMoreThanAppended, FirstFileFits, FirstFile, Numbers
<1>3. written = size /\ loc = size
  BY <1>1, <1>2 DEF Open, Full, Numbers, Phases
<1>4. request = "install" => size = IF needsSig THEN fileLen - Marker ELSE fileLen
  <2>1. ASSUME request = "install"
        PROVE  FirstFile
    BY <2>1 DEF Declared, FirstFile
  <2> QED
    BY <1>1, <2>1 DEF FirstFileFits
<1> QED
  BY <1>1, <1>2, <1>3, <1>4

-----------------------------------------------------------------------------
(* Files are sequences, of whatever symbols.                                *)
IsFile(f) == \E S : f \in Seq(S)

LEMMA FileOf ==
  ASSUME NEW f, NEW n \in Nat, f = [i \in 1 .. n |-> f[i]]
  PROVE  IsFile(f) /\ Len(f) = n
<1> DEFINE S == {f[i] : i \in 1 .. n}
<1>1. f \in [1 .. n -> S]
  OBVIOUS
<1>2. f \in Seq(S)
  BY <1>1, SeqDef
<1>3. Len(f) \in Nat /\ DOMAIN f = 1 .. Len(f)
  BY <1>2, LenProperties
<1>4. DOMAIN f = 1 .. n
  BY <1>1
<1>5. Len(f) = n
  BY <1>3, <1>4
<1> QED
  BY <1>2, <1>5 DEF IsFile

LEMMA FileIs ==
  ASSUME NEW f, IsFile(f)
  PROVE  Len(f) \in Nat /\ f = [i \in 1 .. Len(f) |-> f[i]]
<1>1. PICK S : f \in Seq(S)
  BY DEF IsFile
<1>2. Len(f) \in Nat /\ f \in [1 .. Len(f) -> S]
  BY <1>1, LenProperties
<1> QED
  BY <1>2

LEMMA SameFile ==
  ASSUME NEW f, NEW g, IsFile(f), IsFile(g), Len(f) = Len(g),
         \A i \in 1 .. Len(f) : f[i] = g[i]
  PROVE  f = g
<1>1. f = [i \in 1 .. Len(f) |-> f[i]] /\ g = [i \in 1 .. Len(f) |-> g[i]]
  BY FileIs
<1> QED
  BY <1>1

LEMMA PartOfFile ==
  ASSUME NEW f, IsFile(f), NEW m \in 1 .. Len(f) + 1, NEW n \in m - 1 .. Len(f)
  PROVE  /\ IsFile(SubSeq(f, m, n)) /\ Len(SubSeq(f, m, n)) = n - m + 1
         /\ \A i \in 1 .. n - m + 1 : SubSeq(f, m, n)[i] = f[m + i - 1]
<1>1. PICK S : f \in Seq(S)
  BY DEF IsFile
<1>2. Len(f) \in Nat
  BY FileIs
<1>3. m \in Int /\ n \in Int /\ \A i \in m .. n : i \in 1 .. Len(f)
  BY <1>2
<1>4. \A i \in m .. n : f[i] \in S
  BY <1>1, <1>3, ElementOfSeq
<1>5. /\ SubSeq(f, m, n) \in Seq(S)
      /\ Len(SubSeq(f, m, n)) = IF m <= n THEN n - m + 1 ELSE 0
      /\ \A i \in 1 .. n - m + 1 : SubSeq(f, m, n)[i] = f[m + i - 1]
  BY <1>3, <1>4, SubSeqProperties
<1>6. Len(SubSeq(f, m, n)) = n - m + 1
  BY <1>2, <1>5
<1> QED
  BY <1>5, <1>6 DEF IsFile

LEMMA Joined ==
  ASSUME NEW f, NEW g, IsFile(f), IsFile(g)
  PROVE  /\ IsFile(f \o g) /\ Len(f \o g) = Len(f) + Len(g)
         /\ \A i \in 1 .. Len(f) + Len(g) :
              (f \o g)[i] = IF i <= Len(f) THEN f[i] ELSE g[i - Len(f)]
<1>1. PICK S, T : f \in Seq(S) /\ g \in Seq(T)
  BY DEF IsFile
<1>2. f \in Seq(S \union T) /\ g \in Seq(S \union T)
  BY <1>1, SeqMonotonic
<1>3. /\ f \o g \in Seq(S \union T)
      /\ Len(f \o g) = Len(f) + Len(g)
      /\ \A i \in 1 .. Len(f) + Len(g) : (f \o g)[i] =
             IF i <= Len(f) THEN f[i] ELSE g[i - Len(f)]
  BY <1>2, ConcatProperties
<1> QED
  BY <1>3 DEF IsFile

LEMMA MarkerIs ==
  ASSUME NEW s
  PROVE  /\ IsFile(MarkerOf(s)) /\ Len(MarkerOf(s)) = Marker
         /\ \A i \in 1 .. Marker : MarkerOf(s)[i] = <<i, s>>
<1>1. MarkerOf(s) = [i \in 1 .. Marker |-> MarkerOf(s)[i]]
  BY DEF MarkerOf
<1>2. \A i \in 1 .. Marker : MarkerOf(s)[i] = <<i, s>>
  BY DEF MarkerOf
<1>3. Marker \in Nat
  BY Sizes
<1> QED
  BY <1>1, <1>2, <1>3, FileOf

-----------------------------------------------------------------------------
(* Signatures.                                                              *)
LEMMA SignatureSays ==
  ASSUME NEW k1, NEW d1, NEW k2, NEW d2, Signature(k1, d1) = Signature(k2, d2)
  PROVE  k1 = k2 /\ d1 = d2
<1>1. Signature(k1, d1).by = k1 /\ Signature(k1, d1).of = d1
      /\ Signature(k2, d2).by = k2 /\ Signature(k2, d2).of = d2
  BY DEF Signature
<1> QED
  BY <1>1

(* A file that sign has left behind verifies.                               *)
LEMMA SignedVerifies ==
  ASSUME NEW f, IsFile(f), NEW key
  PROVE  Verify(f \o MarkerOf(Signature(key, f)), key)
<1> DEFINE s == Signature(key, f)
           g == f \o MarkerOf(s)
           tail == SubSeq(g, Len(g) - Marker + 1, Len(g))
<1> HIDE DEF s
<1>1. /\ IsFile(MarkerOf(s)) /\ Len(MarkerOf(s)) = Marker
      /\ \A i \in 1 .. Marker : MarkerOf(s)[i] = <<i, s>>
  BY MarkerIs
<1>2. /\ IsFile(g) /\ Len(g) = Len(f) + Marker
      /\ \A i \in 1 .. Len(f) + Marker :
           g[i] = IF i <= Len(f) THEN f[i] ELSE MarkerOf(s)[i - Len(f)]
  BY <1>1, Joined
<1>3. Len(f) \in Nat /\ Marker \in Nat \ {0}
  BY FileIs, Sizes
<1> HIDE DEF g
<1>4. /\ IsFile(tail) /\ Len(tail) = Marker
      /\ \A i \in 1 .. Marker : tail[i] = g[Len(f) + 1 + i - 1]
  <2>1. /\ Len(g) - Marker + 1 = Len(f) + 1
        /\ Len(f) + 1 \in 1 .. Len(g) + 1 /\ Len(g) \in Len(f) + 1 - 1 .. Len(g)
        /\ Len(g) - (Len(f) + 1) + 1 = Marker
    BY <1>2, <1>3
  <2>2. /\ IsFile(SubSeq(g, Len(f) + 1, Len(g)))
        /\ Len(SubSeq(g, Len(f) + 1, Len(g))) = Marker
        /\ \A i \in 1 .. Marker : SubSeq(g, Len(f) + 1, Len(g))[i] = g[Len(f) + 1 + i - 1]
    <3> HIDE DEF tail
    <3> QED
      BY <1>2, <2>1, PartOfFile
  <2>3. tail = SubSeq(g, Len(f) + 1, Len(g))
    BY <2>1
  <2> QED
    BY <2>2, <2>3, Zenon
<1> HIDE DEF tail
<1>5. \A i \in 1 .. Marker : tail[i] = MarkerOf(s)[i]
  <2> SUFFICES ASSUME NEW i \in 1 .. Marker
               PROVE  tail[i] = MarkerOf(s)[i]
    OBVIOUS
  <2>1. /\ Len(f) + 1 + i - 1 = Len(f) + i /\ Len(f) + i \in 1 .. Len(f) + Marker
        /\ ~(Len(f) + i <= Len(f)) /\ Len(f) + i - Len(f) = i
    BY <1>3
  <2> QED
    BY <1>2, <1>4, <2>1
<1>6. tail = MarkerOf(s)
  BY <1>1, <1>4, <1>5, SameFile
<1>7. tail[1] = <<1, s>>
  <2>1. 1 \in 1 .. Marker
    BY <1>3
  <2> QED
    BY <1>1, <1>6, <2>1
<1>8. Hashed(g) = f
  <2>1. /\ Len(g) - Marker = Len(f) /\ 1 \in 1 .. Len(g) + 1
        /\ Len(f) \in 1 - 1 .. Len(g) /\ Len(f) - 1 + 1 = Len(f)
    BY <1>2, <1>3
  <2>2. /\ Hashed(g) = SubSeq(g, 1, Len(f)) /\ IsFile(Hashed(g)) /\ Len(Hashed(g)) = Len(f)
        /\ \A i \in 1 .. Len(f) : Hashed(g)[i] = g[1 + i - 1]
    BY <1>2, <2>1, PartOfFile DEF Hashed
  <2>3. \A i \in 1 .. Len(f) : 1 + i - 1 = i /\ i \in 1 .. Len(f) + Marker /\ i <= Len(f)
    BY <1>3
  <2>4. \A i \in 1 .. Len(f) : Hashed(g)[i] = f[i]
    BY <1>2, <2>2, <2>3
  <2> QED
    BY <2>2, <2>4, SameFile
<1>9. Len(g) >= Marker
  BY <1>2, <1>3
<1>10. GetSignature(g) = s
  <2>1. tail[1][1] = 1 /\ tail[1][2] = s
    BY <1>7
  <2> QED
    BY <1>6, <1>9, <2>1 DEF GetSignature, tail
<1> QED
  BY <1>8, <1>9, <1>10 DEF Verify, g, s

(* And a file that verifies ends in a marker of just that signature.        *)
LEMMA VerifiedIsSigned ==
  ASSUME NEW f, IsFile(f), NEW key, key # NoKey, Verify(f, key)
  PROVE  /\ Len(f) >= Marker
         /\ f[Len(f)] = <<Marker, Signature(key, Hashed(f))>>
         /\ f = Hashed(f) \o MarkerOf(Signature(key, Hashed(f)))
<1> DEFINE d == Hashed(f)
           s == Signature(key, d)
           tail == SubSeq(f, Len(f) - Marker + 1, Len(f))
<1>1. Len(f) >= Marker /\ GetSignature(f) = s
  BY DEF Verify
<1>2. s # NoSignature
  <2> HIDE DEF d
  <2> QED
    BY SignatureSays DEF NoSignature
<1> HIDE DEF s
<1>3. tail = MarkerOf(tail[1][2]) /\ tail[1][2] = s
  BY <1>1, <1>2 DEF GetSignature
<1>4. tail = MarkerOf(s)
  BY <1>3
<1>5. Len(f) \in Nat /\ Marker \in Nat \ {0}
  BY FileIs, Sizes
<1>6. /\ IsFile(MarkerOf(s)) /\ Len(MarkerOf(s)) = Marker
      /\ \A i \in 1 .. Marker : MarkerOf(s)[i] = <<i, s>>
  BY MarkerIs
<1>7. \A i \in 1 .. Marker : MarkerOf(s)[i] = f[Len(f) - Marker + i]
  <2>1. /\ Len(f) - Marker + 1 \in 1 .. Len(f) + 1
        /\ Len(f) \in Len(f) - Marker + 1 - 1 .. Len(f)
        /\ Len(f) - (Len(f) - Marker + 1) + 1 = Marker
    BY <1>1, <1>5
  <2>2. \A i \in 1 .. Marker : tail[i] = f[Len(f) - Marker + 1 + i - 1]
    BY <2>1, PartOfFile
  <2>3. \A i \in 1 .. Marker : Len(f) - Marker + 1 + i - 1 = Len(f) - Marker + i
    BY <1>5
  <2> QED
    BY <1>4, <2>2, <2>3
<1>8. f[Len(f)] = <<Marker, s>>
  <2>1. Marker \in 1 .. Marker /\ Len(f) - Marker + Marker = Len(f)
    BY <1>5
  <2> QED
    BY <1>6, <1>7, <2>1
<1>9. /\ IsFile(d) /\ Len(d) = Len(f) - Marker
      /\ \A i \in 1 .. Len(f) - Marker : d[i] = f[i]
  <2>1. /\ 1 \in 1 .. Len(f) + 1 /\ Len(f) - Marker \in 1 - 1 .. Len(f)
        /\ Len(f) - Marker - 1 + 1 = Len(f) - Marker
    BY <1>1, <1>5
  <2>2. /\ IsFile(d) /\ Len(d) = Len(f) - Marker
        /\ \A i \in 1 .. Len(f) - Marker : d[i] = f[1 + i - 1]
    BY <2>1, PartOfFile DEF Hashed
  <2>3. \A i \in 1 .. Len(f) - Marker : 1 + i - 1 = i
    BY <1>5
  <2> QED
    BY <2>2, <2>3
<1> HIDE DEF d
<1>10. f = d \o MarkerOf(s)
  <2>1. /\ IsFile(d \o MarkerOf(s)) /\ Len(d \o MarkerOf(s)) = Len(d) + Marker
        /\ \A i \in 1 .. Len(d) + Marker :
             (d \o MarkerOf(s))[i] = IF i <= Len(d) THEN d[i] ELSE MarkerOf(s)[i - Len(d)]
    BY <1>6, <1>9, Joined
  <2>2. Len(d) + Marker = Len(f) /\ Len(d) \in Nat
    BY <1>1, <1>5, <1>9
  <2>3. ASSUME NEW i \in 1 .. Len(f)
        PROVE  f[i] = (d \o MarkerOf(s))[i]
    <3>1. CASE i <= Len(d)
      BY <1>9, <2>1, <2>2, <3>1
    <3>2. CASE ~(i <= Len(d))
      <4>1. i - Len(d) \in 1 .. Marker /\ Len(f) - Marker + (i - Len(d)) = i
        BY <1>5, <1>9, <2>2, <3>2
      <4> QED
        BY <1>7, <2>1, <2>2, <3>2, <4>1
    <3> QED
      BY <3>1, <3>2
  <2> QED
    BY <2>1, <2>2, <2>3, SameFile
<1> QED
  BY <1>1, <1>8, <1>10 DEF d, s

-----------------------------------------------------------------------------
(* A symbol of a marker is in a file only if sign has put it there.         *)
OfSigns(symbol, made) ==
  symbol[1] = 0 \/ \E v \in made, j \in 1 .. Marker : symbol = <<j, Signature(v.by, v.of)>>

SignInv ==
  /\ IsFile(file)
  /\ request = "none" =>
       /\ \A v \in signed :
            IsFile(v.of) /\ v.result = v.of \o MarkerOf(Signature(v.by, v.of))
       /\ \A i \in 1 .. Len(file) : OfSigns(file[i], signed)

LEMMA PlainFiles ==
  ASSUME NEW f \in Contents \union Headers
  PROVE  IsFile(f) /\ \A i \in 1 .. Len(f) : f[i][1] = 0
<1>1. Len(f) \in Nat /\ f = [i \in 1 .. Len(f) |-> <<0, f[i][2]>>]
  BY FilesAssumption
<1>2. f = [i \in 1 .. Len(f) |-> f[i]]
  BY <1>1
<1>3. \A i \in 1 .. Len(f) : f[i] = <<0, f[i][2]>>
  BY <1>1
<1> QED
  BY <1>1, <1>2, <1>3, FileOf

LEMMA InitSigned == SignedInit => SignInv
<1> SUFFICES ASSUME SignedInit
             PROVE  SignInv
  OBVIOUS
<1>1. file = <<>> /\ signed = {}
  BY DEF SignedInit
<1>2. IsFile(<<>>) /\ Len(<<>>) = 0
  BY EmptySeq DEF IsFile
<1> QED
  BY <1>1, <1>2 DEF SignInv

LEMMA SignFileKeeps ==
  ASSUME SignInv, SignFile
  PROVE  SignInv'
<1>1. request = "none" /\ request' = "none" /\ IsFile(file)
  BY DEF SignFile, Preparing, vars, SignInv
<1>2. PICK key \in KeyPairs :
        /\ file' = file \o MarkerOf(Signature(key, file))
        /\ signed' = signed \union {[by |-> key, of |-> file, result |-> file']}
  BY DEF SignFile
<1> DEFINE s == Signature(key, file)
           w == [by |-> key, of |-> file, result |-> file']
<1>3. /\ IsFile(MarkerOf(s)) /\ Len(MarkerOf(s)) = Marker
      /\ \A i \in 1 .. Marker : MarkerOf(s)[i] = <<i, s>>
  BY MarkerIs
<1>4. /\ IsFile(file') /\ Len(file') = Len(file) + Marker
      /\ \A i \in 1 .. Len(file) + Marker :
           file'[i] = IF i <= Len(file) THEN file[i] ELSE MarkerOf(s)[i - Len(file)]
  BY <1>1, <1>2, <1>3, Joined
<1>5. w.by = key /\ w.of = file /\ w.result = file' /\ w \in signed'
  BY <1>2
<1>6. \A v \in signed' :
        IsFile(v.of) /\ v.result = v.of \o MarkerOf(Signature(v.by, v.of))
  <2>1. ASSUME NEW v \in signed'
        PROVE  IsFile(v.of) /\ v.result = v.of \o MarkerOf(Signature(v.by, v.of))
    <3>1. CASE v \in signed
      BY <1>1, <3>1 DEF SignInv
    <3>2. CASE v = w
      BY <1>1, <1>2, <1>5, <3>2
    <3> QED
      BY <1>2, <3>1, <3>2
  <2> QED
    BY <2>1
<1>7. \A i \in 1 .. Len(file') : OfSigns(file'[i], signed')
  <2> SUFFICES ASSUME NEW i \in 1 .. Len(file')
               PROVE  \/ file'[i][1] = 0
                      \/ \E v \in signed', j \in 1 .. Marker :
                           file'[i] = <<j, Signature(v.by, v.of)>>
    BY DEF OfSigns
  <2>1. Len(file) \in Nat /\ Marker \in Nat
    BY <1>1, FileIs, Sizes
  <2>2. CASE i <= Len(file)
    <3>1. i \in 1 .. Len(file) /\ file'[i] = file[i]
      BY <1>4, <2>1, <2>2
    <3>2. file[i][1] = 0 \/ \E v \in signed, j \in 1 .. Marker : file[i] = <<j, Signature(v.by, v.of)>>
      BY <1>1, <3>1 DEF SignInv, OfSigns
    <3> QED
      BY <1>2, <3>1, <3>2
  <2>3. CASE ~(i <= Len(file))
    <3>1. i - Len(file) \in 1 .. Marker /\ file'[i] = MarkerOf(s)[i - Len(file)]
      BY <1>4, <2>1, <2>3
    <3>2. file'[i] = <<i - Len(file), Signature(w.by, w.of)>>
      BY <1>3, <1>5, <3>1
    <3> QED
      BY <1>5, <3>1, <3>2
  <2> QED
    BY <2>2, <2>3
<1> QED
  BY <1>4, <1>6, <1>7 DEF SignInv

(* What puts files together of parts, without signing them.                 *)
LEMMA EditKeeps ==
  ASSUME SignInv, request = "none", Build \/ ApplyAttributes \/ CopyPart
  PROVE  SignInv'
<1>1. UNCHANGED <<signed, request>> /\ IsFile(file)
  BY DEF Build, ApplyAttributes, CopyPart, Preparing, vars, SignInv
<1>2. \A i \in 1 .. Len(file) : OfSigns(file[i], signed)
  BY DEF SignInv
<1>3. SUFFICES IsFile(file') /\ \A i \in 1 .. Len(file') : OfSigns(file'[i], signed)
  BY <1>1 DEF SignInv
<1>4. CASE Build
  BY <1>4, PlainFiles DEF Build, OfSigns
<1>5. CASE ApplyAttributes
  <2>1. PICK h \in Headers :
          Len(h) <= Len(file) /\ file' = h \o SubSeq(file, Len(h) + 1, Len(file))
    BY <1>5 DEF ApplyAttributes
  <2>2. IsFile(h) /\ \A i \in 1 .. Len(h) : h[i][1] = 0
    BY PlainFiles
  <2>3. Len(h) \in Nat /\ Len(file) \in Nat
    BY <1>1, <2>2, FileIs
  <2> DEFINE rest == SubSeq(file, Len(h) + 1, Len(file))
  <2>4. /\ IsFile(rest) /\ Len(rest) = Len(file) - Len(h)
        /\ \A i \in 1 .. Len(file) - Len(h) : rest[i] = file[Len(h) + i]
    <3>1. \A a \in Nat, b \in Nat : a <= b =>
            /\ a + 1 \in 1 .. b + 1 /\ b \in a + 1 - 1 .. b /\ b - (a + 1) + 1 = b - a
            /\ \A i \in 1 .. b - a : a + 1 + i - 1 = a + i
      BY SMT
    <3>2. /\ IsFile(rest) /\ Len(rest) = Len(file) - (Len(h) + 1) + 1
          /\ \A i \in 1 .. Len(file) - (Len(h) + 1) + 1 : rest[i] = file[Len(h) + 1 + i - 1]
      <4>1. Len(h) + 1 \in 1 .. Len(file) + 1 /\ Len(file) \in Len(h) + 1 - 1 .. Len(file)
        BY <2>1, <2>3, <3>1, Zenon
      <4> QED
        BY <1>1, <4>1, PartOfFile
    <3>3. Len(file) - (Len(h) + 1) + 1 = Len(file) - Len(h)
          /\ \A i \in 1 .. Len(file) - Len(h) : Len(h) + 1 + i - 1 = Len(h) + i
      BY <2>1, <2>3, <3>1, Zenon
    <3> QED
      BY <3>2, <3>3, Zenon
  <2> HIDE DEF rest
  <2>5. /\ IsFile(file') /\ Len(file') = Len(h) + Len(rest)
        /\ \A i \in 1 .. Len(h) + Len(rest) :
             file'[i] = IF i <= Len(h) THEN h[i] ELSE rest[i - Len(h)]
    BY <2>1, <2>2, <2>4, Joined DEF rest
  <2>6. ASSUME NEW i \in 1 .. Len(file')
        PROVE  OfSigns(file'[i], signed)
    <3>1. CASE i <= Len(h)
      BY <2>2, <2>3, <2>4, <2>5, <3>1 DEF OfSigns
    <3>2. CASE ~(i <= Len(h))
      <4>1. /\ i - Len(h) \in 1 .. Len(file) - Len(h)
            /\ Len(h) + (i - Len(h)) = i /\ i \in 1 .. Len(file)
        BY <2>1, <2>3, <2>4, <2>5, <3>2
      <4>2. file'[i] = file[i]
        BY <2>4, <2>5, <3>2, <4>1
      <4> QED
        BY <1>2, <4>1, <4>2
    <3> QED
      BY <3>1, <3>2
  <2> QED
    BY <2>5, <2>6
<1>6. CASE CopyPart
  <2>1. PICK n \in 1 .. Len(file) - 1 : file' = SubSeq(file, 1, n)
    BY <1>6 DEF CopyPart
  <2>2. Len(file) \in Nat
    BY <1>1, FileIs
  <2>3. /\ 1 \in 1 .. Len(file) + 1 /\ n \in 1 - 1 .. Len(file) /\ n - 1 + 1 = n
        /\ \A i \in 1 .. n : 1 + i - 1 = i /\ i \in 1 .. Len(file)
    BY <2>2
  <2>4. /\ IsFile(file') /\ Len(file') = n - 1 + 1
        /\ \A i \in 1 .. n - 1 + 1 : file'[i] = file[1 + i - 1]
    BY <1>1, <2>1, <2>3, PartOfFile
  <2>5. Len(file') = n /\ \A i \in 1 .. n : file'[i] = file[i]
    BY <2>3, <2>4
  <2> QED
    BY <1>2, <2>3, <2>4, <2>5
<1> QED
  BY <1>4, <1>5, <1>6

LEMMA SignedKeeps == SignInv /\ [SignedNext]_signedVars => SignInv'
<1> SUFFICES ASSUME SignInv, [SignedNext]_signedVars
             PROVE  SignInv'
  OBVIOUS
<1>1. CASE SignFile
  BY <1>1, SignFileKeeps
<1>2. CASE Build \/ ApplyAttributes \/ CopyPart
  BY <1>2, EditKeeps DEF Build, ApplyAttributes, CopyPart, Preparing
<1>3. CASE UNCHANGED <<file, signed>> /\ (request' = "none" => request = "none")
  BY <1>3 DEF SignInv, OfSigns
<1>4. CASE file' = file /\ request' # "none"
  BY <1>4 DEF SignInv
<1> QED
  BY <1>1, <1>2, <1>3, <1>4
     DEF SignedNext, signedVars, fileVars, Construct, ConstructCreate, ConstructInstall,
         SendFile, AppendFile, HandSignature, Sign, ReadChunk, CopyPage, ClearError, vars

LEMMA VerifiesHolds == SignInv => VerifiesIfSigned
<1> SUFFICES ASSUME SignInv, request = "none", NEW key \in KeyPairs
             PROVE  Verify(file, key) <=> \E v \in signed : v.by = key /\ v.result = file
  BY DEF VerifiesIfSigned
<1>1. IsFile(file)
  BY DEF SignInv
<1>2. ASSUME NEW v \in signed, v.by = key, v.result = file
      PROVE  Verify(file, key)
  BY <1>2, SignedVerifies DEF SignInv
<1>3. ASSUME Verify(file, key)
      PROVE  \E v \in signed : v.by = key /\ v.result = file
  <2>1. key # NoKey
    BY FilesAssumption
  <2>2. /\ Len(file) >= Marker
        /\ file[Len(file)] = <<Marker, Signature(key, Hashed(file))>>
        /\ file = Hashed(file) \o MarkerOf(Signature(key, Hashed(file)))
    BY <1>1, <1>3, <2>1, VerifiedIsSigned
  <2>3. Len(file) \in 1 .. Len(file) /\ Marker # 0
    BY <1>1, <2>2, FileIs, Sizes
  <2>4. OfSigns(file[Len(file)], signed)
    BY <2>3 DEF SignInv
  <2>5. PICK v \in signed, j \in 1 .. Marker :
          file[Len(file)] = <<j, Signature(v.by, v.of)>>
    BY <2>2, <2>3, <2>4 DEF OfSigns
  <2>6. Signature(v.by, v.of) = Signature(key, Hashed(file))
    BY <2>2, <2>5
  <2>7. v.by = key /\ v.of = Hashed(file)
    BY <2>6, SignatureSays
  <2>8. v.result = v.of \o MarkerOf(Signature(v.by, v.of))
    BY DEF SignInv
  <2> QED
    BY <2>2, <2>7, <2>8
<1> QED
  BY <1>2, <1>3

(* Preparing a file on the host leaves the Appfs alone; the rest are steps  *)
(* of an append.                                                            *)
LEMMA SignedStep == [SignedNext]_signedVars => [Next]_vars
BY DEF SignedNext, signedVars, Next, Build, SignFile, ApplyAttributes, CopyPart,
       Preparing, Construct, SendFile, HandSignature

-----------------------------------------------------------------------------
(* What the device is handed is what it holds.                              *)
HandInv ==
  /\ ArriveInv /\ SignInv
  /\ request = "install" /\ appends > 0 => fileLen = Len(file)
  /\ appends = 0 => verdict = "none" /\ ~faulted
  /\ pc = "sign" => required
  /\ appends = 1 /\ required /\ pc # "idle" /\ faulted => error

(* With the whole file but its signature stored, the device compares what   *)
(* verify does.                                                             *)
LEMMA StoredIsHashed ==
  ASSUME HandInv, pc = "sign", appends = 1, ~error, Len(file) >= Marker
  PROVE  Stored = Hashed(file)
<1>1. /\ ~faulted /\ request = "install" /\ fileLen = Len(file) /\ required
      /\ IsFile(file) /\ FirstFile
  BY DEF HandInv, ArriveInv, Started, SignInv, FirstFile
<1>2. Len(file) \in Nat /\ Marker \in Nat \ {0} /\ Len(file) <= MaxFile
  BY <1>1, FileIs, Sizes DEF HandInv, ArriveInv, Started
<1>3. loc = Len(file) - Marker /\ size = loc
  <2>1. base = size /\ written <= size /\ size = Len(file) - Marker
    BY <1>1 DEF HandInv, ArriveInv, AllSent, FirstFileFits
  <2>2. /\ Open => base = written /\ loc <= written
        /\ (Full => loc = size) /\ (size = 0 => written = 0)
        /\ loc \in Nat /\ written \in Nat
    BY <1>1 DEF HandInv, ArriveInv, AllSent, IInv, Unfaulted, InStep, PageRight, Phases, Numbers
  <2> QED
    BY <1>2, <2>1, <2>2 DEF Open, Full
<1>4. \A i \in 1 .. loc : flash[i - 1] = i - 1
  <2>1. \A i \in 1 .. loc : i - 1 \in Places /\ i - 1 < loc
    BY <1>2, <1>3, Room, Sizes DEF Places
  <2>2. \A x \in Places : flash[x] = IF x < loc THEN x ELSE NoByte
    BY <1>1 DEF HandInv, ArriveInv, IInv, StreamInOrder
  <2> QED
    BY <2>1, <2>2
<1>5. \A i \in 1 .. loc : Stored[i] = file[i]
  <2> SUFFICES ASSUME NEW i \in 1 .. loc
               PROVE  Stored[i] = file[i]
    OBVIOUS
  <2>1. i - 1 \in 0 .. Len(file) - 1 /\ i - 1 + 1 = i
    BY <1>2, <1>3
  <2> QED
    BY <1>4, <2>1 DEF Stored
<1>6. IsFile(Stored) /\ Len(Stored) = loc
  <2>1. Stored = [i \in 1 .. loc |-> Stored[i]]
    BY DEF Stored
  <2>2. loc \in Nat
    BY <1>2, <1>3, Sizes DEF HandInv, ArriveInv, IInv, Numbers
  <2> QED
    BY <2>1, <2>2, FileOf
<1>7. /\ IsFile(Hashed(file)) /\ Len(Hashed(file)) = loc
      /\ \A i \in 1 .. loc : Hashed(file)[i] = file[i]
  <2>1. /\ 1 \in 1 .. Len(file) + 1 /\ loc \in 1 - 1 .. Len(file) /\ loc - 1 + 1 = loc
        /\ \A i \in 1 .. loc : 1 + i - 1 = i
    BY <1>2, <1>3
  <2>2. Hashed(file) = SubSeq(file, 1, loc)
    BY <1>3 DEF Hashed
  <2>3. /\ IsFile(SubSeq(file, 1, loc)) /\ Len(SubSeq(file, 1, loc)) = loc - 1 + 1
        /\ \A i \in 1 .. loc - 1 + 1 : SubSeq(file, 1, loc)[i] = file[1 + i - 1]
    BY <1>1, <2>1, PartOfFile
  <2> QED
    BY <2>1, <2>2, <2>3
<1> QED
  BY <1>5, <1>6, <1>7, SameFile

LEMMA AcceptsRight ==
  ASSUME HandInv, pc = "sign", appends = 1, ~error
  PROVE  Accepts <=> Verify(file, DeviceKey)
<1>1. CASE Len(file) >= Marker
  BY <1>1, StoredIsHashed DEF Accepts, Verify
<1>2. CASE ~(Len(file) >= Marker)
  <2>1. GetSignature(file) = NoSignature
    BY <1>2 DEF GetSignature
  <2>2. NoSignature # Signature(DeviceKey, Stored)
    BY SignatureSays, FilesAssumption DEF NoSignature
  <2> QED
    BY <1>2, <2>1, <2>2 DEF Accepts, Verify
<1> QED
  BY <1>1, <1>2

LEMMA InitHands == SignedInit => HandInv /\ DeviceAgrees
<1> SUFFICES ASSUME SignedInit
             PROVE  HandInv /\ DeviceAgrees
  OBVIOUS
<1>1. ArriveInv /\ SignInv
  BY InitArrives, InitSigned DEF SignedInit
<1> QED
  BY <1>1 DEF SignedInit, Init, HandInv, DeviceAgrees

LEMMA HandsKeep ==
  HandInv /\ DeviceAgrees /\ [SignedNext]_signedVars => HandInv' /\ DeviceAgrees'
<1> SUFFICES ASSUME HandInv, DeviceAgrees, [SignedNext]_signedVars
             PROVE  HandInv' /\ DeviceAgrees'
  OBVIOUS
<1>1. ArriveInv' /\ SignInv'
  BY StepArrives, SignedStep, SignedKeeps DEF HandInv
<1>2. /\ Started /\ (request = "none" => pc = "idle") /\ appends \in Nat
      /\ pc \in {"idle", "read", "copy", "sign"}
  BY DEF HandInv, ArriveInv, IInv, Phases, Started
<1>3. CASE Build \/ SignFile \/ ApplyAttributes \/ CopyPart
  <2>1. request = "none" /\ UNCHANGED <<request, appends, fileLen, verdict, faulted, pc, required, error>>
    BY <1>3 DEF Build, SignFile, ApplyAttributes, CopyPart, Preparing, vars
  <2>2. appends = 0 /\ verdict = "none"
    BY <1>2, <2>1 DEF Started, HandInv
  <2> QED
    BY <1>1, <1>2, <2>1, <2>2 DEF HandInv, DeviceAgrees
<1>4. CASE Construct
  <2>1. /\ appends = 0 /\ pc = "idle"
        /\ UNCHANGED <<appends, file, verdict, faulted, pc, required, error>>
    BY <1>2, <1>4 DEF Construct, ConstructCreate, ConstructInstall, fileVars, Started
  <2> QED
    BY <1>1, <2>1 DEF HandInv, DeviceAgrees
<1>5. CASE SendFile
  <2>1. /\ pc' = "read" /\ appends' = appends + 1 /\ ~error /\ UNCHANGED <<file, verdict, error, request>>
        /\ request = "install" => fileLen' = Len(file)
        /\ required' /\ faulted' => faulted
    BY <1>5 DEF SendFile, AppendFile, fileVars
  <2>2. DeviceAgrees'
    BY <1>2, <2>1 DEF HandInv, DeviceAgrees
  <2>3. appends' = 1 /\ required' => ~faulted'
    BY <1>2, <2>1 DEF HandInv
  <2>4. appends' # 0
    BY <1>2, <2>1
  <2> QED
    BY <1>1, <2>1, <2>2, <2>3, <2>4 DEF HandInv
<1>6. CASE HandSignature
  <2>1. /\ pc = "sign" /\ pc' = "idle" /\ UNCHANGED <<file, appends, request, fileLen, required>>
        /\ \/ verdict' = verdict
           \/ ~error /\ ~Accepts /\ verdict' = "rejected"
           \/ ~error /\ Accepts /\ verdict' = "accepted"
    BY <1>6 DEF HandSignature, Sign
  <2>2. appends # 0
    BY <1>2, <2>1 DEF Started
  <2>3. DeviceAgrees'
    BY <2>1, AcceptsRight DEF DeviceAgrees
  <2> QED
    BY <1>1, <2>1, <2>2, <2>3 DEF HandInv
<1>7. CASE (ReadChunk \/ CopyPage \/ ClearError) /\ UNCHANGED fileVars
  <2>1. /\ UNCHANGED <<file, verdict, appends, request, fileLen, required>>
        /\ pc' = "sign" => required \/ pc = "sign"
        /\ faulted' /\ pc # "idle" => error' \/ (faulted /\ ~error)
        /\ pc = "idle" => pc' = "idle" /\ faulted' = faulted
    <3>1. CASE ReadChunk
      BY <1>7, <3>1 DEF ReadChunk, LeaveLoop, fileVars
    <3>2. CASE CopyPage
      BY <1>7, <3>2 DEF CopyPage, SendPage, fileVars
    <3>3. CASE ClearError
      BY <1>7, <3>3 DEF ClearError, fileVars
    <3> QED
      BY <1>7, <3>1, <3>2, <3>3
  <2>2. appends = 0 => pc = "idle"
    BY <1>2 DEF Started
  <2>3. DeviceAgrees'
    BY <2>1 DEF DeviceAgrees
  <2> QED
    BY <1>1, <2>1, <2>2, <2>3 DEF HandInv
<1>8. CASE UNCHANGED signedVars
  BY <1>1, <1>8 DEF signedVars, fileVars, vars, HandInv, DeviceAgrees
<1> QED
  BY <1>3, <1>4, <1>5, <1>6, <1>7, <1>8 DEF SignedNext

-----------------------------------------------------------------------------
(* Types.  After k appends the stream has got no further than PlaceAfter(k),*)
(* also if transfers failed, bytes were skipped or the file was full.       *)
PlaceAfter(k) == Overhead + k * MaxFile

Counts ==
  /\ appends \in 0 .. MaxAppends /\ (appends = 0 => pc = "idle")
  /\ size < Word /\ fileLen <= MaxFile /\ sent <= filePos
  /\ loc <= written /\ (Open => written % PageSize = written - loc)
  /\ blob.from <= MaxPlace /\ blob.len <= PageSize
  /\ pc \in {"idle", "sign"} =>
       written <= PlaceAfter(appends) /\ base <= PlaceAfter(appends)
  /\ pc \in {"read", "copy"} => base <= PlaceAfter(appends - 1)
  /\ pc = "read" => written <= PlaceAfter(appends - 1) + filePos
  /\ pc = "copy" =>
       /\ written + (blob.len - blob.done) <= PlaceAfter(appends - 1) + filePos
       /\ blob.from + blob.len <= base + filePos

Stores ==
  /\ buffer \in [0 .. PageSize - 1 -> Bytes \union {NoByte}]
  /\ flash \in [Places -> Bytes \union {NoByte}]
  /\ error \in BOOLEAN /\ needsSig \in BOOLEAN /\ required \in BOOLEAN
  /\ faulted \in BOOLEAN

TypeInv == IInv /\ Counts /\ Stores

LEMMA PlacesAfter ==
  /\ MaxPlace \in Nat /\ MaxPlace = PlaceAfter(MaxAppends) /\ PlaceAfter(0) = Overhead
  /\ \A k \in 0 .. MaxAppends : PlaceAfter(k) \in Nat /\ PlaceAfter(k) <= MaxPlace
  /\ \A k \in 1 .. MaxAppends : PlaceAfter(k) = PlaceAfter(k - 1) + MaxFile
<1>1. MaxAppends \in Nat /\ MaxFile \in Nat /\ Overhead \in Nat
  BY Sizes
<1>2. \A k \in Nat, d \in Nat : k * MaxFile \in Nat /\ (k + d) * MaxFile = k * MaxFile + d * MaxFile
  BY <1>1, SMT
<1>3. 0 * MaxFile = 0 /\ 1 * MaxFile = MaxFile
  BY <1>1, SMT
<1>4. ASSUME NEW k \in 0 .. MaxAppends
      PROVE  PlaceAfter(k) \in Nat /\ PlaceAfter(k) <= MaxPlace
  <2>1. /\ k \in Nat /\ MaxAppends - k \in Nat /\ k + (MaxAppends - k) = MaxAppends
    BY <1>1
  <2>2. /\ MaxAppends * MaxFile = k * MaxFile + (MaxAppends - k) * MaxFile
        /\ k * MaxFile \in Nat /\ (MaxAppends - k) * MaxFile \in Nat
    BY <1>2, <2>1
  <2> QED
    BY <1>1, <2>2 DEF PlaceAfter, MaxPlace
<1>5. ASSUME NEW k \in 1 .. MaxAppends
      PROVE  PlaceAfter(k) = PlaceAfter(k - 1) + MaxFile
  <2>1. k - 1 \in Nat /\ (k - 1) + 1 = k
    BY <1>1
  <2>2. k * MaxFile = (k - 1) * MaxFile + MaxFile /\ (k - 1) * MaxFile \in Nat
    BY <1>2, <1>3, <2>1
  <2> QED
    BY <1>1, <2>2 DEF PlaceAfter
<1> QED
  BY <1>1, <1>3, <1>4, <1>5, Room DEF PlaceAfter, MaxPlace

(* While a file is appended: from where the calls before left off to where  *)
(* it ends.                                                                 *)
LEMMA InThisFile ==
  ASSUME Counts, IInv, appends # 0
  PROVE  /\ PlaceAfter(appends - 1) \in Nat /\ PlaceAfter(appends) \in Nat
         /\ PlaceAfter(appends) = PlaceAfter(appends - 1) + MaxFile
         /\ PlaceAfter(appends) <= MaxPlace
         /\ PlaceAfter(appends - 1) + filePos <= PlaceAfter(appends)
<1>1. appends \in 1 .. MaxAppends /\ appends - 1 \in 0 .. MaxAppends /\ appends \in 0 .. MaxAppends
  BY Sizes DEF Counts
<1>2. filePos <= MaxFile /\ filePos \in Nat /\ MaxFile \in Nat
  BY Sizes DEF Counts, IInv, Numbers
<1> QED
  BY <1>1, <1>2, PlacesAfter

LEMMA TypesHold == TypeInv => TypeOK
<1> SUFFICES ASSUME TypeInv
             PROVE  TypeOK
  OBVIOUS
<1> USE DEF TypeInv
<1>1. written <= MaxPlace /\ base <= MaxPlace
  <2>1. CASE appends = 0
    BY <2>1, PlacesAfter DEF Counts, IInv, Numbers
  <2>2. CASE appends # 0
    BY <2>2, InThisFile, PlacesAfter DEF Counts, IInv, Phases, Numbers
  <2> QED
    BY <2>1, <2>2
<1>2. /\ size \in 0 .. Word - 1 /\ written \in 0 .. MaxPlace
      /\ loc \in 0 .. MaxPlace + PageSize /\ base \in 0 .. MaxPlace
      /\ fileLen \in 0 .. MaxFile /\ filePos \in 0 .. fileLen /\ sent \in 0 .. MaxFile
  BY <1>1, Sizes, Room DEF Counts, IInv, Numbers
<1>3. blob \in [from : 0 .. MaxPlace, len : 0 .. PageSize, done : 0 .. PageSize]
  <2>1. /\ blob.from \in 0 .. MaxPlace /\ blob.len \in 0 .. PageSize
        /\ blob.done \in 0 .. PageSize
    BY Sizes, Room DEF Counts, IInv, Numbers
  <2>2. blob = [from |-> blob.from, len |-> blob.len, done |-> blob.done]
    BY DEF IInv, Numbers
  <2> QED
    BY <2>1, <2>2
<1> QED
  BY <1>2, <1>3 DEF TypeOK, IInv, Phases, Counts, Stores

LEMMA InitTypes == Init => TypeInv
<1> SUFFICES ASSUME Init
             PROVE  Counts /\ Stores
  BY InitHolds DEF TypeInv
<1>1. 0 % PageSize = 0
  <2>1. 0 = PageSize * 0 + 0 /\ 0 \in 0 .. PageSize - 1
    BY Sizes
  <2> QED
    BY <2>1, RemainderIs
<1>2. Counts
  BY <1>1, PlacesAfter, Sizes, Room DEF Init, Counts
<1>3. Stores
  BY DEF Init, Stores
<1> QED
  BY <1>2, <1>3

LEMMA ConstructTypes ==
  ASSUME TypeInv, ConstructCreate \/ ConstructInstall
  PROVE  Counts' /\ Stores'
<1> USE DEF TypeInv, IInv
<1>1. /\ request = "none" /\ written = 0 /\ loc = 0 /\ base = 0 /\ size = 0 /\ pc = "idle"
      /\ UNCHANGED <<loc, error, needsSig, flash, pc, fileLen, filePos, sent, blob,
                     required, appends, faulted>>
  BY DEF ConstructCreate, ConstructInstall, Phases
<1>2. CASE ConstructCreate
  <2>1. PICK n \in 1 .. MaxFile : size' = n + Overhead
    BY <1>2 DEF ConstructCreate
  <2>2. /\ written' = Overhead /\ base' = Overhead
        /\ buffer' = [i \in 0 .. PageSize - 1 |-> IF i < Overhead THEN i ELSE NoByte]
    BY <1>2 DEF ConstructCreate
  <2>3. Overhead <= PlaceAfter(appends) /\ Overhead \in Nat /\ MaxPlace >= Overhead
    <3>1. appends * MaxFile \in Nat /\ MaxAppends * MaxFile \in Nat
      <4>1. appends \in Nat /\ MaxFile \in Nat /\ MaxAppends \in Nat
        BY Sizes DEF Counts
      <4> QED
        BY <4>1, SMT
    <3> QED
      BY <3>1, Sizes DEF PlaceAfter, MaxPlace
  <2>4. written' % PageSize = written' - loc'
    <3>1. Overhead = PageSize * 0 + Overhead /\ Overhead \in 0 .. PageSize - 1
      BY Sizes
    <3>2. Overhead % PageSize = Overhead
      BY <3>1, RemainderIs
    <3> QED
      BY <1>1, <2>2, <3>2, Sizes
  <2>5. size' < Word
    BY <2>1, Room, Sizes
  <2>6. Counts'
    BY <1>1, <2>2, <2>3, <2>4, <2>5 DEF Counts
  <2>7. buffer' \in [0 .. PageSize - 1 -> Bytes \union {NoByte}]
    <3>1. \A i \in 0 .. PageSize - 1 : i < Overhead => i \in Bytes
      BY <2>3, Room, Sizes DEF Bytes
    <3> QED
      BY <2>2, <3>1
  <2> QED
    BY <1>1, <2>6, <2>7 DEF Stores
<1>3. CASE ConstructInstall
  <2>1. UNCHANGED <<size, written, buffer, base>>
    BY <1>3 DEF ConstructInstall
  <2> QED
    BY <1>1, <2>1 DEF Counts, Stores, Open
<1> QED
  BY <1>2, <1>3

LEMMA AppendFileTypes ==
  ASSUME TypeInv, AppendFile
  PROVE  Counts' /\ Stores'
<1> USE DEF TypeInv, IInv
<1>1. PICK n \in 1 .. MaxFile, answered \in BOOLEAN :
        /\ fileLen' = n
        /\ required' = (needsSig /\ answered)
        /\ faulted' = (faulted \/ ~answered)
        /\ size' = IF request = "install" /\ size = 0
                     THEN InstallSize(n, required') ELSE size
  BY DEF AppendFile
<1>2. /\ pc = "idle" /\ pc' = "read"
      /\ appends < MaxAppends /\ appends' = appends + 1
      /\ filePos' = 0 /\ sent' = 0
      /\ UNCHANGED <<request, written, loc, buffer, error, needsSig, flash, blob, base>>
  BY DEF AppendFile
<1>3. appends' \in 0 .. MaxAppends /\ appends' # 0 /\ appends' - 1 = appends
  BY <1>2, Sizes DEF Counts
<1>4. size' < Word
  <2>1. n < Word /\ n \in Nat /\ Word \in Nat \ {0}
    BY Room, Sizes
  <2>2. (n - Marker) % Word < Word
    <3>1. n - Marker \in Int
      BY <2>1, Sizes
    <3>2. \A a \in Int, p \in Nat \ {0} : a % p < p
      BY SMT
    <3> QED
      BY <2>1, <3>1, <3>2
  <2> QED
    BY <1>1, <2>1, <2>2 DEF InstallSize, Counts
<1>5. Open' => Open
  BY <1>1, <1>2 DEF Open, Phases
<1>6. PlaceAfter(appends) \in Nat /\ written <= PlaceAfter(appends) /\ base <= PlaceAfter(appends)
  BY <1>2, PlacesAfter DEF Counts
<1>7. Counts'
  BY <1>1, <1>2, <1>3, <1>4, <1>5, <1>6, Sizes DEF Counts
<1>8. required' \in BOOLEAN /\ faulted' \in BOOLEAN
  BY <1>1
<1>9. Stores'
  BY <1>2, <1>8 DEF Stores
<1> QED
  BY <1>7, <1>9

LEMMA ReadChunkTypes ==
  ASSUME TypeInv, ReadChunk
  PROVE  Counts' /\ Stores'
<1> USE DEF TypeInv, IInv
<1> DEFINE n == Least(PageSize, fileLen - filePos)
           pageSize == IF sent + n > size THEN size - sent ELSE n
<1>1. /\ pc = "read" /\ appends # 0
      /\ UNCHANGED <<request, size, written, loc, buffer, needsSig, flash, fileLen,
                     required, appends>>
  BY DEF ReadChunk, Counts
<1>2. n \in Nat /\ n <= fileLen - filePos /\ n <= PageSize
  BY Sizes DEF Least, Numbers
<1>3. Stores'
  BY <1>1 DEF ReadChunk, Stores, LeaveLoop
<1>4. /\ base <= PlaceAfter(appends - 1) /\ written <= PlaceAfter(appends - 1) + filePos
      /\ PlaceAfter(appends - 1) \in Nat /\ PlaceAfter(appends) \in Nat
      /\ PlaceAfter(appends) = PlaceAfter(appends - 1) + MaxFile
      /\ PlaceAfter(appends) <= MaxPlace
      /\ PlaceAfter(appends - 1) + filePos <= PlaceAfter(appends)
  BY <1>1, InThisFile DEF Counts
<1>5. Open' <=> Open
  BY <1>1 DEF Open
<1>6. CASE LeaveLoop
  <2>1. /\ pc' \in {"idle", "sign"} /\ UNCHANGED <<filePos, sent, blob>>
        /\ base' = base + IF request = "install" THEN Least(size, fileLen) ELSE fileLen
    BY <1>6 DEF LeaveLoop
  <2>2. base' <= PlaceAfter(appends) /\ written <= PlaceAfter(appends)
    BY <1>4, <2>1, Sizes DEF Counts, Numbers, Least
  <2>3. Counts'
    BY <1>1, <1>5, <2>1, <2>2 DEF Counts
  <2> QED
    BY <1>3, <2>3
<1>7. CASE /\ n > 0 /\ sent < size
           /\ filePos' = filePos + n
           /\ sent' = sent + pageSize
           /\ \/ UNCHANGED <<pc, blob>>
              \/ /\ blob' = [from |-> base + filePos, len |-> pageSize, done |-> 0]
                 /\ pc' = "copy"
           /\ UNCHANGED base
  <2>1. /\ pageSize \in Nat /\ pageSize <= n
        /\ filePos' = filePos + n /\ sent' = sent + pageSize /\ base' = base
    BY <1>2, <1>7 DEF Numbers
  <2>2. CASE UNCHANGED <<pc, blob>>
    <3> HIDE DEF n, pageSize
    <3>1. sent' <= filePos' /\ written <= PlaceAfter(appends - 1) + filePos'
      BY <1>2, <1>4, <2>1 DEF Counts, Numbers
    <3> QED
      BY <1>1, <1>3, <1>5, <2>1, <2>2, <3>1 DEF Counts
  <2>3. CASE /\ blob' = [from |-> base + filePos, len |-> pageSize, done |-> 0]
             /\ pc' = "copy"
    <3> HIDE DEF n, pageSize
    <3>1. blob'.from = base + filePos /\ blob'.len = pageSize /\ blob'.done = 0
      BY <2>3
    <3>2. /\ sent' <= filePos' /\ pageSize <= PageSize
          /\ written + (pageSize - 0) <= PlaceAfter(appends - 1) + filePos'
          /\ base + filePos + pageSize <= base + filePos'
          /\ base + filePos <= MaxPlace
      BY <1>2, <1>4, <2>1, Sizes, Room DEF Counts, Numbers
    <3> QED
      BY <1>1, <1>3, <1>5, <2>1, <2>3, <3>1, <3>2 DEF Counts
  <2> QED
    BY <1>7, <2>2, <2>3
<1> QED
  BY <1>6, <1>7 DEF ReadChunk

LEMMA CopyPageTypes ==
  ASSUME TypeInv, CopyPage, written < size, blob.done < blob.len
  PROVE  Counts' /\ Stores'
<1> USE DEF TypeInv, IInv
<1> DEFINE o == written % PageSize
           n == Least(blob.len - blob.done, PageSize - o)
<1>1. /\ pc = "copy" /\ pc' = "copy" /\ appends # 0
      /\ buffer' = [i \in 0 .. PageSize - 1 |->
                      IF i \in o .. o + n - 1
                        THEN blob.from + blob.done + (i - o) ELSE buffer[i]]
      /\ written' = written + n
      /\ blob' = [blob EXCEPT !.done = @ + n]
      /\ IF PageDue(written')
           THEN /\ SendPage(buffer', PageBytes(written'))
                /\ loc' = loc + PageBytes(written')
           ELSE UNCHANGED <<loc, flash, error, faulted>>
      /\ UNCHANGED <<request, size, needsSig, fileLen, filePos, sent, required, base, appends>>
  BY DEF CopyPage, PageOffset, NextLoc, Counts
<1>2. o \in 0 .. PageSize - 1 /\ PageSize \in Nat /\ PageSize > 1
  BY Remainder, Sizes DEF Numbers
<1>3. n \in Nat \ {0} /\ o + n <= PageSize /\ n <= blob.len - blob.done
  <2> HIDE DEF o
  <2> QED
    BY <1>2 DEF Least, Numbers
<1>4. (written + n) % PageSize = IF o + n = PageSize THEN 0 ELSE o + n
  <2> HIDE DEF n
  <2>1. written \in Nat /\ n \in Nat
    BY <1>3 DEF Numbers
  <2> QED
    BY <1>2, <1>3, <2>1, InPage
<1>5. o = written - loc /\ loc <= written
  BY DEF Counts, Open
<1> HIDE DEF o, n
<1>6. PageBytes(written') = o + n
  BY <1>1, <1>2, <1>3, <1>4 DEF PageBytes
<1>7. /\ blob'.from = blob.from /\ blob'.len = blob.len
      /\ blob'.done = blob.done + n
  BY <1>1 DEF Numbers
<1>8. loc' = IF PageDue(written') THEN written' ELSE loc
  <2>1. o \in Nat /\ n \in Nat /\ loc \in Nat /\ written \in Nat
    BY <1>2, <1>3 DEF Numbers
  <2>2. loc + (o + n) = written + n
    BY <1>5, <2>1
  <2> QED
    BY <1>1, <1>6, <2>2, Zenon
<1>9. loc' <= written' /\ (Open' => written' % PageSize = written' - loc')
  <2>1. written' \in Nat /\ written' = written + n /\ loc \in Nat /\ written \in Nat
    BY <1>1, <1>3 DEF Numbers
  <2>2. CASE PageDue(written')
    <3>1. \A k \in Nat : k - k = 0 /\ k <= k
      BY SMT
    <3>2. Open' => written' % PageSize = 0
      <4>1. Open' => written' # size
        BY <1>1, <2>1 DEF Open, Numbers
      <4> QED
        BY <2>2, <4>1 DEF PageDue
    <3> QED
      BY <1>8, <2>1, <2>2, <3>1, <3>2, Zenon
  <2>3. CASE ~PageDue(written')
    <3>1. written' % PageSize = o + n
      BY <1>1, <1>2, <1>3, <1>4, <2>3 DEF PageDue
    <3> QED
      BY <1>2, <1>3, <1>5, <1>8, <2>1, <2>3, <3>1
  <2> QED
    BY <2>2, <2>3
<1>10. Counts'
  <2>1. written' + (blob'.len - blob'.done) <= PlaceAfter(appends - 1) + filePos
    <3>1. PlaceAfter(appends - 1) \in Nat
      BY <1>1, InThisFile
    <3> QED
      BY <1>1, <1>3, <1>7, <3>1 DEF Counts, Numbers
  <2> QED
    BY <1>1, <1>7, <1>9, <2>1 DEF Counts
<1>11. buffer' \in [0 .. PageSize - 1 -> Bytes \union {NoByte}]
  <2>1. blob.from + blob.len <= MaxPlace
    <3>1. /\ blob.from + blob.len <= base + filePos
          /\ base <= PlaceAfter(appends - 1)
          /\ blob.from \in Nat /\ blob.len \in Nat /\ base \in Nat /\ filePos \in Nat
      BY <1>1 DEF Counts, Numbers
    <3>2. /\ PlaceAfter(appends - 1) \in Nat /\ PlaceAfter(appends) \in Nat
          /\ PlaceAfter(appends - 1) + filePos <= PlaceAfter(appends)
          /\ PlaceAfter(appends) <= MaxPlace /\ MaxPlace \in Nat
      BY <1>1, InThisFile, Room
    <3> QED
      BY <3>1, <3>2
  <2>2. ASSUME NEW i \in o .. o + n - 1
        PROVE  blob.from + blob.done + (i - o) \in Bytes
    BY <1>2, <1>3, <2>1, Room DEF Bytes, Numbers
  <2> QED
    BY <1>1, <2>2 DEF Stores
<1>12. /\ flash' \in [Places -> Bytes \union {NoByte}]
       /\ error' \in BOOLEAN /\ faulted' \in BOOLEAN
  <2>1. CASE PageDue(written')
    <3>1. SendPage(buffer', o + n)
      BY <1>1, <1>6, <2>1
    <3>2. PICK stored \in BOOLEAN, ok \in BOOLEAN :
            /\ flash' = IF stored
                          THEN [x \in Places |-> IF x \in loc .. loc + (o + n) - 1
                                                   THEN buffer'[x - loc] ELSE flash[x]]
                          ELSE flash
            /\ error' = ~ok
            /\ faulted' = (faulted \/ (~error /\ ~ok))
      BY <3>1, Zenon DEF SendPage
    <3>3. ASSUME NEW x \in Places, x \in loc .. loc + (o + n) - 1
          PROVE  buffer'[x - loc] \in Bytes \union {NoByte}
      <4>1. x - loc \in 0 .. PageSize - 1
        BY <1>2, <1>3, <3>3 DEF Numbers
      <4> QED
        BY <1>11, <4>1
    <3>4. flash' \in [Places -> Bytes \union {NoByte}]
      BY <3>2, <3>3 DEF Stores
    <3> QED
      BY <3>2, <3>4
  <2>2. CASE ~PageDue(written')
    BY <1>1, <2>2 DEF Stores
  <2> QED
    BY <2>1, <2>2
<1> QED
  BY <1>1, <1>10, <1>11, <1>12 DEF Stores

LEMMA StepTypes == TypeInv /\ [Next]_vars => TypeInv'
<1> SUFFICES ASSUME TypeInv, [Next]_vars
             PROVE  Counts' /\ Stores'
  BY StepKeeps DEF TypeInv
<1>1. CASE ConstructCreate \/ ConstructInstall
  BY <1>1, ConstructTypes
<1>2. CASE AppendFile
  BY <1>2, AppendFileTypes
<1>3. CASE ReadChunk
  BY <1>3, ReadChunkTypes
<1>4. CASE CopyPage /\ written < size /\ blob.done < blob.len
  BY <1>4, CopyPageTypes
<1>5. CASE CopyPage /\ ~(written < size /\ blob.done < blob.len)
  <2>1. /\ pc = "copy" /\ pc' = "read"
        /\ UNCHANGED <<request, size, written, loc, buffer, needsSig, flash, error, faulted,
                       fileLen, filePos, sent, blob, required, base, appends>>
    BY <1>5 DEF CopyPage
  <2>2. written <= PlaceAfter(appends - 1) + filePos
    <3>1. PlaceAfter(appends - 1) \in Nat
      BY <2>1, InThisFile DEF TypeInv, Counts
    <3> QED
      BY <2>1, <3>1 DEF TypeInv, Counts, IInv, Numbers
  <2> QED
    BY <2>1, <2>2 DEF TypeInv, Counts, Stores, Open
<1>6. CASE Sign \/ ClearError \/ UNCHANGED vars
  <2>1. /\ UNCHANGED <<request, size, written, loc, buffer, needsSig, flash, fileLen, filePos,
                       sent, blob, required, base, appends>>
        /\ pc' = pc \/ (pc = "sign" /\ pc' = "idle")
    BY <1>6 DEF Sign, ClearError, vars
  <2>2. error' \in BOOLEAN /\ faulted' \in BOOLEAN
    BY <1>6 DEF Sign, ClearError, vars, TypeInv, Stores
  <2> QED
    BY <2>1, <2>2 DEF TypeInv, Counts, Stores, Open
<1> QED
  BY <1>1, <1>2, <1>3, <1>4, <1>5, <1>6 DEF Next

(* The file on the host leaves room for the signatures it can still get.    *)
FileInv ==
  /\ signs \in 0 .. MaxSigns /\ verdict \in {"none", "accepted", "rejected"}
  /\ Len(file) = 0 \/ Len(file) + (MaxSigns - signs) * Marker <= MaxFile

LEMMA RoomToSign ==
  \A k \in Nat : k * Marker \in Nat /\ (k + 1) * Marker = k * Marker + Marker
BY Sizes, SMT

LEMMA InitFile == SignedInit => FileInv
<1> SUFFICES ASSUME SignedInit
             PROVE  FileInv
  OBVIOUS
<1>1. file = <<>> /\ signs = 0 /\ verdict = "none"
  BY DEF SignedInit
<1> QED
  BY <1>1, FilesAssumption DEF FileInv

LEMMA StepFile ==
  ASSUME FileInv, SignInv, [SignedNext]_signedVars
  PROVE  FileInv'
<1>1. /\ IsFile(file) /\ Len(file) \in Nat /\ MaxSigns - signs \in Nat /\ MaxSigns \in Nat
      /\ (MaxSigns - signs) * Marker \in Nat /\ Marker \in Nat
  <2>1. MaxSigns - signs \in Nat
    BY FilesAssumption DEF FileInv
  <2> QED
    BY <2>1, RoomToSign, FileIs, FilesAssumption, Sizes DEF SignInv
<1>2. CASE Build
  <2>1. /\ file' \in Contents /\ UNCHANGED <<signs, verdict>>
        /\ Len(file') + MaxSigns * Marker <= MaxFile /\ Len(file') \in Nat
    BY <1>2, FilesAssumption DEF Build, Preparing
  <2>2. MaxSigns * Marker = (MaxSigns - signs) * Marker + signs * Marker /\ signs * Marker \in Nat
    <3>1. \A a \in Nat, b \in Nat : (a + b) * Marker = a * Marker + b * Marker
      BY <1>1, SMT
    <3>2. MaxSigns = (MaxSigns - signs) + signs /\ signs \in Nat
      BY <1>1 DEF FileInv
    <3> QED
      BY <1>1, <3>1, <3>2, RoomToSign
  <2> QED
    BY <1>1, <2>1, <2>2, Sizes DEF FileInv
<1>3. CASE SignFile
  <2>1. PICK key \in KeyPairs : file' = file \o MarkerOf(Signature(key, file))
    BY <1>3 DEF SignFile
  <2>2. Len(file') = Len(file) + Marker
    BY <1>1, <2>1, MarkerIs, Joined
  <2>3. signs < MaxSigns /\ signs' = signs + 1 /\ verdict' = verdict /\ file # <<>>
    BY <1>3 DEF SignFile, Preparing
  <2>6. Len(file) # 0
    <3>1. IsFile(<<>>) /\ Len(<<>>) = 0
      BY EmptySeq DEF IsFile
    <3> QED
      BY <1>1, <2>3, <3>1, SameFile
  <2>4. MaxSigns - signs' \in Nat /\ MaxSigns - signs = (MaxSigns - signs') + 1
        /\ signs' \in 0 .. MaxSigns
    BY <1>1, <2>3 DEF FileInv
  <2>5. (MaxSigns - signs) * Marker = (MaxSigns - signs') * Marker + Marker
        /\ (MaxSigns - signs') * Marker \in Nat
    BY <2>4, RoomToSign
  <2> QED
    BY <1>1, <2>2, <2>3, <2>4, <2>5, <2>6, Sizes DEF FileInv
<1>4. CASE ApplyAttributes
  <2>1. PICK h \in Headers :
          Len(h) <= Len(file) /\ file' = h \o SubSeq(file, Len(h) + 1, Len(file))
    BY <1>4 DEF ApplyAttributes
  <2>2. IsFile(h) /\ Len(h) \in Nat
    BY PlainFiles, FileIs
  <2>3. /\ Len(h) + 1 \in 1 .. Len(file) + 1 /\ Len(file) \in Len(h) + 1 - 1 .. Len(file)
        /\ Len(file) - (Len(h) + 1) + 1 = Len(file) - Len(h)
    BY <1>1, <2>1, <2>2
  <2>4. /\ IsFile(SubSeq(file, Len(h) + 1, Len(file)))
        /\ Len(SubSeq(file, Len(h) + 1, Len(file))) = Len(file) - Len(h)
    BY <1>1, <2>3, PartOfFile
  <2>5. Len(file') = Len(h) + (Len(file) - Len(h))
    BY <2>1, <2>2, <2>4, Joined
  <2>6. Len(file') = Len(file) /\ UNCHANGED <<signs, verdict>>
    BY <1>1, <1>4, <2>2, <2>5 DEF ApplyAttributes, Preparing
  <2> QED
    BY <2>6 DEF FileInv
<1>5. CASE CopyPart
  <2>1. PICK n \in 1 .. Len(file) - 1 : file' = SubSeq(file, 1, n)
    BY <1>5 DEF CopyPart
  <2>2. 1 \in 1 .. Len(file) + 1 /\ n \in 1 - 1 .. Len(file) /\ n - 1 + 1 = n /\ n <= Len(file)
    BY <1>1
  <2>3. Len(file') = n - 1 + 1
    BY <1>1, <2>1, <2>2, PartOfFile
  <2>4. Len(file') = n /\ UNCHANGED <<signs, verdict>>
    BY <1>5, <2>2, <2>3 DEF CopyPart, Preparing
  <2> QED
    BY <1>1, <2>2, <2>4, Sizes DEF FileInv
<1>6. CASE UNCHANGED <<file, signs>> /\ verdict' \in {verdict, "accepted", "rejected"}
  BY <1>6 DEF FileInv
<1> QED
  BY <1>2, <1>3, <1>4, <1>5, <1>6
     DEF SignedNext, signedVars, fileVars, Construct, SendFile, HandSignature

-----------------------------------------------------------------------------
(* With signed executables and without, as long as no transfer failed, the  *)
(* device stores the stream in order and without a gap (Appfs::append and   *)
(* append_view), for every size of pages, headers, markers and files.       *)
THEOREM InOrder == SignedSpec => []StreamInOrder
<1>1. SignedInit => IInv
  BY InitHolds DEF SignedInit
<1>2. IInv /\ [SignedNext]_signedVars => IInv'
  BY StepKeeps, SignedStep
<1>3. IInv => StreamInOrder
  BY DEF IInv
<1> QED
  BY <1>1, <1>2, <1>3, PTL DEF SignedSpec

(* No place of the flash is written twice, also after transfers that failed *)
(* (append_view moves on wherever the ioctl got to).                        *)
THEOREM WrittenOnce == SignedSpec => NeverRewritten
<1>1. SignedInit => IInv
  BY InitHolds DEF SignedInit
<1>2. IInv /\ [SignedNext]_signedVars => IInv'
  BY StepKeeps, SignedStep
<1>3. IInv /\ [SignedNext]_signedVars
        => [\A x \in Places : flash[x] # NoByte => flash'[x] = flash[x]]_vars
  BY StepStoresOnce, SignedStep
<1> QED
  BY <1>1, <1>2, <1>3, PTL DEF SignedSpec, NeverRewritten

(* A data file that got as many bytes as declared, and an executable without*)
(* its signature, have arrived completely and without an error once append  *)
(* is over, however files, chunks and pages cut across each other.          *)
THEOREM Arrives == SignedSpec => []DeclaredArrives
<1>1. SignedInit => ArriveInv
  BY InitArrives DEF SignedInit
<1>2. ArriveInv /\ [SignedNext]_signedVars => ArriveInv'
  BY StepArrives, SignedStep
<1>3. ArriveInv => DeclaredArrives
  BY ArrivesIfDeclared
<1> QED
  BY <1>1, <1>2, <1>3, PTL DEF SignedSpec

(* verify accepts a file for a key exactly if sign has left just that file  *)
(* behind with that key (Auth::sign, append, get_signature, verify), for    *)
(* every file, every marker and any number of signatures, headers and cuts. *)
THEOREM VerifiesWhatIsSigned == SignedSpec => []VerifiesIfSigned
<1> QED
  BY InitSigned, SignedKeeps, VerifiesHolds, PTL DEF SignedSpec

(* The device's verdict on an executable is verify's, whatever was signed   *)
(* how often and cut where (the end of Appfs::append and Auth::verify).     *)
THEOREM VerdictRight == SignedSpec => []DeviceAgrees
<1> QED
  BY InitHands, HandsKeep, PTL DEF SignedSpec

(* Every variable keeps its type: pages and chunks stay within their buffer,*)
(* the stream within its places, and a file within its size, whatever fails.*)
THEOREM TypesCorrect == SignedSpec => []SignedTypeOK
<1>1. SignedInit => TypeInv /\ SignInv /\ FileInv
  BY InitTypes, InitSigned, InitFile DEF SignedInit
<1>2. TypeInv /\ SignInv /\ FileInv /\ [SignedNext]_signedVars
        => TypeInv' /\ SignInv' /\ FileInv'
  BY StepTypes, SignedStep, SignedKeeps, StepFile
<1>3. TypeInv /\ SignInv /\ FileInv => SignedTypeOK
  <2>1. SignInv /\ FileInv => Len(file) <= MaxFile
    <3> SUFFICES ASSUME SignInv, FileInv
                 PROVE  Len(file) <= MaxFile
      OBVIOUS
    <3>1. MaxSigns - signs \in Nat /\ Len(file) \in Nat
      BY FilesAssumption, FileIs DEF SignInv, FileInv
    <3>2. (MaxSigns - signs) * Marker \in Nat
      BY <3>1, RoomToSign
    <3> QED
      BY <3>1, <3>2, Sizes DEF FileInv
  <2> QED
    BY <2>1, TypesHold DEF SignedTypeOK, FileInv
<1> QED
  BY <1>1, <1>2, <1>3, PTL DEF SignedSpec

=============================================================================
