---------------------------- MODULE SecureFile_proof ----------------------------
(***************************************************************************)
(* Proofs about SecureFile, for blocks and files of any size and any number *)
(* of calls: a secure file that was written completely gives back what it   *)
(* was made of, and what one that was not, or that is read with a wrong     *)
(* key, can give without an error.                                          *)
(***************************************************************************)
EXTENDS SecureFile, TLAPS

(* What is encrypted for a content.                                         *)
Padded(c) == [data |-> c.data, pad |-> c.pad + PaddingRequired(Length(c))]

(* Files hold contents, and each call pads the input at most once.          *)
Inputs ==
  /\ {input.data, asked.data, made.data} \subseteq 0 .. MaxSize
  /\ input.pad + padding <= calls * Block
  /\ pc # "pad" => padding = 0

(* Without an error the padding under way is that of the input as it was.   *)
Padding ==
  pc = "pad" =>
    /\ op = "create"
    /\ ~error => /\ input.data = asked.data
                 /\ input.pad + padding = Padded(asked).pad
                 /\ inputHash = asked /\ original = Length(asked)

Writing ==
  pc = "write" =>
    /\ op = "create"
    /\ ~error => /\ ~file.old /\ file.fields \in 0 .. 5 /\ made = asked
                 /\ input = Padded(asked)
                 /\ inputHash = asked /\ original = Length(asked)

(* Each field of a secure file, once it is there, is that of what the file  *)
(* was made of.  A hash that is missing is the hash of nothing.             *)
MadeRight ==
  IF file.old THEN file = OldFile(made.data) /\ made.pad = 0
  ELSE /\ file.fields = -1 => file = Absent
       /\ file.size = IF file.fields >= 2 THEN Length(made) ELSE 0
       /\ file.hash = IF file.fields >= 5 THEN made ELSE NoHash
       /\ file.fields = 6 => file.text = Padded(made) /\ file.under # NoKey

(* What create_plain_file has read of the file.                             *)
Reading ==
  pc = "decrypt" =>
    /\ op = "plain" /\ isNew = LooksNew /\ file # Absent
    /\ IF Misread THEN inputHash = NoHash ELSE inputHash = file.hash /\ original = file.size
    /\ ~Misread /\ file.fields = 6 =>
         key = IF opt.key # NoKey THEN opt.key ELSE file.stored

IInv == /\ TypeOK /\ Inputs /\ Padding /\ Writing /\ MadeRight /\ Reading
        /\ RoundTrip /\ NoWrongPlain

-----------------------------------------------------------------------------
(* Arithmetic.                                                              *)
LEMMA Bounds ==
  /\ Block \in Nat \ {0} /\ MaxSize \in Nat /\ MaxCalls \in Nat \ {0}
  /\ MaxCalls * Block \in Nat /\ Block <= MaxCalls * Block
<1>1. Block \in Nat \ {0} /\ MaxSize \in Nat /\ MaxCalls \in Nat \ {0}
  BY SecureAssumption
<1>2. PICK m \in Nat : MaxCalls = m + 1
  <2>1. MaxCalls - 1 \in Nat /\ MaxCalls = (MaxCalls - 1) + 1
    BY <1>1
  <2> QED
    BY <2>1
<1>3. MaxCalls * Block = m * Block + Block /\ m * Block \in Nat
  BY <1>1, <1>2, SMT
<1> QED
  BY <1>1, <1>3

LEMMA OneCallMore ==
  ASSUME NEW n \in Nat, n < MaxCalls
  PROVE  /\ n * Block \in Nat /\ (n + 1) * Block = n * Block + Block
         /\ (n + 1) * Block <= MaxCalls * Block
<1>1. Block \in Nat \ {0} /\ MaxCalls \in Nat
  BY Bounds
<1>2. PICK d \in Nat : MaxCalls = (n + 1) + d
  <2>1. MaxCalls - (n + 1) \in Nat /\ MaxCalls = (n + 1) + (MaxCalls - (n + 1))
    BY <1>1
  <2> QED
    BY <2>1
<1>3. MaxCalls * Block = (n + 1) * Block + d * Block /\ d * Block \in Nat
  BY <1>1, <1>2, SMT
<1>4. n * Block \in Nat /\ (n + 1) * Block = n * Block + Block
  BY <1>1, SMT
<1> QED
  BY <1>1, <1>3, <1>4

LEMMA Remainder ==
  ASSUME NEW n \in Nat
  PROVE  /\ n \div Block \in Nat /\ n % Block \in 0 .. Block - 1
         /\ n = Block * (n \div Block) + (n % Block)
BY Bounds, SMT

(* One equation at a time, without the remainder in it.                     *)
LEMMA NextMultiple ==
  ASSUME NEW d \in Nat, NEW x \in 0 .. Block - 1
  PROVE  /\ Block - x \in 1 .. Block
         /\ (Block * d + x) + (Block - x) = Block * (d + 1)
         /\ Block * (d + 1) \in Nat
<1>1. Block \in Nat \ {0}
  BY Bounds
<1>2. Block * d \in Nat /\ Block * (d + 1) = Block * d + Block
  BY <1>1, SMT
<1> QED
  BY <1>1, <1>2

LEMMA NoRemainder ==
  ASSUME NEW k \in Nat, NEW q \in Nat, NEW x \in 0 .. Block - 1,
         Block * k = Block * q + x
  PROVE  x = 0
<1>1. Block \in Nat \ {0} /\ Block * k \in Nat /\ Block * q \in Nat
  BY Bounds, SMT
<1>2. CASE k = q
  BY <1>1, <1>2
<1>3. CASE k > q
  <2>1. PICK d \in Nat : k = q + 1 + d
    <3>1. k - q - 1 \in Nat /\ k = q + 1 + (k - q - 1)
      BY <1>3
    <3> QED
      BY <3>1
  <2>2. Block * k = Block * q + Block + Block * d /\ Block * d \in Nat
    BY <1>1, <2>1, SMT
  <2> QED
    BY <1>1, <2>2
<1>4. CASE k < q
  <2>1. PICK d \in Nat : q = k + 1 + d
    <3>1. q - k - 1 \in Nat /\ q = k + 1 + (q - k - 1)
      BY <1>4
    <3> QED
      BY <3>1
  <2>2. Block * q = Block * k + Block + Block * d /\ Block * d \in Nat
    BY <1>1, <2>1, SMT
  <2> QED
    BY <1>1, <2>2
<1> QED
  BY <1>2, <1>3, <1>4

LEMMA PaddingFits ==
  ASSUME NEW n \in Nat
  PROVE  PaddingRequired(n) \in 1 .. Block
<1>1. n % Block \in 0 .. Block - 1
  BY Remainder
<1>2. \A x \in 0 .. Block - 1 : Block - x \in 1 .. Block
  BY Bounds
<1> QED
  BY <1>1, <1>2, Zenon DEF PaddingRequired

(* What is encrypted is whole blocks.                                       *)
LEMMA PaddingFills ==
  ASSUME NEW n \in Nat
  PROVE  (n + PaddingRequired(n)) % Block = 0
<1>1. PICK d \in Nat, x \in 0 .. Block - 1 : x = n % Block /\ n = Block * d + x
  BY Remainder, Zenon
<1>2. n + PaddingRequired(n) = (Block * d + x) + (Block - x)
  BY <1>1, Zenon DEF PaddingRequired
<1> DEFINE m == n + PaddingRequired(n)
<1>3. m = Block * (d + 1) /\ m \in Nat /\ d + 1 \in Nat
  BY <1>2, NextMultiple
<1> HIDE DEF m
<1>4. PICK q \in Nat, y \in 0 .. Block - 1 : y = m % Block /\ m = Block * q + y
  BY <1>3, Remainder, Zenon
<1>5. y = 0
  BY <1>3, <1>4, NoRemainder, Zenon
<1> QED
  BY <1>4, <1>5, Zenon DEF m

(* Contents.                                                                *)
LEMMA ContentType ==
  ASSUME NEW c \in Contents, c.data \in 0 .. MaxSize
  PROVE  /\ c = [data |-> c.data, pad |-> c.pad]
         /\ c.pad \in 0 .. MaxCalls * Block
         /\ Length(c) \in Nat /\ Length(c) = c.data + c.pad /\ Length(c) \in Sizes
         /\ c # NoHash /\ c # Garbage
BY Bounds DEF Contents, Garbage, NoHash, Length, Sizes

LEMMA NotAHash ==
  ASSUME NEW c \in Contents
  PROVE  c # NoHash
BY Bounds DEF Contents, Garbage, NoHash

LEMMA MakeContent ==
  ASSUME NEW d \in 0 .. MaxSize, NEW p \in 0 .. MaxCalls * Block
  PROVE  [data |-> d, pad |-> p] \in Contents
BY DEF Contents

(* Cutting makes contents of contents, and undoes the padding.              *)
LEMMA CutType ==
  ASSUME NEW c \in Contents, NEW n \in Sizes
  PROVE  Cut(c, n) \in Contents
<1>1. Garbage \in Contents
  BY DEF Contents
<1>2. Empty \in Contents
  BY Bounds DEF Contents, Empty
<1>3. ASSUME n # 0, c # Garbage, ~(n > Length(c))
      PROVE  Cut(c, n) \in Contents
  <2>1. c \in [data : 0 .. MaxSize, pad : 0 .. MaxCalls * Block]
    BY <1>3 DEF Contents
  <2>2. c.data \in 0 .. MaxSize /\ c.pad \in 0 .. MaxCalls * Block /\ n \in Nat
    BY <2>1, Bounds DEF Sizes
  <2>3. CASE n <= c.data
    <3>1. Cut(c, n) = [data |-> n, pad |-> 0]
      BY <1>3, <2>3 DEF Cut
    <3> QED
      BY <2>2, <2>3, <3>1, Bounds DEF Contents
  <2>4. CASE ~(n <= c.data)
    <3>1. Cut(c, n) = [data |-> c.data, pad |-> n - c.data]
      BY <1>3, <2>1, <2>4 DEF Cut
    <3>2. n - c.data \in 0 .. MaxCalls * Block
      BY <1>3, <2>2, <2>4, Bounds DEF Length
    <3> QED
      BY <2>2, <3>1, <3>2 DEF Contents
  <2> QED
    BY <2>3, <2>4
<1> QED
  BY <1>1, <1>2, <1>3 DEF Cut

LEMMA CutPadded ==
  ASSUME NEW c \in Contents, c.data \in 0 .. MaxSize
  PROVE  Cut(Padded(c), Length(c)) = c
<1> DEFINE p == Padded(c)
           n == Length(c)
<1>1. /\ c = [data |-> c.data, pad |-> c.pad] /\ c.pad \in Nat /\ c.data \in Nat
      /\ n = c.data + c.pad
  BY ContentType, Bounds
<1>2. /\ p.data = c.data /\ p.pad = c.pad + PaddingRequired(n)
      /\ p = [data |-> c.data, pad |-> c.pad + PaddingRequired(n)]
  BY DEF Padded
<1>3. PaddingRequired(n) \in Nat
  BY <1>1, PaddingFits, Bounds
<1>4. p # Garbage /\ ~(n > Length(p))
  BY <1>1, <1>2, <1>3 DEF Garbage, Length
<1>5. CASE n = 0
  BY <1>1, <1>5 DEF Cut, Empty
<1>6. CASE n # 0 /\ n <= p.data
  <2>1. c.pad = 0 /\ n = c.data
    BY <1>1, <1>2, <1>6
  <2> QED
    BY <1>1, <1>4, <1>6, <2>1 DEF Cut
<1>7. CASE n # 0 /\ ~(n <= p.data)
  <2>1. Cut(p, n) = [p EXCEPT !.pad = n - p.data]
    BY <1>4, <1>7 DEF Cut
  <2>2. n - p.data = c.pad
    BY <1>1, <1>2
  <2> QED
    BY <1>1, <1>2, <2>1, <2>2
<1> QED
  BY <1>5, <1>6, <1>7

-----------------------------------------------------------------------------
LEMMA OldFileType ==
  ASSUME NEW n \in 0 .. MaxSize
  PROVE  OldFile(n) \in SecureFiles
<1>1. n \in Nat /\ n \in Sizes
  BY Bounds DEF Sizes
<1>2. Block - (n % Block) \in 0 .. MaxCalls * Block
  BY <1>1, PaddingFits, Bounds DEF PaddingRequired
<1>3. [data |-> n, pad |-> Block - (n % Block)] \in Contents
  BY <1>2, MakeContent
<1>4. NoHash \in Hashes /\ "random" \in Keys
  BY DEF Hashes, Keys
<1> QED
  BY <1>1, <1>3, <1>4 DEF OldFile, SecureFiles

LEMMA AbsentType == Absent \in SecureFiles
<1>1. Garbage \in Contents /\ NoHash \in Hashes /\ NoKey \in Keys /\ 0 \in Sizes
  BY Bounds DEF Contents, Hashes, Keys, Sizes
<1> QED
  BY <1>1 DEF Absent, SecureFiles

LEMMA InitHolds == Init => IInv
<1> SUFFICES ASSUME Init
             PROVE  IInv
  OBVIOUS
<1>1. PICK n \in 0 .. MaxSize : /\ input = [data |-> n, pad |-> 0]
                                /\ file \in {Absent, OldFile(n)}
  BY DEF Init
<1>2. input \in Contents /\ Garbage \in Contents /\ NoHash \in Hashes
  BY <1>1, Bounds DEF Contents, Hashes
<1>3. file \in SecureFiles
  BY <1>1, OldFileType, AbsentType
<1>4. TypeOK
  <2>1. /\ 0 \in 0 .. MaxCalls /\ 0 \in Sizes /\ 0 \in 0 .. Block /\ NoKey \in Keys
        /\ [key |-> NoKey, remove |-> TRUE] \in [key : Given \union {NoKey}, remove : BOOLEAN]
    BY Bounds DEF Sizes, Keys
  <2> QED
    BY <1>2, <1>3, <2>1 DEF Init, TypeOK
<1>5. Inputs
  BY <1>1, Bounds DEF Init, Inputs
<1>6. MadeRight
  <2>1. CASE file = Absent
    BY <2>1 DEF Absent, MadeRight
  <2>2. CASE file = OldFile(n)
    BY <1>1, <2>2 DEF Init, OldFile, MadeRight
  <2> QED
    BY <1>1, <2>1, <2>2
<1> QED
  BY <1>4, <1>5, <1>6
  DEF Init, IInv, Padding, Writing, Reading, RoundTrip, NoWrongPlain

-----------------------------------------------------------------------------
(* create_secure_file.                                                      *)
LEMMA CreateKeeps ==
  ASSUME IInv, Create
  PROVE  IInv'
<1> USE DEF IInv
<1>1. /\ pc' = "pad" /\ op' = "create" /\ calls' = calls + 1 /\ calls < MaxCalls /\ pc = "idle"
      /\ asked' = input /\ original' = Length(input)
      /\ padding' = PaddingRequired(Length(input))
      /\ UNCHANGED <<input, file, output, key, isNew, made, faulty>>
  BY DEF Create
<1>2. /\ error' \in BOOLEAN /\ inputHash' \in {input, NoHash}
      /\ ~error' => inputHash' = input
      /\ opt' \in [key : Given \union {NoKey}, remove : BOOLEAN]
  BY DEF Create, HashOf, Given
<1>3. /\ input \in Contents /\ input.data \in 0 .. MaxSize /\ calls \in Nat
      /\ input.pad <= calls * Block
  BY <1>1, ContentType, Bounds DEF TypeOK, Inputs
<1>4. /\ Length(input) \in Nat /\ Length(input) \in Sizes /\ input.pad \in Nat
      /\ padding' \in 1 .. Block
  BY <1>1, <1>3, ContentType, PaddingFits, Bounds
<1>5. TypeOK'
  <2>1. inputHash' \in Hashes /\ calls' \in 0 .. MaxCalls /\ padding' \in 0 .. Block
    BY <1>1, <1>2, <1>3, <1>4, Bounds DEF Hashes
  <2> QED
    BY <1>1, <1>2, <1>4, <2>1 DEF TypeOK
<1>6. Inputs'
  BY <1>1, <1>3, <1>4, OneCallMore, Bounds DEF Inputs
<1>7. Padding' /\ Writing' /\ Reading' /\ RoundTrip' /\ NoWrongPlain'
  BY <1>1, <1>2 DEF Padding, Padded, Writing, Reading, RoundTrip, NoWrongPlain
<1>8. MadeRight'
  BY <1>1 DEF MadeRight
<1> QED
  BY <1>5, <1>6, <1>7, <1>8

LEMMA PadKeeps ==
  ASSUME IInv, Pad
  PROVE  IInv'
<1> USE DEF IInv
<1>1. /\ pc = "pad" /\ padding > 0 /\ padding' = padding - 1
      /\ UNCHANGED <<file, output, pc, op, calls, opt, inputHash, original, key, isNew,
                     asked, made, faulty>>
  BY DEF Pad
<1>2. PICK ok \in BOOLEAN :
        /\ ok => ~error
        /\ error' = ~ok
        /\ input' = IF ok THEN [input EXCEPT !.pad = @ + 1] ELSE input
  BY DEF Pad
<1>3. /\ input \in Contents /\ input.data \in 0 .. MaxSize /\ calls \in 0 .. MaxCalls
      /\ input = [data |-> input.data, pad |-> input.pad]
      /\ input.pad \in Nat /\ padding \in 0 .. Block /\ padding \in Nat
      /\ input.pad + padding <= calls * Block
  BY ContentType, Bounds DEF TypeOK, Inputs
<1>4. calls * Block <= MaxCalls * Block /\ calls * Block \in Nat
  <2>1. CASE calls = MaxCalls
    BY <2>1, Bounds
  <2>2. CASE calls < MaxCalls
    BY <1>3, <2>2, OneCallMore, Bounds
  <2> QED
    BY <1>3, <2>1, <2>2, Bounds
<1>5. /\ input'.data = input.data /\ input'.pad = IF ok THEN input.pad + 1 ELSE input.pad
      /\ input' = [data |-> input'.data, pad |-> input'.pad]
  BY <1>2, <1>3
<1>6. input' \in Contents
  <2>1. input'.pad \in 0 .. MaxCalls * Block
    BY <1>1, <1>3, <1>4, <1>5, Bounds
  <2> QED
    BY <1>3, <1>5, <2>1, MakeContent
<1>7. TypeOK'
  <2>1. padding' \in 0 .. Block /\ error' \in BOOLEAN
    BY <1>1, <1>2, <1>3, Bounds
  <2> QED
    BY <1>1, <1>6, <2>1 DEF TypeOK
<1>8. Inputs'
  BY <1>1, <1>3, <1>4, <1>5 DEF Inputs
<1>9. Padding'
  <2>1. ~error' => ok /\ ~error
    BY <1>2
  <2>2. ok => input'.pad + padding' = input.pad + padding
    BY <1>1, <1>3, <1>5
  <2> QED
    BY <1>1, <1>5, <2>1, <2>2 DEF Padding, Padded
<1>10. Writing' /\ Reading' /\ RoundTrip' /\ NoWrongPlain' /\ MadeRight'
  BY <1>1 DEF Writing, Reading, RoundTrip, NoWrongPlain, MadeRight
<1> QED
  BY <1>7, <1>8, <1>9, <1>10

LEMMA OpenSecureKeeps ==
  ASSUME IInv, OpenSecure
  PROVE  IInv'
<1> USE DEF IInv
<1>1. /\ pc = "pad" /\ padding = 0 /\ pc' \in {"idle", "write"} /\ error' \in BOOLEAN
      /\ UNCHANGED <<input, output, op, calls, opt, inputHash, original, padding, key,
                     isNew, asked>>
  BY DEF OpenSecure
<1>2. \/ error' = TRUE /\ UNCHANGED <<file, made, faulty>>
      \/ /\ ~error /\ error' = FALSE /\ pc' = "write"
         /\ file' = [Absent EXCEPT !.fields = 0]
         /\ made' = asked /\ faulty' = FALSE
  BY DEF OpenSecure
<1>3. op' = "create" /\ op = "create"
  BY <1>1 DEF Padding
<1>4. CASE error' = TRUE /\ UNCHANGED <<file, made, faulty>>
  <2>1. TypeOK' /\ Inputs'
    BY <1>1, <1>4 DEF TypeOK, Inputs
  <2> QED
    BY <1>1, <1>3, <1>4, <2>1
    DEF Padding, Writing, Reading, RoundTrip, NoWrongPlain, MadeRight
<1>5. CASE /\ ~error /\ error' = FALSE /\ pc' = "write"
           /\ file' = [Absent EXCEPT !.fields = 0]
           /\ made' = asked /\ faulty' = FALSE
  <2>1. /\ file' \in SecureFiles
        /\ file'.fields = 0 /\ file'.size = 0 /\ ~file'.old /\ file'.hash = NoHash
    <3>1. file' = [fields |-> 0, old |-> FALSE, size |-> 0, stored |-> NoKey,
                   under |-> NoKey, hash |-> NoHash, text |-> Garbage]
      BY <1>5 DEF Absent
    <3>2. Garbage \in Contents /\ NoHash \in Hashes /\ NoKey \in Keys /\ 0 \in Sizes
      BY Bounds DEF Contents, Hashes, Keys, Sizes
    <3> QED
      BY <3>1, <3>2 DEF SecureFiles
  <2>2. TypeOK' /\ Inputs'
    BY <1>1, <1>5, <2>1 DEF TypeOK, Inputs
  <2>3. input = Padded(asked)
    <3>1. input.data = asked.data /\ input.pad = Padded(asked).pad
      BY <1>1, <1>5, ContentType, Bounds DEF Padding, TypeOK, Inputs
    <3>2. input = [data |-> input.data, pad |-> input.pad]
      BY ContentType DEF TypeOK, Inputs
    <3> QED
      BY <3>1, <3>2 DEF Padded
  <2>4. Writing'
    BY <1>1, <1>3, <1>5, <2>1, <2>3 DEF Writing, Padding, Padded, PaddingRequired, Length
  <2> QED
    BY <1>1, <1>3, <1>5, <2>1, <2>2, <2>4
    DEF Padding, Reading, RoundTrip, NoWrongPlain, MadeRight
<1> QED
  BY <1>2, <1>4, <1>5

(* A field set in a secure file leaves the others.                          *)
LEMMA SetSize ==
  ASSUME NEW f \in SecureFiles, NEW x \in Sizes, NEW g, g = [f EXCEPT !.size = x]
  PROVE  /\ g \in SecureFiles /\ g.fields = f.fields /\ g.old = f.old
         /\ g.size = x /\ g.hash = f.hash
BY DEF SecureFiles

LEMMA SetStored ==
  ASSUME NEW f \in SecureFiles, NEW x \in Keys, NEW g, g = [f EXCEPT !.stored = x]
  PROVE  /\ g \in SecureFiles /\ g.fields = f.fields /\ g.old = f.old
         /\ g.size = f.size /\ g.hash = f.hash
BY DEF SecureFiles

LEMMA SetHash ==
  ASSUME NEW f \in SecureFiles, NEW x \in Hashes, NEW g, g = [f EXCEPT !.hash = x]
  PROVE  /\ g \in SecureFiles /\ g.fields = f.fields /\ g.old = f.old
         /\ g.size = f.size /\ g.hash = x
BY DEF SecureFiles

LEMMA SetText ==
  ASSUME NEW f \in SecureFiles, NEW x \in Contents, NEW g, g = [f EXCEPT !.text = x]
  PROVE  /\ g \in SecureFiles /\ g.fields = f.fields /\ g.old = f.old
         /\ g.size = f.size /\ g.hash = f.hash /\ g.text = x
BY DEF SecureFiles

LEMMA SetUnder ==
  ASSUME NEW f \in SecureFiles, NEW k \in Keys, NEW g, g = [f EXCEPT !.under = k]
  PROVE  /\ g \in SecureFiles /\ g.fields = f.fields /\ g.old = f.old
         /\ g.size = f.size /\ g.hash = f.hash /\ g.text = f.text /\ g.under = k
BY DEF SecureFiles

(* One more field.                                                          *)
LEMMA WriteFieldKeeps ==
  ASSUME IInv, WriteField
  PROVE  IInv'
<1> USE DEF IInv
<1>1. /\ pc = "write" /\ op = "create"
      /\ UNCHANGED <<input, output, op, calls, opt, inputHash, original, padding, key,
                     isNew, asked, made>>
  BY DEF WriteField, Writing
<1>2. CASE /\ pc' = "idle" /\ error' = TRUE /\ file' = file
           /\ faulty' = (faulty \/ ~error)
  <2>1. TypeOK' /\ Inputs'
    BY <1>1, <1>2 DEF TypeOK, Inputs
  <2> QED
    BY <1>1, <1>2, <2>1
    DEF Padding, Writing, Reading, RoundTrip, NoWrongPlain, MadeRight
<1>3. CASE /\ ~error /\ file.fields < 6
           /\ file' = NextField
           /\ pc' = IF file'.fields = 6 THEN "idle" ELSE "write"
           /\ UNCHANGED <<error, faulty>>
  <2>1. /\ ~file.old /\ file.fields \in 0 .. 5 /\ made = asked
        /\ input = Padded(asked) /\ inputHash = asked /\ original = Length(asked)
        /\ file \in SecureFiles
    BY <1>1, <1>3 DEF Writing, TypeOK
  <2>2. /\ EncryptionKey \in Keys /\ EncryptionKey # NoKey
    BY DEF TypeOK, EncryptionKey, Keys, Given, NoKey
  <2> DEFINE f == [file EXCEPT !.fields = file.fields + 1]
  <2>3. /\ f \in SecureFiles /\ f.fields = file.fields + 1 /\ f.fields \in 1 .. 6
        /\ f.old = file.old /\ f.size = file.size /\ f.hash = file.hash
    BY <2>1 DEF SecureFiles
  <2>4. file' = CASE f.fields = 2 -> [f EXCEPT !.size = original]
                  [] f.fields = 3 -> [f EXCEPT !.stored = IF opt.remove THEN NoKey
                                                          ELSE EncryptionKey]
                  [] f.fields = 5 -> [f EXCEPT !.hash = inputHash]
                  [] f.fields = 6 -> [f EXCEPT !.text = input, !.under = EncryptionKey]
                  [] OTHER        -> f
    BY <1>3 DEF NextField
  <2> HIDE DEF f
  <2>5. /\ file' \in SecureFiles
        /\ file'.fields = f.fields /\ ~file'.old
        /\ file'.size = IF f.fields = 2 THEN original ELSE file.size
        /\ file'.hash = IF f.fields = 5 THEN inputHash ELSE file.hash
        /\ f.fields = 6 => file'.text = input /\ file'.under = EncryptionKey
    <3>1. CASE f.fields = 2
      <4>1. file' = [f EXCEPT !.size = original] /\ original \in Sizes
        BY <2>4, <3>1 DEF TypeOK
      <4> QED
        BY <2>1, <2>3, <3>1, <4>1, SetSize
    <3>2. CASE f.fields = 3
      <4>1. PICK k \in Keys : file' = [f EXCEPT !.stored = k]
        <5>1. file' = [f EXCEPT !.stored = IF opt.remove THEN NoKey ELSE EncryptionKey]
          BY <2>4, <3>2
        <5> QED
          BY <2>2, <5>1 DEF Keys
      <4> QED
        BY <2>1, <2>3, <3>2, <4>1, SetStored
    <3>3. CASE f.fields = 5
      <4>1. file' = [f EXCEPT !.hash = inputHash] /\ inputHash \in Hashes
        BY <2>4, <3>3 DEF TypeOK
      <4> QED
        BY <2>1, <2>3, <3>3, <4>1, SetHash
    <3>4. CASE f.fields = 6
      <4> DEFINE h == [f EXCEPT !.text = input]
      <4>1. file' = [h EXCEPT !.under = EncryptionKey] /\ input \in Contents
        BY <2>4, <3>4 DEF TypeOK
      <4>2. /\ h \in SecureFiles /\ h.fields = f.fields /\ h.old = f.old
            /\ h.size = f.size /\ h.hash = f.hash /\ h.text = input
        BY <2>3, <4>1, SetText
      <4> HIDE DEF h
      <4>3. /\ file' \in SecureFiles /\ file'.fields = f.fields /\ file'.old = f.old
            /\ file'.size = f.size /\ file'.hash = f.hash
            /\ file'.text = input /\ file'.under = EncryptionKey
        BY <2>2, <4>1, <4>2, SetUnder
      <4> QED
        BY <2>1, <2>3, <3>4, <4>3
    <3>5. CASE f.fields \in {1, 4}
      BY <2>1, <2>3, <2>4, <3>5
    <3> QED
      BY <2>3, <3>1, <3>2, <3>3, <3>4, <3>5
  <2>6. TypeOK' /\ Inputs'
    BY <1>1, <1>3, <2>5 DEF TypeOK, Inputs
  <2>7. MadeRight'
    BY <1>1, <2>1, <2>2, <2>3, <2>5 DEF MadeRight, Padded, PaddingRequired, Length
  <2>8. Writing'
    BY <1>1, <1>3, <2>1, <2>3, <2>5 DEF Writing, Padded, PaddingRequired, Length
  <2> QED
    BY <1>1, <1>3, <2>6, <2>7, <2>8 DEF Padding, Reading, RoundTrip, NoWrongPlain
<1> QED
  BY <1>2, <1>3 DEF WriteField

LEMMA CrashKeeps ==
  ASSUME IInv, Crash
  PROVE  IInv'
<1> USE DEF IInv
<1>1. /\ pc # "idle" /\ pc' = "idle" /\ error' = TRUE /\ padding' = 0
      /\ faulty' = (faulty \/ pc \in {"write", "decrypt"})
      /\ UNCHANGED <<input, file, output, op, calls, opt, inputHash, original, key,
                     isNew, asked, made>>
  BY DEF Crash
<1>2. TypeOK'
  BY <1>1, Bounds DEF TypeOK
<1>3. Inputs'
  BY <1>1, ContentType, Bounds DEF Inputs, TypeOK
<1>4. pc = "decrypt" \/ op = "create"
  <2>1. pc \in {"idle", "pad", "write", "decrypt"}
    BY DEF TypeOK
  <2>2. pc = "pad" => op = "create"
    BY DEF Padding
  <2>3. pc = "write" => op = "create"
    BY DEF Writing
  <2> QED
    BY <1>1, <2>1, <2>2, <2>3
<1> QED
  BY <1>1, <1>2, <1>3, <1>4
  DEF Padding, Writing, Reading, RoundTrip, NoWrongPlain, MadeRight

-----------------------------------------------------------------------------
(* create_plain_file up to the decryption.                                  *)
LEMMA PlainKeeps ==
  ASSUME IInv, Plain
  PROVE  IInv'
<1> USE DEF IInv
<1>1. /\ pc = "idle" /\ calls < MaxCalls /\ calls' = calls + 1 /\ op' = "plain"
      /\ file # Absent
      /\ opt' \in [key : Given \union {NoKey}, remove : {TRUE}]
      /\ isNew' = LooksNew
      /\ original' \in IF Misread THEN Sizes ELSE {file.size}
      /\ inputHash' = IF Misread THEN NoHash ELSE file.hash
      /\ key' = IF opt'.key # NoKey THEN opt'.key
                ELSE IF Misread \/ file.fields < 3 THEN "junk" ELSE file.stored
      /\ pc' = IF error' THEN "idle" ELSE "decrypt"
      /\ UNCHANGED <<input, file, output, padding, asked, made>>
  BY DEF Plain
<1>2. PICK ok \in BOOLEAN : /\ error' = (~ok \/ key' = NoKey)
                            /\ faulty' = (faulty \/ ~ok)
  BY DEF Plain
<1>3. file \in SecureFiles /\ file.size \in Sizes /\ file.hash \in Hashes
      /\ file.stored \in Keys /\ file.fields \in -1 .. 6 /\ file.old \in BOOLEAN
  BY DEF TypeOK, SecureFiles
<1>4. LooksNew \in BOOLEAN /\ Misread \in BOOLEAN
  BY DEF LooksNew, Misread
<1>5. TypeOK'
  <2>1. /\ calls' \in 0 .. MaxCalls
        /\ opt' \in [key : Given \union {NoKey}, remove : BOOLEAN]
    <3>1. calls' \in 0 .. MaxCalls
      BY <1>1, Bounds DEF TypeOK
    <3>2. [key : Given \union {NoKey}, remove : {TRUE}]
            \subseteq [key : Given \union {NoKey}, remove : BOOLEAN]
      OBVIOUS
    <3> QED
      BY <1>1, <3>1, <3>2
  <2>2. original' \in Sizes /\ inputHash' \in Hashes
    BY <1>1, <1>3, <1>4 DEF Hashes
  <2>3. key' \in Keys
    BY <1>1, <1>3 DEF Keys
  <2>4. {isNew', error', faulty'} \subseteq BOOLEAN
    BY <1>1, <1>2, <1>4 DEF TypeOK
  <2>5. pc' \in {"idle", "decrypt"}
    BY <1>1
  <2> QED
    BY <1>1, <2>1, <2>2, <2>3, <2>4, <2>5 DEF TypeOK
<1>6. Inputs'
  <2>1. calls \in Nat /\ calls' * Block >= calls * Block /\ calls * Block \in Nat
        /\ calls' * Block \in Nat
    BY <1>1, OneCallMore, Bounds DEF TypeOK
  <2>2. input.pad \in Nat /\ padding = 0
    BY <1>1, ContentType, Bounds DEF Inputs, TypeOK
  <2> QED
    BY <1>1, <2>1, <2>2 DEF Inputs
<1>7. Reading'
  <2>1. LooksNew' = LooksNew /\ Misread' = Misread
    BY <1>1 DEF LooksNew, Misread
  <2> QED
    BY <1>1, <1>3, <2>1 DEF Reading
<1>8. RoundTrip'
  <2> SUFFICES ASSUME ~faulty', Whole, file.old => file.size # Version,
                      \/ opt'.key = file.under
                      \/ opt'.key = NoKey /\ file.stored = file.under
               PROVE  pc' # "idle"
    BY <1>1 DEF RoundTrip, Whole
  <2>1. file.under # NoKey
    <3>1. CASE file.old
      BY <3>1 DEF MadeRight, OldFile, NoKey
    <3>2. CASE ~file.old
      BY <3>2 DEF MadeRight, Whole
    <3> QED
      BY <3>1, <3>2
  <2>2. ~Misread /\ file.fields = 6
    BY DEF Misread, LooksNew, Whole
  <2>3. key' # NoKey
    BY <1>1, <2>1, <2>2
  <2> QED
    BY <1>1, <1>2, <2>3
<1>9. NoWrongPlain'
  BY <1>1 DEF NoWrongPlain
<1>10. Padding' /\ Writing' /\ MadeRight'
  BY <1>1 DEF Padding, Writing, MadeRight
<1> QED
  BY <1>5, <1>6, <1>7, <1>8, <1>9, <1>10

(* The whole file under its key gives what was encrypted.                   *)
LEMMA DecryptedRight ==
  ASSUME IInv, file.fields = 6, ~Misread, key = file.under
  PROVE  Decrypted = file.text /\ Cut(Decrypted, file.size) = made
<1> USE DEF IInv
<1>1. made \in Contents /\ made.data \in 0 .. MaxSize
  BY DEF TypeOK, Inputs
<1>2. Length(made) \in Nat /\ Length(made) = made.data + made.pad /\ made.pad \in Nat
      /\ made.data \in Nat
  BY <1>1, ContentType, Bounds
<1>3. file.text = Padded(made) /\ file.size = Length(made)
  <2>1. CASE file.old
    <3>1. made.pad = 0 /\ Length(made) = made.data /\ file = OldFile(made.data)
      BY <1>2, <2>1 DEF MadeRight
    <3>2. /\ file.size = made.data
          /\ file.text = [data |-> made.data, pad |-> PaddingRequired(made.data)]
      BY <3>1 DEF OldFile, PaddingRequired
    <3>3. made.pad + PaddingRequired(made.data) = PaddingRequired(made.data)
      BY <1>2, <3>1, PaddingFits, Bounds
    <3> QED
      BY <3>1, <3>2, <3>3 DEF Padded
  <2>2. CASE ~file.old
    BY <2>2 DEF MadeRight
  <2> QED
    BY <2>1, <2>2
<1>4. Length(Padded(made)) = Length(made) + PaddingRequired(Length(made))
  BY <1>2, PaddingFits, Bounds DEF Padded, Length
<1>5. Length(file.text) % Block = 0
  BY <1>2, <1>3, <1>4, PaddingFills
<1> QED
  BY <1>1, <1>3, <1>5, CutPadded DEF Decrypted

LEMMA DecryptKeeps ==
  ASSUME IInv, Decrypt
  PROVE  IInv'
<1> USE DEF IInv
<1>1. /\ pc = "decrypt" /\ pc' = "idle" /\ op = "plain"
      /\ isNew = LooksNew /\ (~Misread => inputHash = file.hash)
      /\ UNCHANGED <<input, file, op, calls, opt, inputHash, original, padding, key,
                     isNew, asked, made>>
  BY DEF Decrypt, Reading
<1>2. PICK written \in BOOLEAN, cut \in BOOLEAN, content \in {Decrypted, Garbage, output} :
        /\ written => content = Decrypted
        /\ output' = IF cut THEN Cut(content, original) ELSE content
        /\ error' = (~written \/ ~HashAgrees(output'))
        /\ faulty' = (faulty \/ ~written \/ ~cut)
  BY DEF Decrypt
<1>3. output' \in Contents
  <2>1. Decrypted \in Contents /\ Garbage \in Contents /\ original \in Sizes
    BY Bounds DEF Decrypted, TypeOK, SecureFiles, Contents, Empty
  <2> QED
    BY <1>2, <2>1, CutType DEF TypeOK
<1>4. TypeOK'
  <2>1. {error', faulty'} \subseteq BOOLEAN
    BY <1>2 DEF TypeOK, HashAgrees
  <2> QED
    BY <1>1, <1>3, <2>1 DEF TypeOK
<1>5. Inputs' /\ Padding' /\ Writing' /\ MadeRight' /\ Reading'
  BY <1>1 DEF Inputs, Padding, Writing, MadeRight, Reading
<1>6. NoWrongPlain'
  <2> SUFFICES ASSUME ~error'
               PROVE  \/ output' = made
                      \/ file.fields = 0 /\ output' = Empty
                      \/ file.old /\ ~isNew /\ (key = file.under => output' = file.text)
    BY <1>1 DEF NoWrongPlain
  <2>1. written /\ content = Decrypted /\ (isNew => output' = inputHash)
    BY <1>2 DEF HashAgrees
  <2>2. CASE isNew
    <3>1. ~Misread
      BY <1>1, <1>3, <2>1, <2>2, NotAHash DEF Reading
    <3>2. ~file.old /\ output' = file.hash
      BY <1>1, <2>1, <2>2, <3>1 DEF Misread
    <3>3. file.hash # NoHash
      BY <1>3, <3>2, NotAHash
    <3> QED
      BY <3>2, <3>3 DEF MadeRight
  <2>3. CASE ~isNew /\ ~file.old
    <3>1. file.fields \in {-1, 0}
      <4>1. file.fields \in -1 .. 6
        BY DEF TypeOK, SecureFiles
      <4>2. ~LooksNew
        BY <1>1, <2>3
      <4> QED
        BY <2>3, <4>1, <4>2 DEF LooksNew
    <3>2. file.fields = 0 /\ original = 0
      BY <1>1, <2>3, <3>1 DEF MadeRight, Misread, Reading
    <3>3. output' = Empty
      BY <1>2, <2>1, <3>2 DEF Decrypted, Cut
    <3> QED
      BY <3>2, <3>3
  <2>4. CASE ~isNew /\ file.old
    <3>1. ~Misread /\ file.fields = 6
      BY <1>1, <2>4 DEF Misread, MadeRight, OldFile
    <3>2. original = file.size
      BY <1>1, <3>1 DEF Reading
    <3>3. key = file.under => output' = file.text \/ output' = made
      BY <1>2, <2>1, <3>1, <3>2, DecryptedRight
    <3> QED
      BY <2>4, <3>3
  <2> QED
    BY <2>2, <2>3, <2>4
<1>7. RoundTrip'
  <2> SUFFICES ASSUME ~faulty', Whole, file.old => file.size # Version,
                      \/ opt.key = file.under
                      \/ opt.key = NoKey /\ file.stored = file.under
               PROVE  ~error' /\ output' = made
    BY <1>1 DEF RoundTrip, Whole
  <2>1. ~Misread /\ file.fields = 6 /\ written /\ cut /\ content = Decrypted
    BY <1>2 DEF Misread, LooksNew, Whole
  <2>2. file.under # NoKey
    <3>1. CASE file.old
      BY <3>1 DEF MadeRight, OldFile, NoKey
    <3>2. CASE ~file.old
      BY <2>1, <3>2 DEF MadeRight
    <3> QED
      BY <3>1, <3>2
  <2>3. key = file.under /\ original = file.size
    BY <1>1, <2>1, <2>2 DEF Reading
  <2>4. output' = made
    BY <1>2, <2>1, <2>3, DecryptedRight
  <2>5. isNew => made = inputHash
    <3> SUFFICES ASSUME isNew
                 PROVE  made = inputHash
      OBVIOUS
    <3>1. LooksNew /\ ~file.old /\ inputHash = file.hash
      BY <1>1, <2>1 DEF Misread
    <3> QED
      BY <2>1, <3>1 DEF MadeRight
  <2> QED
    BY <1>2, <2>1, <2>4, <2>5 DEF HashAgrees
<1> QED
  BY <1>4, <1>5, <1>6, <1>7

-----------------------------------------------------------------------------
LEMMA StepKeeps == IInv /\ [Next]_vars => IInv'
<1> SUFFICES ASSUME IInv, [Next]_vars
             PROVE  IInv'
  OBVIOUS
<1>1. CASE UNCHANGED vars
  <2> USE <1>1 DEF vars
  <2>1. TypeOK' /\ Inputs'
    BY DEF IInv, TypeOK, Inputs
  <2>2. Padding' /\ Writing' /\ MadeRight'
    BY DEF IInv, Padding, Writing, MadeRight
  <2>3. Reading' /\ RoundTrip' /\ NoWrongPlain'
    BY DEF IInv, Reading, LooksNew, Misread, RoundTrip, Whole, NoWrongPlain
  <2> QED
    BY <2>1, <2>2, <2>3 DEF IInv
<1> QED
  BY <1>1, CreateKeeps, PadKeeps, OpenSecureKeeps, WriteFieldKeeps, CrashKeeps,
     PlainKeeps, DecryptKeeps
  DEF Next

LEMMA Invariance == Spec => []IInv
  BY InitHolds, StepKeeps, PTL DEF Spec

(* The types: however often it is padded, a file stays within its bound.    *)
THEOREM TypeCorrect == Spec => []TypeOK
<1>1. IInv => TypeOK
  BY DEF IInv
<1> QED
  BY <1>1, Invariance, PTL

(* A whole secure file gives back the input it was made of.                 *)
THEOREM Recovered == Spec => []RoundTrip
<1>1. IInv => RoundTrip
  BY DEF IInv
<1> QED
  BY <1>1, Invariance, PTL

(* An incomplete secure file and a wrong key are found out, except that an  *)
(* emptied file gives an empty output, and that a file of an older release  *)
(* has no hash: a wrong key, or a cut that failed, goes unnoticed.          *)
THEOREM NothingElse == Spec => []NoWrongPlain
<1>1. IInv => NoWrongPlain
  BY DEF IInv
<1> QED
  BY <1>1, Invariance, PTL

=============================================================================
