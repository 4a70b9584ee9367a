------------------------------- MODULE SecureFile -------------------------------
(***************************************************************************)
(* Auth::create_secure_file and Auth::create_plain_file (Auth.cpp): a file  *)
(* is padded in place and encrypted into a secure file, field by field, and *)
(* a secure file is decrypted, cut to its original size and compared with   *)
(* the hash of the original.  Any read or write may fail and leaves an      *)
(* error that turns the later ones into no-ops; the program may die.        *)
(*                                                                         *)
(* A file's content is abstracted to how much of the original data it has   *)
(* and how many padding characters follow; a hash and an encryption are     *)
(* abstracted to what was hashed, or encrypted under which key.             *)
(***************************************************************************)
EXTENDS Integers

CONSTANTS
  Block,     (* the cipher's block, 16 in the code                          *)
  Version,   (* secure_file_version, the first word of a secure file        *)
  MaxSize,   (* bound: size of the original file                            *)
  MaxCalls   (* bound: calls                                                *)

ASSUME SecureAssumption ==
  /\ Block \in Nat \ {0} /\ MaxSize \in Nat /\ MaxCalls \in Nat \ {0}
  /\ Version \in 1 .. MaxSize

VARIABLES
  input,     (* content of the input file                                   *)
  file,      (* the secure file                                             *)
  output,    (* the plain file: a content, or Garbage                       *)
  pc, op, calls,
  opt,       (* options: the key given, is_remove_key                       *)
  inputHash, (* input_hash: what was hashed                                 *)
  original,  (* original_size                                               *)
  padding,   (* characters of padding still to be written                   *)
  key,       (* key to decrypt with                                         *)
  isNew,     (* the secure file is taken for one with a version             *)
  error,     (* the thread's error context holds an error                   *)
  asked,     (* history: the input when create_secure_file was called       *)
  made,      (* history: the input the secure file was made of              *)
  faulty     (* history: something failed since the secure file was begun   *)

vars == <<input, file, output, pc, op, calls, opt, inputHash, original, padding,
          key, isNew, error, asked, made, faulty>>

Empty   == [data |-> 0, pad |-> 0]
Garbage == [data |-> -1, pad |-> 0]
NoHash  == [data |-> -2, pad |-> 0]   (* not a hash of anything             *)
Sizes    == 0 .. MaxSize + MaxCalls * Block
Contents == [data : 0 .. MaxSize, pad : 0 .. MaxCalls * Block] \union {Garbage}
Hashes   == Contents \union {NoHash}

NoKey == "none"
Given == {"k1", "k2"}             (* keys a user may give                   *)
Keys  == Given \union {"random", "junk", NoKey}

(* fields: version, original size, key, initialization vector, hash, data,  *)
(* in this order; how many of them are in the file, -1 if there is none.    *)
(* A file of an older release has neither version nor hash.                 *)
Absent == [fields |-> -1, old |-> FALSE, size |-> 0, stored |-> NoKey,
           under |-> NoKey, hash |-> NoHash, text |-> Garbage]
SecureFiles == [fields : -1 .. 6, old : BOOLEAN, size : Sizes, stored : Keys,
                under : Keys, hash : Hashes, text : Contents]

Length(c) == c.data + c.pad

TypeOK ==
  /\ {input, output, asked, made} \subseteq Contents /\ inputHash \in Hashes
  /\ file \in SecureFiles
  /\ pc \in {"idle", "pad", "write", "decrypt"}
  /\ op \in {"none", "create", "plain"}
  /\ calls \in 0 .. MaxCalls
  /\ opt \in [key : Given \union {NoKey}, remove : BOOLEAN]
  /\ original \in Sizes /\ padding \in 0 .. Block
  /\ key \in Keys
  /\ {isNew, error, faulty} \subseteq BOOLEAN

OldFile(n) == [fields |-> 6, old |-> TRUE, size |-> n, stored |-> "random",
               under |-> "random", hash |-> NoHash,
               text |-> [data |-> n, pad |-> Block - (n % Block)]]

(* An input file, and no secure file or one of an older release.            *)
Init ==
  /\ \E n \in 0 .. MaxSize :
       /\ input = [data |-> n, pad |-> 0]
       /\ file \in {Absent, OldFile(n)}
  /\ output = Garbage
  /\ pc = "idle" /\ op = "none" /\ calls = 0
  /\ opt = [key |-> NoKey, remove |-> TRUE]
  /\ inputHash = NoHash /\ original = 0 /\ padding = 0
  /\ key = NoKey /\ isNew = FALSE
  /\ error = FALSE /\ faulty = FALSE
  /\ asked = input /\ made = input

-----------------------------------------------------------------------------
PaddingToFill(n) == n % Block
PaddingRequired(n) == Block - (n % Block)

HashOf(c) == c

(* create_secure_file up to its padding loop: the input is hashed as it is. *)
Create ==
  /\ pc = "idle" /\ calls < MaxCalls
  /\ calls' = calls + 1 /\ op' = "create" /\ pc' = "pad"
  /\ opt' \in [key : {NoKey, "k1"}, remove : BOOLEAN]
  /\ asked' = input
  /\ \E ok \in BOOLEAN : /\ error' = ~ok
                         /\ inputHash' = IF ok THEN HashOf(input) ELSE NoHash
  /\ original' = Length(input)
  /\ padding' = PaddingRequired(Length(input))
  /\ UNCHANGED <<input, file, output, key, isNew, made, faulty>>

(* One character of padding.                                                *)
Pad ==
  /\ pc = "pad" /\ padding > 0
  /\ padding' = padding - 1
  /\ \E ok \in BOOLEAN :
       /\ ok => ~error
       /\ error' = ~ok
       /\ input' = IF ok THEN [input EXCEPT !.pad = @ + 1] ELSE input
  /\ UNCHANGED <<file, output, pc, op, calls, opt, inputHash, original, key, isNew,
                 asked, made, faulty>>

(* A key that is given is not stored: with is_remove_key off it is refused, *)
(* by now on a padded input.  Otherwise the secure file is opened, which    *)
(* empties it.                                                              *)
OpenSecure ==
  /\ pc = "pad" /\ padding = 0
  /\ \/ /\ opt.key # NoKey /\ ~opt.remove
        /\ error' = TRUE /\ pc' = "idle"
        /\ UNCHANGED <<file, made, faulty>>
     \/ /\ opt.key = NoKey \/ opt.remove
        /\ pc' = "write"
        /\ \/ /\ ~error /\ error' = FALSE
              /\ file' = [Absent EXCEPT !.fields = 0]
              /\ made' = asked /\ faulty' = FALSE
           \/ error' = TRUE /\ UNCHANGED <<file, made, faulty>>
  /\ UNCHANGED <<input, output, op, calls, opt, inputHash, original, padding, key,
                 isNew, asked>>

EncryptionKey == IF opt.key = NoKey THEN "random" ELSE opt.key

(* What the secure file holds once the next field has been written.         *)
NextField ==
  LET f == [file EXCEPT !.fields = @ + 1] IN
  CASE f.fields = 2 -> [f EXCEPT !.size = original]
    [] f.fields = 3 -> [f EXCEPT !.stored = IF opt.remove THEN NoKey ELSE EncryptionKey]
    [] f.fields = 5 -> [f EXCEPT !.hash = inputHash]
    [] f.fields = 6 -> [f EXCEPT !.text = input, !.under = EncryptionKey]
    [] OTHER        -> f

WriteField ==
  /\ pc = "write"
  /\ \/ /\ ~error /\ file.fields < 6
        /\ file' = NextField
        /\ pc' = IF file'.fields = 6 THEN "idle" ELSE "write"
        /\ UNCHANGED <<error, faulty>>
     \/ /\ pc' = "idle" /\ error' = TRUE /\ file' = file
        /\ faulty' = (faulty \/ ~error)
  /\ UNCHANGED <<input, output, op, calls, opt, inputHash, original, padding, key,
                 isNew, asked, made>>

(* The program dies.                                                        *)
Crash ==
  /\ pc # "idle"
  /\ pc' = "idle" /\ error' = TRUE
  /\ faulty' = (faulty \/ pc \in {"write", "decrypt"})
  /\ padding' = 0
  /\ UNCHANGED <<input, file, output, op, calls, opt, inputHash, original, key, isNew,
                 asked, made>>

-----------------------------------------------------------------------------
(* An older file starts with its size, which may be that of the version.    *)
LooksNew == file.fields >= 1 /\ (file.old => file.size = Version)
Misread  == LooksNew /\ file.old

(* create_plain_file up to the decryption.  A file that ends early is read  *)
(* without an error: what is missing keeps its value, 0 or uninitialised.   *)
Plain ==
  /\ pc = "idle" /\ calls < MaxCalls /\ file # Absent
  /\ calls' = calls + 1 /\ op' = "plain"
  /\ opt' \in [key : Given \union {NoKey}, remove : {TRUE}]
  /\ isNew' = LooksNew
  /\ original' \in IF Misread THEN Sizes ELSE {file.size}
  /\ inputHash' = IF Misread THEN NoHash ELSE file.hash
  /\ key' = IF opt'.key # NoKey THEN opt'.key
            ELSE IF Misread \/ file.fields < 3 THEN "junk" ELSE file.stored
  /\ \E ok \in BOOLEAN :
       /\ error' = (~ok \/ key' = NoKey)
       /\ faulty' = (faulty \/ ~ok)
  /\ pc' = IF error' THEN "idle" ELSE "decrypt"
  /\ UNCHANGED <<input, file, output, padding, asked, made>>

Cut(c, n) ==
  IF n = 0 THEN Empty
  ELSE IF c = Garbage \/ n > Length(c) THEN Garbage
  ELSE IF n <= c.data THEN [data |-> n, pad |-> 0]
  ELSE [c EXCEPT !.pad = n - c.data]

(* The cipher works on whole blocks.  Of a file that ends before its data   *)
(* nothing is left to decrypt; data that is not whole counts as Garbage.    *)
Decrypted ==
  IF file.fields < 5 THEN Empty
  ELSE IF file.fields = 6 /\ ~Misread /\ key = file.under /\ Length(file.text) % Block = 0
  THEN file.text ELSE Garbage

AnyHash(found) == TRUE
HashAgrees(found) == isNew => found = inputHash

(* The output is written, and the path cut to the original size whether     *)
(* that failed or not, even if it could not be opened; that the cut failed  *)
(* is not looked at.  The output is hashed if the file has a hash.  A wrong *)
(* output stays.                                                            *)
Decrypt ==
  /\ pc = "decrypt" /\ pc' = "idle"
  /\ \E opened, written, cut \in BOOLEAN :
       LET content == IF written THEN Decrypted ELSE IF opened THEN Garbage ELSE output IN
       /\ written => opened
       /\ output' = IF cut THEN Cut(content, original) ELSE content
       /\ error' = (~written \/ ~HashAgrees(output'))
       /\ faulty' = (faulty \/ ~written \/ ~cut)
  /\ UNCHANGED <<input, file, op, calls, opt, inputHash, original, padding, key, isNew,
                 asked, made>>

Next == Create \/ Pad \/ OpenSecure \/ WriteField \/ Crash \/ Plain \/ Decrypt

Spec == Init /\ [][Next]_vars

-----------------------------------------------------------------------------
Whole == file.fields = 6

(* A secure file that was written completely gives back the input as it was *)
(* when create_secure_file was called, to who has the key, however often    *)
(* the input was padded by earlier calls.                                   *)
RoundTrip ==
  pc = "idle" /\ op = "plain" /\ ~faulty /\ Whole
    /\ (file.old => file.size # Version)
    /\ (opt.key = file.under \/ (opt.key = NoKey /\ file.stored = file.under))
    => ~error /\ output = made

(* A wrong key and a file that a crash or a failed write left incomplete are *)
(* found out: create_plain_file returns without an error with the original  *)
(* only.  The code has two exceptions.  A secure file that was emptied and   *)
(* got nothing yet gives an empty output, as its version reads as 0, which  *)
(* means a file without a hash.  A file of an older release has no hash: a  *)
(* wrong key goes unnoticed, and with the right one so does a cut that      *)
(* failed, which leaves the padding.                                        *)
NoWrongPlain ==
  pc = "idle" /\ op = "plain" /\ ~error
    => \/ output = made
       \/ file.fields = 0 /\ output = Empty
       \/ file.old /\ ~isNew /\ (key = file.under => output = file.text)

=============================================================================
