----------------------------- MODULE SignedInstall -----------------------------
(***************************************************************************)
(* Signatures (Auth.cpp) and what becomes of them when an executable is     *)
(* installed (Appfs): a file on the host is given attributes, signed, signed*)
(* again, copied in part, and sent to a device that may require a signature.*)
(*                                                                         *)
(* A file is a sequence of symbols: <<0, data>>, or one of the Marker       *)
(* symbols of a signature marker, which tells its place in the marker, what *)
(* was signed and with which key.  So a cut or overwritten marker is none,  *)
(* and a signature is valid for exactly what was signed.                    *)
(***************************************************************************)
EXTENDS Appfs, Sequences

CONSTANTS
  Contents,   (* what files hold before anything is done to them: data      *)
  Headers,    (* what FileAttributes::apply may put at their start: data    *)
  KeyPairs,   (* keys to sign with                                          *)
  DeviceKey,  (* the one the device verifies with                           *)
  NoKey,      (* what an empty signature is made with: no key               *)
  MaxSigns    (* bound: signatures in one file                              *)

ASSUME FilesAssumption ==
  /\ \A f \in Contents \union Headers :
       Len(f) \in Nat /\ f = [i \in 1 .. Len(f) |-> <<0, f[i][2]>>]
  /\ \A f \in Contents : f # <<>> /\ Len(f) + MaxSigns * Marker <= MaxFile
  /\ DeviceKey \in KeyPairs /\ NoKey \notin KeyPairs
  /\ MaxSigns \in Nat

VARIABLES
  file,      (* the executable on the host, <<>> if there is none           *)
  signs,     (* times it was signed                                         *)
  signed,    (* history: every file that sign left behind, with the key;    *)
             (* forgotten when the file is installed                        *)
  verdict    (* history: what the device said of the signature              *)

fileVars   == <<file, signs, signed, verdict>>
signedVars == <<vars, fileVars>>

SignedTypeOK ==
  /\ TypeOK
  /\ Len(file) <= MaxFile
  /\ signs \in 0 .. MaxSigns
  /\ verdict \in {"none", "accepted", "rejected"}

SignedInit ==
  /\ Init
  /\ file = <<>>
  /\ signs = 0 /\ signed = {}
  /\ verdict = "none"

-----------------------------------------------------------------------------
Signature(key, data) == [by |-> key, of |-> data]

NoSignature == Signature(NoKey, <<>>)

MarkerOf(signature) == [i \in 1 .. Marker |-> <<i, signature>>]

(* get_signature: what the last bytes say, if they are a marker.            *)
GetSignature(f) ==
  LET tail == SubSeq(f, Len(f) - Marker + 1, Len(f)) IN
  IF Len(f) >= Marker /\ tail[1][1] = 1 /\ tail = MarkerOf(tail[1][2])
  THEN tail[1][2] ELSE NoSignature

(* What get_signature_info hashes.                                          *)
HashedWithMarker(f) == f
Hashed(f) == SubSeq(f, 1, Len(f) - Marker)

(* verify.  No signature is that of any data.                               *)
Verify(f, key) ==
  /\ Len(f) >= Marker
  /\ GetSignature(f) = Signature(key, Hashed(f))

-----------------------------------------------------------------------------
(* The executable is prepared before an Appfs is constructed for it.        *)
Preparing == request = "none" /\ UNCHANGED <<vars, verdict>>

Build ==
  /\ Preparing
  /\ file = <<>> /\ file' \in Contents
  /\ UNCHANGED <<signs, signed>>

(* Auth::sign hashes the whole file, whatever it ends in, and appends.      *)
SignFile ==
  /\ Preparing
  /\ file # <<>> /\ signs < MaxSigns
  /\ signs' = signs + 1
  /\ \E key \in KeyPairs :
       LET signature == Signature(key, file) IN
       /\ file' = file \o MarkerOf(signature)
       /\ signed' = signed \union {[by |-> key, of |-> file, result |-> file']}

(* FileAttributes::apply writes the header over the start of the file.      *)
ApplyAttributes ==
  /\ Preparing
  /\ \E h \in Headers :
       /\ Len(h) <= Len(file)
       /\ file' = h \o SubSeq(file, Len(h) + 1, Len(file))
  /\ UNCHANGED <<signs, signed>>

(* A copy of the file that broke off.                                       *)
CopyPart ==
  /\ Preparing
  /\ \E n \in 1 .. Len(file) - 1 : file' = SubSeq(file, 1, n)
  /\ UNCHANGED <<signs, signed>>

(* The executable is the file that is appended; to a data file any may be,  *)
(* and none is prepared.                                                    *)
Construct ==
  \/ file = <<>> /\ ConstructCreate /\ UNCHANGED fileVars
  \/ file # <<>> /\ ConstructInstall /\ signed' = {} /\ UNCHANGED <<file, signs, verdict>>

SendFile ==
  /\ AppendFile
  /\ request = "install" => fileLen' = Len(file)
  /\ UNCHANGED fileVars

(* What the device holds of the file: Appfs stores each byte with its place.*)
Stored ==
  [i \in 1 .. loc |-> LET place == flash[i - 1] IN
                     IF place \in 0 .. Len(file) - 1 THEN file[place + 1] ELSE <<NoByte>>]

(* The device compares the signature it is handed with what it holds.       *)
Accepts == GetSignature(file) = Signature(DeviceKey, Stored)

(* The end of append, which takes the signature it hands to the device from *)
(* the file.  A pending error keeps it from being handed over.              *)
HandSignature ==
  /\ Sign
  /\ \/ error /\ verdict' = verdict
     \/ ~error /\ ~Accepts /\ error' /\ verdict' = "rejected"
     \/ ~error /\ Accepts /\ verdict' = "accepted"
     \/ ~error /\ error' /\ verdict' = verdict
  /\ UNCHANGED <<file, signs, signed>>

SignedNext ==
  \/ Build \/ SignFile \/ ApplyAttributes \/ CopyPart
  \/ Construct
  \/ SendFile
  \/ HandSignature
  \/ (ReadChunk \/ CopyPage \/ ClearError) /\ UNCHANGED fileVars

SignedSpec == SignedInit /\ [][SignedNext]_signedVars

-----------------------------------------------------------------------------
(* verify says that a file carries a key's signature exactly if the file is *)
(* one that sign left behind with that key, to the byte: also if it had     *)
(* been signed before, if it ends in something like a marker, or if a copy  *)
(* broke off just where an earlier signature ended.                         *)
VerifiesIfSigned ==
  request = "none"
    => \A key \in KeyPairs :
         Verify(file, key) <=> \E v \in signed : v.by = key /\ v.result = file

(* The device says of the signature what the host would have said of the    *)
(* file: append takes the same signature off, sends exactly what was signed *)
(* and hands over the one that it took off.                                 *)
DeviceAgrees ==
  appends = 1 /\ verdict # "none" => (verdict = "accepted" <=> Verify(file, DeviceKey))

=============================================================================
