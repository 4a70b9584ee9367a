--------------------------------- MODULE Appfs ---------------------------------
(***************************************************************************)
(* Sending a file to a device's application filesystem (Appfs.cpp).  An     *)
(* Appfs object is constructed to create a data file of a declared size,    *)
(* whose header it puts in front, or to install an executable.  Each append *)
(* reads a file in chunks of one page; append_view copies a chunk into the  *)
(* page buffer and sends the buffer when a page is full or the file ends.   *)
(*                                                                         *)
(* Every byte carries its place in the stream the caller means to send: the *)
(* header, then the bytes of every appended file.  So a byte that arrives   *)
(* where it does not belong, twice, or after one that was skipped, shows.   *)
(***************************************************************************)
EXTENDS Integers

CONSTANTS
  PageSize,     (* APPFS_PAGE_SIZE                                          *)
  Overhead,     (* sizeof(appfs_file_t), the header of a data file          *)
  Marker,       (* sizeof(auth_signature_marker_t)                          *)
  Word,         (* sizes are unsigned: they wrap at Word (2^32 in the code) *)
  MaxFile,      (* bound: bytes in one file                                 *)
  MaxAppends    (* bound: calls of append on one object                     *)

ASSUME SizesAssumption ==
  /\ PageSize \in Nat /\ Overhead \in 1 .. PageSize - 1
  /\ Marker \in Nat \ {0} /\ MaxFile \in Nat \ {0} /\ MaxAppends \in Nat \ {0}
  /\ Word \in Nat /\ Word > Overhead + MaxAppends * MaxFile + Marker + PageSize

VARIABLES
  request,   (* m_request                                                   *)
  size,      (* m_data_size                                                 *)
  written,   (* m_bytes_written                                             *)
  loc,       (* m_create_install_attributes.loc                             *)
  buffer,    (* m_create_install_attributes.buffer                          *)
  error,     (* the thread's error context holds an error                   *)
  needsSig,  (* the device requires a signature on executables; constant    *)
  flash,     (* what the device stored                                      *)
  pc,        (* where append is                                             *)
  fileLen,   (* bytes in the file being appended                            *)
  filePos,   (* bytes of it read                                            *)
  sent,      (* bytes_written of append                                     *)
  blob,      (* chunk being copied: its place in the stream, its bytes, and *)
             (* how many of them are copied                                 *)
  required,  (* is_signature_required of append                             *)
  base,      (* place in the stream of the first byte of this file          *)
  appends,   (* calls of append so far                                      *)
  faulted    (* history: a transfer or a read failed                        *)

vars == <<request, size, written, loc, buffer, error, needsSig, flash, pc,
          fileLen, filePos, sent, blob, required, base, appends, faulted>>

NoByte   == -1
MaxPlace == Overhead + MaxAppends * MaxFile
Bytes    == 0 .. MaxPlace - 1
Places   == 0 .. MaxPlace + PageSize - 1   \* a last page may be sent whole

TypeOK ==
  /\ request \in {"none", "create", "install"}
  /\ size \in 0 .. Word - 1
  /\ written \in 0 .. MaxPlace
  /\ loc \in 0 .. MaxPlace + PageSize
  /\ buffer \in [0 .. PageSize - 1 -> Bytes \union {NoByte}]
  /\ error \in BOOLEAN /\ needsSig \in BOOLEAN
  /\ flash \in [Places -> Bytes \union {NoByte}]
  /\ pc \in {"idle", "read", "copy", "sign"}
  /\ fileLen \in 0 .. MaxFile /\ filePos \in 0 .. fileLen
  /\ sent \in 0 .. MaxFile
  /\ blob \in [from : 0 .. MaxPlace, len : 0 .. PageSize, done : 0 .. PageSize]
  /\ required \in BOOLEAN
  /\ base \in 0 .. MaxPlace
  /\ appends \in 0 .. MaxAppends
  /\ faulted \in BOOLEAN

Init ==
  /\ request = "none" /\ size = 0 /\ written = 0 /\ loc = 0
  /\ buffer = [i \in 0 .. PageSize - 1 |-> NoByte]
  /\ error = FALSE
  /\ needsSig \in BOOLEAN
  /\ flash = [x \in Places |-> NoByte]
  /\ pc = "idle" /\ fileLen = 0 /\ filePos = 0 /\ sent = 0
  /\ blob = [from |-> 0, len |-> 0, done |-> 0]
  /\ required = FALSE /\ base = 0 /\ appends = 0 /\ faulted = FALSE

-----------------------------------------------------------------------------
(* The constructor for a data file of n bytes: the header is put into the   *)
(* buffer and counts as written.                                            *)
ConstructCreate ==
  /\ request = "none"
  /\ request' = "create"
  /\ \E n \in 1 .. MaxFile : size' = n + Overhead
  /\ written' = Overhead /\ base' = Overhead
  /\ buffer' = [i \in 0 .. PageSize - 1 |-> IF i < Overhead THEN i ELSE NoByte]
  /\ UNCHANGED <<loc, error, needsSig, flash, pc, fileLen, filePos, sent, blob,
                 required, appends, faulted>>

(* The constructor for an executable: its size is that of the first file.   *)
ConstructInstall ==
  /\ request = "none"
  /\ request' = "install"
  /\ UNCHANGED <<size, written, loc, buffer, error, needsSig, flash, pc, fileLen,
                 filePos, sent, blob, required, base, appends, faulted>>

(* The signature is not sent.                                               *)
InstallSizeWhole(n, signed) == n
InstallSizeSigned(n, signed) == IF signed THEN n - Marker ELSE n
InstallSize(n, signed) == IF signed THEN (n - Marker) % Word ELSE n

(* append on a file of n bytes, up to its loop.  Whether a signature is     *)
(* required is asked in an error scope: no answer means no.                 *)
AppendFile ==
  /\ pc = "idle" /\ request # "none" /\ ~error
  /\ appends < MaxAppends
  /\ \E n \in 1 .. MaxFile, answered \in BOOLEAN :
       /\ fileLen' = n
       /\ required' = (needsSig /\ answered)
       /\ faulted' = (faulted \/ ~answered)
       /\ size' = IF request = "install" /\ size = 0
                    THEN InstallSize(n, required') ELSE size
  /\ filePos' = 0 /\ sent' = 0
  /\ appends' = appends + 1
  /\ pc' = "read"
  /\ UNCHANGED <<request, written, loc, buffer, error, needsSig, flash, blob, base>>

Least(a, b) == IF a < b THEN a ELSE b

Full == size # 0 /\ written = size

(* The end of append's loop.  Bytes of a data file that were not sent count *)
(* as skipped; the signature of an executable is not part of the stream.    *)
LeaveLoop ==
  /\ pc' = IF required /\ request = "install" THEN "sign" ELSE "idle"
  /\ base' = base + IF request = "install" THEN Least(size, fileLen) ELSE fileLen
  /\ UNCHANGED <<filePos, sent, blob>>

(* One evaluation of the loop condition of append, which reads a chunk, and *)
(* the start of append_view, which refuses data beyond the declared size if *)
(* exactly that much was written.                                           *)
ReadChunk ==
  LET n == Least(PageSize, fileLen - filePos)
      pageSize == IF sent + n > size THEN size - sent ELSE n
  IN
  /\ pc = "read"
  /\ \/ /\ error \/ n = 0
        /\ LeaveLoop
        /\ UNCHANGED <<error, faulted>>
     \/ /\ ~error                              \* the file cannot be read
        /\ LeaveLoop
        /\ error' = TRUE /\ faulted' = TRUE
     \/ /\ ~error /\ n > 0 /\ sent >= size
        /\ LeaveLoop
        /\ UNCHANGED <<error, faulted>>
     \/ /\ ~error /\ n > 0 /\ sent < size
        /\ filePos' = filePos + n
        /\ sent' = sent + pageSize
        /\ IF Full THEN /\ error' = TRUE        \* ENOSPC
                        /\ UNCHANGED <<pc, blob>>
                   ELSE /\ error' = error
                        /\ blob' = [from |-> base + filePos, len |-> pageSize, done |-> 0]
                        /\ pc' = "copy"
        /\ UNCHANGED <<base, faulted>>
  /\ UNCHANGED <<request, size, written, loc, buffer, needsSig, flash, fileLen,
                 required, appends>>

PageOffsetInBlob(w) == blob.done
PageOffset(w) == w % PageSize

(* A page is sent when it is full, or when the file is complete.            *)
PageDueWhenFull(w) == w % PageSize = 0
PageDue(w) == w % PageSize = 0 \/ w = size

PageBytes(w) == IF w % PageSize = 0 THEN PageSize ELSE w % PageSize

(* The ioctl.  With an error pending it does nothing; otherwise it may fail,*)
(* before or after the device stored the page.                              *)
SendPage(page, nbyte) ==
  \E stored, ok \in BOOLEAN :
    /\ ok => stored
    /\ error => ~stored
    /\ flash' = IF stored
                  THEN [x \in Places |-> IF x \in loc .. loc + nbyte - 1
                                           THEN page[x - loc] ELSE flash[x]]
                  ELSE flash
    /\ error' = ~ok
    /\ faulted' = (faulted \/ (~error /\ ~ok))

(* The place of the next page, wherever the ioctl got to.                   *)
NextLocIfOk(n) == IF error' THEN loc ELSE loc + n
NextLoc(n) == loc + n

(* One round of the loop of append_view.  It asks neither for an error nor  *)
(* whether the chunk fits into the declared size.                           *)
CopyPage ==
  LET offset == PageOffset(written)
      n      == Least(blob.len - blob.done, PageSize - offset)
  IN
  /\ pc = "copy"
  /\ \/ /\ ~(written < size /\ blob.done < blob.len)
        /\ pc' = "read"
        /\ UNCHANGED <<written, loc, buffer, flash, error, faulted, blob>>
     \/ /\ written < size /\ blob.done < blob.len
        /\ buffer' = [i \in 0 .. PageSize - 1 |->
                        IF i \in offset .. offset + n - 1
                          THEN blob.from + blob.done + (i - offset) ELSE buffer[i]]
        /\ written' = written + n
        /\ blob' = [blob EXCEPT !.done = @ + n]
        /\ pc' = "copy"
        /\ IF PageDue(written')
             THEN /\ SendPage(buffer', PageBytes(written'))
                  /\ loc' = NextLoc(PageBytes(written'))
             ELSE UNCHANGED <<loc, flash, error, faulted>>
  /\ UNCHANGED <<request, size, needsSig, fileLen, filePos, sent, required, base,
                 appends>>

(* The signature is handed to the device; a pending error skips it.         *)
Sign ==
  /\ pc = "sign"
  /\ pc' = "idle"
  /\ \E ok \in BOOLEAN : /\ error' = (error \/ ~ok)
                         /\ faulted' = (faulted \/ ~ok)
  /\ UNCHANGED <<request, size, written, loc, buffer, needsSig, flash, fileLen,
                 filePos, sent, blob, required, base, appends>>

(* API_RESET_ERROR by the program, which may then go on appending.          *)
ClearError ==
  /\ pc = "idle" /\ error
  /\ error' = FALSE
  /\ UNCHANGED <<request, size, written, loc, buffer, needsSig, flash, pc, fileLen,
                 filePos, sent, blob, required, base, appends, faulted>>

-----------------------------------------------------------------------------
Next == \/ ConstructCreate \/ ConstructInstall \/ AppendFile \/ ClearError
        \/ ReadChunk \/ CopyPage \/ Sign

Spec == Init /\ [][Next]_vars

-----------------------------------------------------------------------------
(* As long as no transfer failed, what the device has stored is the stream  *)
(* up to the place of the next page, in order and without a gap, however    *)
(* the files and the chunks cut across the pages.                           *)
StreamInOrder ==
  ~faulted => \A x \in Places : flash[x] = IF x < loc THEN x ELSE NoByte

(* A data file that got as many bytes as declared, in any number of appends,*)
(* and an executable that got its one file are on the device completely and *)
(* without the signature, and no error is reported.                         *)
Declared == \/ request = "create" /\ base = size
            \/ request = "install" /\ appends = 1 /\ (required => fileLen >= Marker)

DeclaredArrives ==
  pc = "idle" /\ ~faulted /\ Declared
    => /\ written = size /\ ~error
       /\ request = "install" => size = IF needsSig THEN fileLen - Marker ELSE fileLen
       /\ \A x \in Places : flash[x] = IF x < size THEN x ELSE NoByte

(* No byte of the flash is written twice, even if the answer to a transfer  *)
(* was lost and the program clears the error and goes on.                   *)
NeverRewritten ==
  [][\A x \in Places : flash[x] # NoByte => flash'[x] = flash[x]]_vars

=============================================================================
