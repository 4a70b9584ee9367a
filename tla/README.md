# SosAPI in TLA+

SosAPI is the C++ library with which a host program drives devices that run
Stratify OS: it connects to them over a link transport, moves files, installs
applications and replaces the operating system itself. Nearly all of it is a
sequence of requests to a device that may not answer, made by a program that
may die, on state that both sides remember differently. That is what these
modules are about.

    tlc -config MCOsUpdate.cfg MCOsUpdate      # model-check one instance
    tlapm OsUpdate_proof.tla                   # check the proofs

## 1. The system

| Component | Source | State | Operations |
|---|---|---|---|
| OS update through the bootloader | `Link.cpp:531-893` | flash of the device, position in the image, the first page kept back, retry counter | validate, erase, wait, transfer, signature, compare, write first page, read back |
| OS update through a flash device | `Link.cpp:926-1063` | flash of the device, page and size counters, position of the image file | find page, erase loop, install loop, signature |
| Link connection | `Link.cpp:60-285`, `474-529` | phy handle, `m_is_bootloader`, `m_is_legacy`, `m_link_info`, attributes | connect, ping, disconnect, reset, reset_bootloader, get_info_list, reconnect |
| Link commands | `Link.cpp:287-472` | none beyond the connection | read_flash, write_flash, get_time, set_time, run_app, format |
| Appfs | `Appfs.cpp` | page buffer, bytes written, place of the next page | construct (create, install), append; queries, key list, cleanup |
| Device filesystem | `LinkFileSystem.cpp`, `LinkDir.cpp`, `LinkFile.cpp` | tree on the device, handles open on it | remove_directory, read_directory, create_directory, remove, rename, touch, file I/O |
| Secure files | `Auth.cpp:210-324` | input, secure file, output | create_secure_file, create_plain_file |
| Authentication, signatures | `Auth.cpp:40-205` | tokens; signature at the end of a file | authenticate, sign, append, verify |
| TaskManager | `TaskManager.cpp` | table of tasks on the device | count_total, count_free, get_info, is_pid_running, get_pid, kill_pid |
| Driver paths | `LinkDriverPath.cpp` | none | parse, print, compare |
| Sys, Sos, SerialNumber, Trace | `Sys.cpp`, `Sos.cpp`, `SerialNumber.cpp`, `Trace.hpp` | none of their own | single system calls, printers |

How they interact. `connect` is what every other operation starts from: it
decides whether the device is taken for a bootloader, and `update_os` picks one
of the two update paths by that and by whether a flash path was given. The
device filesystem, Appfs, Auth and TaskManager each hold a file on the device
that was opened through the same driver. All of them share one thing that no
signature shows: **the error context of the thread**. A call that fails leaves
an error there, and with an error pending most calls return at once. Much of the
code checks no result and relies on this: the flash update runs to its end
through failed requests and does no harm because the later ones are not sent.
`error` is therefore a variable of every module, set and reset where the code
does it.

Behaviour that is hard to test:

* **Crashes and lost answers in an update.** The bootloader starts an OS if the
  first 256 bytes look like one. The code erases, sends all but those bytes and
  writes them last; the host may die, the device may reset and an answer may be
  lost between any two requests, and the next update starts from what is left.
* **Waiting for an erase.** The bootloader does not answer while it erases. The
  loop that polls for its end resets the error every round and cannot report
  that it gave up.
* **Remembered state.** A Link keeps path, serial number and kind of a device
  after the handle to it is gone; devices move between paths while `reconnect`
  and `get_info_list` work on a snapshot of the paths.
* **Loops without a way out.** The erase loop of the flash path ends only when
  enough was erased.
* **Offsets out of step.** Appfs cuts files into chunks, and the stream of
  chunks, shifted by a header, into pages.
* **Walking a tree that changes**, one request at a time, with a failure at any
  entry, and with handles that must be given back.
* **Files changed in place.** `create_secure_file` pads the input itself; a
  signature is appended to a file that may be signed already.
* **A protocol of two requests on a device with one challenge.** Clients of other
  threads and programs take their steps in between.
* **Requests whose failure looks like an answer.** A request that fails returns a
  negative number or nothing, and some callers take it for an answer: a signature
  that is required, the end of a directory, the end of the table of tasks.

Each of these, at its line, is in the `hazards` list of `PROJECT.json` with the
properties that cover it, or a note saying why none does.

What makes each component correct:

* *bootloader update*: never a valid first page over pieces of another image,
  and over a part of its own only in the two cases of section 3; no transfer
  into a running erase; an update without a fault installs its image; every call
  returns.
* *flash update*: the bootloader's own flash is not touched; only erased flash
  is written; nothing is sent after a failure.
* *connection*: what the Link says of its device is true; `reconnect` finds the
  same device, and no other.
* *Appfs*: the device gets the bytes in order, all of them, each once.
* *filesystem*: success means done, except that a list may be incomplete; nothing
  outside the target is removed; nothing is listed that never existed; a call
  that succeeds leaves no handle open.
* *secure files*: what was made can be recovered exactly by who has the key,
  and of a file that has a hash nothing else is returned as if it were right.
* *commands*: none goes to a device that does not take it; a retry repeats what
  was done only if the answer was lost; success is reported only if it was done.
* *authentication*: accepted only if both sides were convinced in this call.
* *signatures*: one verifies exactly if the file is as it was signed.
* *driver paths*: a path reads back what it was made of, and stands for every
  path that does not contradict it.
* *TaskManager*: a task that is there all along is found.

## 2. Modules

| Module | Models | Composed with |
|---|---|---|
| `Bootloader` | the target of an update: what `Link.cpp` relies on | part of `OsUpdate` |
| `OsUpdate` | `Link::update_os`, bootloader path | `Bootloader` |
| `OsSlot` | abstract: a slot that holds one whole image, a part of one, nothing, or is torn | implemented by `OsUpdate` |
| `FlashUpdate` | `Link::update_os`, flash device path | |
| `LinkConnection` | connecting, scanning, reconnecting | part of `LinkCommands` |
| `LinkCommands` | the commands of a Link, with their retries | `LinkConnection` |
| `Appfs` | `Appfs::Appfs`, `append`, `append_view` | part of `SignedInstall` |
| `SignedInstall` | `Auth::sign`, `append`, `get_signature`, `verify`, `FileAttributes::apply` | `Appfs` |
| `Authenticate` | `Auth::authenticate`, `start`, `finish` | |
| `SecureFile` | `Auth::create_secure_file`, `create_plain_file` | |
| `DeviceFs` | `Link::FileSystem` and `Link::Dir` | |
| `TaskTable` | `TaskManager` | |
| `DriverPath` | `Link::DriverPath` | |
| `..._proof` | proofs about the module named | |
| `MC...` | instances for TLC, and claims of the sources the code does not meet | |

Common conventions. `pc` says where an operation is; one action is one request
to the device or one stretch of code between two requests, with everything that
stretch does. A request is a choice of *taken* (the device acted on it) and
*answered* (the host learned of it), with `answered => taken`, so lost requests
and lost answers are both there. `Crash` ends an operation anywhere. Variables
marked *history* are not in the code; they record whether something went wrong,
and properties of the form "if nothing failed" use them. A definition with a
sibling above it (`HoldsNothingBack` above `HoldsBack`) shows the guard or the
helper as a plausible mistake would have it; the sibling is used by nothing and
exists to show that a property notices the difference.

### OsUpdate and Bootloader

An image is `Blocks` pieces and a first page. What a piece of flash holds is
abstracted to the number of the update that wrote it, `Blank` or `Garbage`.
`upd`, `loc`, `startBuf`, `retry` are the locals `image_id`, `loc`,
`start_address_buffer` and `retry_count`. `Validate`, `Erase`, `Poll`, `Open`,
`WritePiece`, `Sign`, `VerifyPiece`, `WriteStart`, `ReadBack` follow
`Link.cpp:531-893` in order; `HoldsBack` is the replacement of the first page
(735-742) and `Corrected` the hardware id put right (828-836).

The bootloader is not in this repository. `Bootloader` holds what `Link.cpp`
takes for granted: it does not answer while it erases; it erases page by page in
an order of its own; a transfer may be garbled; from version 0x400 on it keeps
the first page in RAM until the signature was sent (735-742 leave it in the
transfer, 839 does not write it); one that requires signatures does not let its
flash be read (772-774). A reset stops an erase where it is.

Two steps lose the end of an image, and `short` (history) has the updates they
happened to. `sigReq` is the local `is_signature_required`: the result of the
request at 708, which is negative if it fails and then counts as "yes", so that
`CutsOs` cuts the end off an image that has no signature (714-726), the last piece
is sent without it (`OwnPiece`, which is `Short`) and `Sign` skips the comparison
(775). And a `link_writeflash` that returns 0 ends the transfer loop with `err` at
0 (744-764): `WritePiece` then goes on to `Sign` with the pieces not yet sent left
`Blank`. If that is the first piece, a caching target installs the first page that
it still keeps from an earlier update (`Unfinished`).

`OsSlot` has the slot hold an image only if every piece is of it (or garbled); an
image with a piece cut or missing is `Partial`, and only an update that is
`spoiled`, that lost the end of its image, may install one. Any slot is left by
way of `Torn` and `Empty` alone.

### FlashUpdate

The flash is an array of units, `OsStart` of them the bootloader's. `Outcome`
is the error context: a request that fails sets `error`, and `Reaches` says that
with an error pending none is sent. `EraseRound` and `WriteRound` are one round
of the loops at 975-993 and 1029-1049; what a request returns on failure (page
0, start 0, size 0) is in `FindPage`, `Install` and `EraseRound`. The image is a
file object with a position that outlives the call, because this path never
seeks it (541-543 return before the seek at 549-551): a repeated call may start in
the middle of it. Sizes wrap at `Word`.

### LinkConnection

`handle` is the path the phy handle was opened at, `session` the device it
reaches, and the rest are the members of `Link`. `ConnectTo` is `connect` with
`ping_connection` in it; both scans take one path per step, so that devices come
and go in between. `known` records that a connect identified the device behind
the handle: a failed `link_get_sys_info` is ignored by the code and leaves an
uninitialised serial number, from which nothing follows.

### LinkCommands

The commands are one loop with different guards and ends, so a command is its
kind: `needsOs` if it is refused while `m_is_bootloader`, `reports` if a failed
request becomes an error. `Begin` is the code before the loop, `Try` one round:
one request, carried out or not, answered or not, and sent again if the answer
was garbled (`LINK_PROT_ERROR`), `MAX_TRIES` (3) times at most. `served` and
`lost` count what the device carried out and what of it the host did not learn
of. Everything `LinkConnection` does goes on between commands, and devices are
attached and unplugged in the middle of one.

### Appfs and SignedInstall

A byte is its place in the stream the caller means to send, so that a byte lost,
sent twice or misplaced is seen on the device. `ReadChunk` is one round of the
loop of `append`, `CopyPage` one round of `append_view`, with the transfer of
the page when `PageDue`.

`SignedInstall` adds the file on the host: it is built, gets attributes, is
signed, signed again, or copied in part, and is then what `append` sends. A file
is a sequence of symbols, and a signature is `Marker` symbols that name the key
and what was signed, so a marker that is cut or partly overwritten is none. The
device, which is external, compares the signature it is handed with what it has
stored (`Stored` puts the symbols of the file to the places `Appfs` stored).

### Authenticate

A token has two halves, the nonce and the salt of the random token, and a hash is
a term of its arguments: different for different ones. `Start` and `Finish` are
the two requests. The device has one challenge under way whoever began it, may
answer a second `start` with the first one's challenge, and may forget a
challenge that was not met. A request that fails leaves a token of zeros and an
error that no test of the code looks at: `Finish` compares the zeros.

### SecureFile

A content is how much of the original it has and how many padding characters
follow; a hash is what was hashed, a cipher text what was encrypted under which
key. The secure file is written field by field and can end after any of them,
also before the first. `Decrypt` cuts the output (312) whether it could be opened
and written or not, and the cut may fail, which nobody looks at. Of a file that
ends before its data nothing is decrypted, and the output is empty.

### DeviceFs

The tree is a function from paths to kinds. A recursive call is a frame on
`stack`, with the names already returned by its directory and the list built so
far. `Change` is a program on the device, at any moment of a call. A directory
returns every entry that stays there exactly once and may or may not return one
that appears meanwhile; "." and ".." are left out, the code skips them. A request
for the next entry that fails is its end for the code (`LinkDir.cpp:43-47`,
`LinkFileSystem.cpp:89`, `131-168`): `NextEntry` may end with entries left, and sets
no error. `cutShort` (history) records it.

### TaskTable

The table keeps the data of a task that ended, with `enabled` off. One `Read` is
one round of any of the five loops of `TaskManager`, which differ only in what
they do with a task (`Wanted`, `Counts`, `Listed`). The end of the table is the
request that fails, and what that request returns, all zeros, goes through the
same tests as a task. `error` is reset by the error scope of each function.

### DriverPath

A text is a sequence of symbols, the delimiters and words without one; a serial
device may be several ("/dev/tty"). What `operator/` of the path string does with
an empty part is in another library and not settled here, so `keeps` leaves both
open. `Split` is the tokenizer with its limit of delimiters: token `k` is what is
between `Cut(k - 1)` and `Cut(k)`, the places of the first delimiters, and the
last token ends with the text. `Parts` are the getters, `Same` the comparison.
`Words` is what may stand between delimiters; the texts are all sequences of these
and of delimiters, of any length.

## 3. Runs

Passing runs:

| Run | Checks | Bounds, and why they suffice |
|---|---|---|
| `os_update` | `NoPartialBoot`, `NoWriteWhileErasing`, `VerifiedBoot`, `FaultFreeInstalls`, `AtomicSlot` (refinement), `UpdateReturns` | two pieces (one that carries the first page, one that does not), two updates (the second starts from what the first and its crash left, and the image the device came with differs from both), one reset, one retry. All four kinds of bootloader, all options. |
| `link_connection` | `Identified`, `NeverTheWrongDevice`, `ReconnectFinds`, `InfoListComplete` of the connection; `NotToTheBootloader`, `DoneIfReported`, `RepeatedOnlyIfLost` of the commands; `Returns` | two paths, two devices, one of them old; two devices attached or unplugged and any number of resets, enough for a device to move to the other path and another to take its place; two rounds |
| `signed_install` | `StreamInOrder`, `DeclaredArrives`, `NeverRewritten`, `VerifiesIfSigned`, `DeviceAgrees`, `SignedTypeOK` | pages of 4, header of 2, signatures of 3, two appends of up to 9 bytes: every offset of a chunk in a page, files of more than two pages; executables of 1 to 3 bytes, signed up to twice with two keys, so that a file is shorter than a signature, signed over a signature, and cut within one and between two |
| `flash_update` | `BootloaderKept`, `UndisturbedInstalls`, `WritesToErased`, `QuietAfterError`, `ReturnsOrErases` | one page of bootloader, three of OS; images that leave a page over, fill one exactly, end inside one and do not fit; three calls, so that one can repeat a failed one with the same file object |
| `device_fs` | `DoneWithoutError`, `NothingInvented`, `HandlesReturned`, `RemovesOnlyTarget`, `CallReturns` | every tree of two names and depth two, one change, one call, any request failing |
| `secure_file` | `RoundTrip`, `NoWrongPlain` | block of 4, inputs of 0 to 5 bytes (empty, short, a block, more), four calls, so that a file is padded twice, made and read |
| `task_table` | `StayersFound`, `FoundWasThere`, `CountsAgree` | the idle task and two more entries, so that tasks come and go before and behind the walk; two changes; two calls, as a kill may come before a walk |
| `driver_path` | `ReadsBack`, `SameIfNoConflict`, `StartFindsIt` | two vendors, of every other part one value and the empty one; devices with and without delimiters; both behaviours of `operator/`; every start of every text |
| `authenticate` | `AcceptedIsMutual`, `SharedKeyAccepted` | two clients (they are interchangeable: symmetry), one of which can disturb the other at every point of its call; half tokens of two values; keys shorter than a token, as long, and longer |

The type invariants of `OsUpdate`, `FlashUpdate`, `LinkCommands`, `Authenticate`,
`SecureFile` and `TaskTable` are proved and need no run.

`CHECK_DEADLOCK` is off: every one of these systems stops when its bound of
calls is used up.

Fairness. `WF_vars(HostStep)` (`ScanGoesOn \/ Try` for the Link): every request
to a device returns, with an answer or without, within the timeouts of the link
transport, so a host program that has begun an operation takes its next step.
Nothing is assumed of the device (an erase may never end), of what devices do,
of the user, or of crashes.

Properties worth a word:

* `NoPartialBoot` speaks of a flash that is not `dirty`, that is not left by an
  interrupted erase. The order in which a target erases its pages is not the
  host's, and a target that erases its first page last has, half way, a valid
  first page over an erased OS; the host cannot prevent it. It excepts two updates,
  which leave a valid first page over an image without its end (`Short` or `Blank`
  pieces, never those of another image): one on an image without a signature whose
  request about the signature failed, and one that had 0 for the result of a
  transfer. `AtomicSlot` has the same two as `spoiled`.
* `VerifiedBoot` has no exception for the result of 0, as the comparison finds
  what is missing. It has one for the failed request about the signature, after
  which the code does not compare.
* `FaultFreeInstalls` excepts verification on a caching or a signature-checking
  bootloader; both report an error after a good update, see below.
* `UndisturbedInstalls` is about an update that was given an image file at its
  beginning (`fresh`); with one that stands elsewhere the code installs the rest of
  the file, see below.
* `NoWrongPlain` has two exceptions. A secure file that was emptied and got nothing
  yet, where a crash or a failed first write leaves it, has no version, so no hash
  is compared, and `create_plain_file` with any key returns an empty output
  without an error. And a file of an older release has no hash at all: a wrong
  key gives anything, the right one the content, with its padding if the cut
  failed.
* `ReturnsOrErases` does not say that a flash update returns: with an error in
  the erase loop it does not. It says that this is the only way.
* `Identified` is what every other operation of a Link rests on: the serial
  number, whether the device is a bootloader, and the attributes against which
  `update_os` validates an image.
* `NeverTheWrongDevice`, `Identified` and `NotToTheBootloader` except devices
  whose serial number or kind could not be read (`known`), as above.
* `DoneIfReported` is about `get_time` and `run_app`; the other commands report
  no failure, so nothing can be said of them.
* `NothingInvented` holds in the presence of changes, `DoneWithoutError` only
  without them. `DoneWithoutError` promises a complete list only if no request for
  an entry failed: the code cannot tell, and returns a part of it without an error.
  What is removed is all gone even so, because a directory that still has
  something in it is not removed.
* `StayersFound` and `CountsAgree` are about walks in which no request failed
  before the end of the table (`lost`), for the same reason.
* `SharedKeyAccepted` excepts calls that another client of the same device
  disturbed: such a call may fail with the right key, but never succeed with a
  wrong one, which is `AcceptedIsMutual`.

Runs in which a claim of the sources is refuted:

| Run | Claim | What the code does |
|---|---|---|
| `os_update_success` | an update that succeeded has installed the OS (`UnitTest.hpp:252-254`) | a transfer that fails or is aborted ends the update without an error, on an erased device (`Link.cpp:744-764`, `888-893`) |
| `link_reconnect` | reconnect finds the device again (`UnitTest.hpp:287`) | one failed request for the bootloader attributes leaves the handle open, and every later round is refused by "already connected to a different path" |
| `os_update_signature` | what is left out of an image is its signature (`Link.cpp:715-716`) | a failed request whether one is required counts as yes (`Link.cpp:708`, `714`): the end of an image without a signature is cut off, nothing is compared, and its first page is installed without an error |

Seen while modelling, without a run of their own:

* A signed bootloader is not read while comparing (`Link.cpp:772-775`), but the
  read back at 861 is not excepted: every verified update of one ends in EIO.
* The flash path writes the first page first (1029-1049), while the bootloader
  path takes care to write it last (736-737).
* The corrected hardware id (829-836) is never written on a caching bootloader,
  because the page it is put into is only written before version 0x400 (839).
* `validate_os_image_id_with_connected_bootloader` returns before any check on a
  device that is not a bootloader (541-543), so the flash path, its only caller
  with `UseBootloaderId::no`, checks no image id at all.
* The guard of `connect` against another path (142-146) compares with
  `m_link_info`, which a `ping` that keeps its connection does not change, so a
  connect can succeed on the handle of another device; the same `ping` leaves
  `m_is_bootloader` as it was.
* The comparison expects a blank first page whatever the version (804-815), and the
  read back compares with a buffer assigned only before 0x400: a verified update of
  a caching bootloader reports an error when it was good, and erases it.
* A `link_writeflash` that returns 0 leaves `err` at 0 (744-764), and the update
  goes on to the signature and the first page as if all had been sent.
* `is_signature_required` (639-647) turns the negative result of a failed request
  into `true`, as `install_os` does.
* The flash path reads the image from where it stands: called again with the file
  object of a failed update it installs the rest of the file.
* An image that is shorter than a signature, on a flash device that requires one,
  has an install size that wraps around (1024), and the loop writes to the end of
  the flash.
* `set_time`, `format`, `read_flash` and `write_flash` report no failure.
* A request for a directory entry or for a task that fails is taken for the end:
  `read_directory` and `get_info` return a part of what there is, without an error.
* A directory that goes out of scope with an error pending stays open on the device
  (`LinkDir.cpp:32`).
* The buffer of `append_view` is sent at a page boundary or at the end
  (`Appfs.cpp:239-240`), but a chunk that crosses the declared size jumps over the
  end, and the last page is then never sent.
* An older secure file of an original of 0x100 bytes is taken for a new one
  (`Auth.cpp:269-274`).
* The padding of `create_secure_file` goes to the end of the input, where a
  signature would be, and stays there: a second secure file is one of the padded
  input.
* A secure file that was emptied and no more decrypts to an empty output without an
  error; an older file decrypts to anything under a wrong key.
* The device of a usb path is written (`LinkDriverPath.cpp:15-17`) and never read
  (81-84), although `UnitTest.hpp:320` and `331` expect it back (`Parts`).
* A serial device with a "/" reads back as empty if the library keeps empty
  tokens, so two paths to such ports compare equal.
* `FileSystem::touch` writes back the byte it read: what a program on the device
  changed in between is undone, and an empty file gets an uninitialised byte.

## 4. Proofs

All proofs are for every value of the constants that satisfies the named
assumptions of the modules (`BoundsAssumption`, `RetryAssumption`,
`FlashAssumption`, `LinkAssumption`, `AuthAssumption`, `TaskAssumption`,
`SecureAssumption`, `SizesAssumption`, `FilesAssumption`, `FsAssumption`,
`PartsAssumption`), which only say that sizes are numbers, that the OS starts after the bootloader on a
page, that a header fits into a page, that the values that stand for nothing are
different from all others, that an image does not exceed the range of the code's
integers, that the files an executable is built from consist of data (a
signature marker gets into a file by `sign` alone), and that a word has no
delimiter in it, nor an id, an interface or a serial number of USB (a device may).

`OsUpdate_proof`:

* `TypeCorrect`: `Spec => []TypeOK`
* `BootSafe`: `Spec => []NoPartialBoot`
* `NoWriteDuringErase`: `Spec => []NoWriteWhileErasing`
* `Refinement`: `Spec => AtomicSlot`, the update implements `OsSlot`
* `VerifiedBootSafe`: `Spec => []VerifiedBoot`
* `FaultFreeSucceeds`: `Spec => []FaultFreeInstalls`

The invariant is `Inv`. `NoPartialBoot` alone is not inductive: the step that
writes the first page keeps it only if every piece is one of this update, which
is `PiecesSent`; that nothing wrote a first page before is `NoPageYet`; both
start from a flash that was empty when the transfer began, `EmptyBeforeTransfer`,
and stay true only if no erase is still at work, `NoWriteWhileErasing` with
`EraseIsDirty`; and the page that is written must be the one of this update, on
the host or in the target's RAM, `PageKept`. `LoopBounds` is what the types of
the counters need. The refinement is proved from the same invariant: the
initial slot holds image 0, and every step is a `Begin`, `Spoil`, `Lose`, `Install`
or a stutter of `OsSlot`. What is on the flash when the first page is written is of
this update or cut or missing, the latter only if the update is in `short`
(`OfUpdate`, `ShortSoFar`); for the page that a target kept from an earlier update,
`OldPage`. What one transfer does to all this is in the lemma `WriteEffects`.

`VerifiedBoot` is about the moment when the first page is written, so `Compared`
says what the comparison has established before it: the pieces up to `loc` are
those that were sent. It also needs that a first page with the number of this
update cannot be there earlier (`NumberIsNew`). For `FaultFreeInstalls` each phase
of an update that nothing has disturbed must leave what the next one needs: the
target answers and no error is pending, which means that the erase is over
(`Undisturbed`), the pieces that were sent are on the flash (`Sent`), and the page
that was kept back, in the host's buffer or the target's cache, is the right one
(`Kept`). The two combinations of verification that `Expected` leaves out are the
ones for which `Kept` cannot be established.

`FlashUpdate_proof`:

* `TypeCorrect`: `Spec => []TypeOK`
* `BootloaderSafe`: `Spec => []BootloaderKept`
* `QuietAfterErrors`: `Spec => QuietAfterError`
* `ErasedBeforeWritten`: `Spec => WritesToErased`
* `FaultFree`: `Spec => []UndisturbedInstalls`

The argument: as long as no error is pending, each phase has what the next one
needs. `Erasing`: the pages erased so far are exactly the blank units from
`OsStart` on, so the next page to erase is not the bootloader's. `Erased`: when
the loop ends they cover the image. `Writing`: the address is `OsStart` and not
0, the unit about to be written is blank, and what has been written is the
image. `Installed` is the same at the end. `ErrorsStay` connects the history to
the code's error context, and `InFlash` bounds what is erased. Arithmetic with
pages is in four lemmas of its own (`Division`, `InPage`, `PageFits`,
`WholePages`).

`Link_proof`, the commands and the connection:

* `Types`: `CommandSpec => []CommandTypeOK`
* `IdentifiedRight`, `ReconnectRight`: `CommandSpec => []Identified`,
  `CommandSpec => []NeverTheWrongDevice`
* `CommandsToTheOs`: `CommandSpec => []NotToTheBootloader`
* `ReportsRight`, `NoNeedlessRepeat`: `CommandSpec => []DoneIfReported`,
  `CommandSpec => []RepeatedOnlyIfLost`
* `ReconnectComplete`, `ListComplete`: `CommandSpec => []ReconnectFinds`,
  `CommandSpec => []InfoListComplete`

`Identified` speaks of the moments between two calls, and is not inductive: in
the middle of a scan the Link is connected to one device after the other, and
when reconnect gives up it puts the information of before back. `RightInfo` is
what holds at every moment: while the handle is open and was identified, serial
number, kind and attributes are those of the session. `ScanInfo` says why putting
it back does no harm: when a round ends nothing is known of any device, because
every attempt that did not find the right one was left. `CommandInv` ties
the counts of a command to its error: as long as the loop runs every request
carried out was one whose answer was lost.

The completeness of the two scans has an invariant of its own (`QuietInv`), about
scans that nothing disturbs. `OneScan` says whose steps are under way. After an
attempt there is a pending error and no connection, or a connection to a device
that was identified (`Attempted`). Then the list is that of the paths tried so far
(`ListScan`), and `reconnect` goes on to the next path only if the device is at none
of those tried (`ReconnectScan`), with nothing connected: otherwise the guard of
`connect` against another path would refuse the right one.

`Link_proof`, the driver paths:

* `PathReadsBack`: `PathSpec => []ReadsBack`
* `PathSameIfNoConflict`: `PathSpec => []SameIfNoConflict`
* `PathStartFindsIt`: `PathSpec => []StartFindsIt`

The invariant, `PathInv`, only says that both paths are texts and the texts of what
they were constructed from; the work is in what `Split` makes of a text. That it
finds the k-th delimiter of a text of any length would be an induction over the
text. It is avoided: of the numbers of symbols that have `k` delimiters or more
one is the least (`LeastNumber`, from the library's theorem on well-founded
relations), and the last of so many symbols is the delimiter (`NthExists`); there is
no other, as the count rises at each (`CountGrows`, `NthIs`). So a start of a text
that ends where a part ends is cut where the text is (`StartHas`), which is
`PathStartFindsIt`, and which also says that adding a part leaves the earlier
values alone. The added part is the last value if it is free of delimiters
(`PartAdded`). `Has(t, f, m)` is what a path under construction keeps after each
`operator/`: its values are the first `m` of `f`, in as many delimiters, or else
the last was empty, added none, and the others behind it are empty too
(`InPlace`, which is `Placed` of a usb path). The device of a usb path is added
behind the four values that are read and may be full of delimiters.

`Authenticate_proof`:

* `Mutual`: `Spec => []AcceptedIsMutual`
* `SharedKey`: `Spec => []SharedKeyAccepted`
* `TypeCorrect`: `Spec => []TypeOK`

The invariant is the two together with the types and `UnderWay`: a call between
its requests has not been answered yet, has a challenge with its own nonce once
`start` returned, and if nothing disturbed it that challenge is the one the device
has under way. That a hash is not a token of zeros, nor one hash another, is by
construction of the terms.

`TaskTable_proof`:

* `TypeCorrect`: `Spec => []TypeOK`
* `NoStayerMissed`: `Spec => []StayersFound`
* `NoneMadeUp`: `Spec => []FoundWasThere`
* `CountsRight`: `Spec => []CountsAgree`

What was seen and what stayed during a walk brackets the table at every moment of
it (`Bracketed`). `ListedSoFar`, `NoneSoFar` and `CountedSoFar` say what the walk
has established of the entries it has passed: those that stayed are listed, none
of them is the one looked for, and the count is the number of requests less the
stayers passed, for which the cardinality of a set that grows by one entry is
needed.

`SecureFile_proof`:

* `TypeCorrect`: `Spec => []TypeOK`
* `Recovered`: `Spec => []RoundTrip`
* `NothingElse`: `Spec => []NoWrongPlain`

The conjuncts follow the data: `Inputs` (an input is an original and its
padding), `Padding` (after it the length is a whole number of blocks), `Writing`
(what has been written of the secure file are the first fields of the one under
way), `MadeRight` (a file that has a field has it right, and what it is made of is
`made`), `Reading` (what `create_plain_file` has read comes from that file). Then
`RoundTrip` is that decryption and cutting undo encryption and padding, and
`NoWrongPlain` that the hash in the file, also when it is missing, agrees with
nothing else, and that only an emptied file and an older one go without it.

`Appfs_proof`, about `SignedInstall`, of which the other steps of `Appfs` are a part:

* `InOrder`: `SignedSpec => []StreamInOrder`
* `WrittenOnce`: `SignedSpec => NeverRewritten`
* `Arrives`: `SignedSpec => []DeclaredArrives`
* `VerifiesWhatIsSigned`: `SignedSpec => []VerifiesIfSigned`
* `VerdictRight`: `SignedSpec => []DeviceAgrees`
* `TypesCorrect`: `SignedSpec => []SignedTypeOK`

As long as nothing failed and there is room (`Open`), the page buffer holds the
stream from `loc` on up to `written` (`PageRight`), and what is read and copied
next is what the stream has next (`InStep`), which needs that `append`'s own
count is never ahead of `written`. The step that sends a page needs that it is
filled up exactly to where `written` is, on which `%` and the cut of the chunk
have to agree (`InPage`). `BelowLoc` needs none of it: whatever fails, pages are
stored one behind the other.

That everything arrives (`ArriveInv`) needs both directions. Not too little: when
the file is full nothing is left in the buffer (`Full => loc = size`), which the
last chunk shows, cut to a page or to the end. Not too much: a data file gets no
more bytes than were appended, so none is refused before the size is reached
(`NoMoreThanAppended`), and the size of an executable is that of its first file less
the signature that is read ahead of it (`FirstFileFits`). The types need that `k`
appends move no offset past `PlaceAfter(k)`, however transfers failed: that is
where `SizesAssumption` keeps the code's integers from wrapping.

Signatures (`SignInv`): every symbol of a marker in the file was put there by `sign`
(`OfSigns`), so a file that ends in a whole marker ends in one of these, and as
the signature covers all before it, the file is the one `sign` left behind; the
two directions are the lemmas `SignedVerifies` and `VerifiedIsSigned`. `HandInv`
then joins this with the stream: when the signature is handed over, what the
device has stored is what `verify` would hash (`StoredIsHashed`), or a transfer
failed and the code never gets there.

`DeviceFs_proof`:

* `Closed`: `Spec => []HandlesReturned`
* `OnlyTheTarget`: `Spec => RemovesOnlyTarget`
* `NothingIsInvented`: `Spec => []NothingInvented`
* `DoesItsWork`: `Spec => []DoneWithoutError`
* `TypeCorrect`: `Spec => []TypeOK`

`HandlesReturned` speaks of the moments between calls; in the middle of one,
`OpenOnes` counts: without an error every directory of the stack is open, except
that the innermost is not yet or no longer, so the handles are those of before
the call and one for each of these frames, and an error that is pending stays until
the call is over. `WithinTarget` says that every directory walked into is the
target or below it, and has a name if another call walked into it; it needs that
an entry read is one of the names, and that its path is one (`Shape`).
`OnlyRemoves` says which operation removes.

For what is found, the stack must be a `Chain`: each of its directories is the
entry of the next that its last name says, and the outermost is the target. So
what a recursive call found, put under its own last name, keeps its full path
(`FoundBelow`), and what any frame holds was there (`AllWereThere`), because
`existed` includes the tree at every moment and an error, after which a name may
be taken for a file, stays pending until the call is over.

`DoneWithoutError` is proved for each operation apart. What is removed last is the
target, and as the device keeps a tree (`TreeKept`) nothing is left below it. What
`read_directory` lists is the union of what is to be listed of each entry (the
lemmas `PartOf...`: a file, a directory, an excluded name), and `SoFar` says that
every directory of the stack has found this much of the names it has seen, except
of the one that is being asked for or walked into, or, once a directory was cut
short, nothing but this. No induction on the depth of
the tree is needed: a recursive call that returns has, by the invariant of its
own frame, found all of its directory.

The types need two bounds. `Deep`: the stack has no more frames than the innermost
path has names, and one, and what a frame has found fits below its path, so no
path gets longer than the tree is deep. `FewOpen`: a call that fails leaves at most
the directories of its stack open, so `Depth + 1` handles more for each call: with
an error pending the code skips the requests that would close them, and
`HandlesReturned` says nothing about such calls.

Only model-checked: liveness (`UpdateReturns`, `ReturnsOrErases`, `Returns`,
`CallReturns`), which rests on fairness and is beyond the prover. Every other
property of the passing runs is proved.

## 5. Not modelled

* Appfs: `get_info`, the list of keys and the other queries, which change
  nothing; `cleanup`, `free_ram` and `reclaim_ram`, which are not built for a
  host and use the device's own filesystem.
* `touch`, `rename`, and the single requests of `Link::File`: no state but the
  one request, except that `touch` reads and writes a byte (see above), which
  needs contents that the tree of `DeviceFs` does not have.
* `Sys`, `Sos`, `SerialNumber`, `Trace`: one system call or a conversion each.
* Progress callbacks, printers, formatting and timeouts as durations; a timeout
  is a request that is not answered. A callback that aborts is in `OsUpdate`.
* Hashing, encryption and signatures as computations: they are what they
  promise.
* Several threads on one Link: the class has no locks and its error context is
  the thread's; sharing one is left to its user. Several clients of one device
  are in `Authenticate`.

## 6. Plan

Done: the bootloader update with its target and its abstract slot, the
connection, Appfs, the flash update, the filesystem, secure files, the table of
tasks; then the commands over the connection, signatures with the installation,
authentication and driver paths; proofs of the safety of all of them.
What is next:

1. `LinkCommands` with `OsUpdate`: an update on what the connection took for a
   bootloader, and the reconnect that a program does after it. `Identified` is
   the interface between the two.
2. `DeviceFs` with contents, for `touch`, `rename` and `Link::File`.
