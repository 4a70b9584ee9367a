-------------------------------- MODULE DeviceFs --------------------------------
(***************************************************************************)
(* Link::FileSystem on a connected device (LinkFileSystem.cpp) with the     *)
(* Link::Dir objects it opens (LinkDir.cpp): remove_directory,              *)
(* read_directory and create_directory.  They walk a tree of the device one *)
(* request at a time, while programs on the device create and remove        *)
(* entries of the same tree, and while any request may fail, with or        *)
(* without its effect.                                                      *)
(*                                                                         *)
(* A recursive call is a frame of the stack.  A path is the sequence of its *)
(* names below a directory that is known to exist, the empty path.  The     *)
(* entries "." and ".." are skipped by the code and left out.               *)
(***************************************************************************)
EXTENDS Integers, Sequences

CONSTANTS
  Names,        (* names of entries                                         *)
  Depth,        (* bound: length of a path                                  *)
  Excluded,     (* names the exclude callback of read_directory rejects     *)
  MaxChanges,   (* bound: changes made by programs on the device            *)
  MaxCalls      (* bound: calls made by the host                            *)

ASSUME FsAssumption ==
  /\ Depth \in Nat /\ Excluded \subseteq Names
  /\ MaxChanges \in Nat /\ MaxCalls \in Nat

VARIABLES
  fs,         (* what is at each path                                       *)
  handles,    (* directory handles open on the device                       *)
  changes,    (* changes made by programs on the device so far              *)
  calls,      (* calls made by the host so far                              *)
  op, target, recursive,   (* the call that runs, or ran last               *)
  pc,         (* where it is                                                *)
  stack,      (* its frames, the innermost first                            *)
  entry,      (* the entry it works on; for create, components done         *)
  result,     (* what read_directory returned                               *)
  error,      (* the thread's error context holds an error                  *)
  before,     (* history: handles when the call began                       *)
  existed,    (* history: what was at which path during the call            *)
  disturbed,  (* history: the device changed the tree during the call       *)
  cutShort    (* history: a request for the next entry of a directory failed*)

deviceVars == <<fs, handles>>
callVars   == <<calls, op, target, recursive, before>>
history    == <<existed, disturbed, cutShort>>
vars == <<deviceVars, changes, callVars, pc, stack, entry, result, error, history>>

Paths == UNION {[1 .. n -> Names] : n \in 0 .. Depth}
Kinds == {"none", "file", "dir"}

Parent(p)   == SubSeq(p, 1, Len(p) - 1)
Under(p, n) == Append(p, n)
Entries(p)  == IF Len(p) = Depth THEN {} ELSE {n \in Names : fs[Under(p, n)] # "none"}
Below(p)    == {q \in Paths : Len(q) >= Len(p) /\ SubSeq(q, 1, Len(p)) = p}
Holds(f)    == {<<p, f[p]>> : p \in {q \in Paths : f[q] # "none"}}

(* A call of remove_directory or read_directory on one directory: names     *)
(* returned so far, names that were there when it was opened, whether the   *)
(* Dir object holds a handle, and the result so far.                        *)
Frame(p) == [path |-> p, seen |-> {}, first |-> {}, opened |-> FALSE, found |-> {}]
Frames   == [path : Paths, seen : SUBSET Names, first : SUBSET Names,
             opened : BOOLEAN, found : SUBSET Paths]

(* What there is is in a directory, that one in another, and so on.         *)
Tree(f) ==
  \A p \in Paths : f[p] # "none" => \A n \in 0 .. Len(p) - 1 : f[SubSeq(p, 1, n)] = "dir"

TypeOK ==
  /\ fs \in [Paths -> Kinds] /\ Tree(fs)
  /\ handles \in 0 .. MaxCalls * (Depth + 1)
  /\ changes \in 0 .. MaxChanges /\ calls \in 0 .. MaxCalls
  /\ op \in {"none", "remove", "read", "create"}
  /\ target \in Paths /\ recursive \in BOOLEAN
  /\ pc \in {"idle", "open", "entry", "stat", "unlink", "close", "rmdir",
             "exists", "mkdir"}
  /\ \A i \in DOMAIN stack : stack[i] \in Frames
  /\ Len(stack) <= Depth + 1
  /\ entry \in Names \union 0 .. Depth
  /\ result \subseteq Paths
  /\ error \in BOOLEAN /\ disturbed \in BOOLEAN /\ cutShort \in BOOLEAN
  /\ before \in 0 .. MaxCalls * (Depth + 1)
  /\ existed \subseteq Paths \X {"file", "dir"}

Init ==
  /\ fs \in {f \in [Paths -> Kinds] : f[<<>>] = "dir" /\ Tree(f)}
  /\ handles = 0 /\ changes = 0 /\ calls = 0
  /\ op = "none" /\ target = <<>> /\ recursive = TRUE
  /\ pc = "idle" /\ stack = <<>> /\ entry = 0 /\ result = {}
  /\ error = FALSE
  /\ before = 0 /\ existed = {} /\ disturbed = FALSE /\ cutShort = FALSE

-----------------------------------------------------------------------------
(* The host calls one of the three operations, after API_RESET_ERROR.       *)
Call ==
  /\ pc = "idle" /\ calls < MaxCalls
  /\ calls' = calls + 1
  /\ op' \in {"remove", "read", "create"}
  /\ target' \in Paths /\ recursive' \in BOOLEAN
  /\ pc' = IF op' = "create" THEN "exists"
           ELSE IF op' = "remove" /\ ~recursive' THEN "rmdir" ELSE "open"
  /\ stack' = IF op' = "create" THEN <<>> ELSE <<Frame(target')>>
  /\ entry' = IF op' # "create" THEN 0
              ELSE IF recursive' /\ target' # <<>> THEN 1 ELSE Len(target')
  /\ result' = {}
  /\ error' = FALSE
  /\ before' = handles /\ existed' = Holds(fs)
  /\ disturbed' = FALSE /\ cutShort' = FALSE
  /\ UNCHANGED <<deviceVars, changes>>

Top == Head(stack)
SetTop(f) == stack' = <<f>> \o Tail(stack)

(* The path of the entry that was read from the innermost directory.        *)
EntryAlone(name) == <<name>>
EntryPath(name) == Under(Top.path, name)

(* A recursive call returns: what it found is found under its name.         *)
JustFound(f) == f.found
FoundUnder(f) == {<<f.path[Len(f.path)]>> \o q : q \in f.found}

Return ==
  IF Len(stack) = 1
    THEN pc' = "idle" /\ stack' = <<>> /\ result' = Top.found
    ELSE LET caller == stack[2] IN
         /\ pc' = "entry"
         /\ stack' = <<[caller EXCEPT !.found = @ \union FoundUnder(Top)]>>
                       \o SubSeq(stack, 3, Len(stack))
         /\ result' = result

(* The constructor of Link::Dir.  If it fails the first read finds nothing. *)
OpenDir ==
  /\ pc = "open"
  /\ \E taken, answered \in BOOLEAN :
       /\ taken => fs[Top.path] = "dir"
       /\ answered => taken
       /\ handles' = IF taken THEN handles + 1 ELSE handles
       /\ error' = ~answered
       /\ SetTop(IF answered THEN [Top EXCEPT !.opened = TRUE, !.first = Entries(Top.path)]
                             ELSE Top)
  /\ pc' = "entry"
  /\ UNCHANGED <<fs, changes, callVars, entry, result, history>>

(* Excluded names are not looked at by read_directory.                      *)
Skips(name) == op = "read" /\ name \in Excluded
ListsNames  == op = "read" /\ ~recursive

(* The directory's location moves past each entry read.                     *)
Rewound(f, name) == f
Passed(f, name) == [f EXCEPT !.seen = @ \union {name}]

(* Link::Dir::read.  With an error pending it returns nothing; the device   *)
(* returns every entry that stays there once, in an order of its own.  A    *)
(* link_readdir_r that fails gives what it gives at the end of a directory, *)
(* and is taken for the end.                                                *)
NextEntry ==
  /\ pc = "entry"
  /\ \/ /\ ~error
        /\ \E n \in Entries(Top.path) \ Top.seen :
             /\ entry' = n
             /\ pc' = IF Skips(n) \/ ListsNames THEN "entry" ELSE "stat"
             /\ SetTop([Passed(Top, n) EXCEPT
                          !.found = IF ListsNames /\ ~Skips(n)
                                      THEN @ \union {<<n>>} ELSE @])
        /\ cutShort' = cutShort
     \/ /\ error \/ Entries(Top.path) \intersect Top.first \subseteq Top.seen
        /\ pc' = "close"
        /\ UNCHANGED <<entry, stack, cutShort>>
     \/ /\ ~error
        /\ pc' = "close"
        /\ cutShort' = TRUE
        /\ UNCHANGED <<entry, stack>>
  /\ UNCHANGED <<deviceVars, changes, callVars, result, error, existed, disturbed>>

NeverDirectory(kind) == FALSE
IsDirectory(kind) == kind = "dir"

(* get_info of the entry.  If it fails the entry counts as a file: it is    *)
(* listed, or its removal is skipped because of the pending error.          *)
Stat ==
  /\ pc = "stat"
  /\ \E ok \in BOOLEAN :
       /\ ok => fs[EntryPath(entry)] # "none"
       /\ error' = ~ok
       /\ IF ok /\ IsDirectory(fs[EntryPath(entry)])
            THEN /\ pc' = "open"
                 /\ stack' = <<Frame(EntryPath(entry))>> \o stack
            ELSE IF op = "read"
            THEN /\ pc' = "entry"
                 /\ SetTop([Top EXCEPT !.found = @ \union {<<entry>>}])
            ELSE /\ pc' = IF ok THEN "unlink" ELSE "close"
                 /\ stack' = stack
  /\ UNCHANGED <<deviceVars, changes, callVars, entry, result, history>>

(* FileSystem::remove of the entry.                                         *)
Unlink ==
  /\ pc = "unlink"
  /\ \E taken, answered \in BOOLEAN :
       /\ taken => fs[EntryPath(entry)] = "file"
       /\ answered => taken
       /\ fs' = IF taken THEN [fs EXCEPT ![EntryPath(entry)] = "none"] ELSE fs
       /\ error' = ~answered
       /\ pc' = IF answered THEN "entry" ELSE "close"
  /\ UNCHANGED <<handles, changes, callVars, stack, entry, result, history>>

ClosesNever(err) == FALSE
Closes(err) == ~err

(* The Dir object goes.  With an error pending its handle is not closed.    *)
CloseDir ==
  /\ pc = "close"
  /\ IF Top.opened /\ Closes(error)
       THEN \E taken, answered \in BOOLEAN :
              /\ answered => taken
              /\ handles' = IF taken THEN handles - 1 ELSE handles
              /\ error' = ~answered
       ELSE UNCHANGED <<handles, error>>
  /\ IF op = "remove" THEN pc' = "rmdir" /\ UNCHANGED <<stack, result>> ELSE Return
  /\ UNCHANGED <<fs, changes, callVars, entry, history>>

(* remove_directory of the directory itself, unless an error is pending.    *)
Rmdir ==
  /\ pc = "rmdir"
  /\ \E taken, answered \in BOOLEAN :
       /\ taken => ~error /\ fs[Top.path] = "dir" /\ Entries(Top.path) = {}
       /\ answered => taken
       /\ fs' = IF taken THEN [fs EXCEPT ![Top.path] = "none"] ELSE fs
       /\ error' = (error \/ ~answered)
  /\ Return
  /\ UNCHANGED <<handles, changes, callVars, entry, history>>

Prefix == SubSeq(target, 1, entry)

Finished == entry = Len(target)

(* create_directory, component by component: a directory that is there is   *)
(* left.  A request that failed counts as no directory, and its error is    *)
(* forgotten.                                                               *)
Exists ==
  /\ pc = "exists"
  /\ \/ /\ fs[Prefix] = "dir"
        /\ IF Finished THEN pc' = "idle" /\ entry' = entry
                       ELSE pc' = "exists" /\ entry' = entry + 1
     \/ pc' = "mkdir" /\ entry' = entry
  /\ UNCHANGED <<deviceVars, changes, callVars, stack, result, error, history>>

(* mkdir, after asking for the permissions of the parent.  That failing is  *)
(* an error, but the directory is made all the same.                        *)
Mkdir ==
  /\ pc = "mkdir"
  /\ \E asked, taken, answered \in BOOLEAN :
       /\ taken => /\ fs[Prefix] = "none"
                   /\ Prefix # <<>> => fs[Parent(Prefix)] = "dir"
       /\ answered => taken
       /\ fs' = IF taken THEN [fs EXCEPT ![Prefix] = "dir"] ELSE fs
       /\ error' = (error \/ ~asked \/ ~answered)
       /\ IF ~error' /\ ~Finished
            THEN pc' = "exists" /\ entry' = entry + 1
            ELSE pc' = "idle" /\ entry' = entry
  /\ UNCHANGED <<handles, changes, callVars, stack, result, history>>

-----------------------------------------------------------------------------
(* A program on the device creates or removes one entry.                    *)
Change ==
  /\ changes < MaxChanges /\ pc # "idle"
  /\ changes' = changes + 1
  /\ \E p \in Paths \ {<<>>}, k \in Kinds :
       /\ fs[p] # k
       /\ fs[p] = "none" \/ k = "none"
       /\ fs' = [fs EXCEPT ![p] = k]
       /\ Tree(fs')
  /\ existed' = existed \union Holds(fs')
  /\ disturbed' = TRUE
  /\ UNCHANGED <<handles, callVars, pc, stack, entry, result, error, cutShort>>

HostStep == \/ OpenDir \/ NextEntry \/ Stat \/ Unlink \/ CloseDir \/ Rmdir
            \/ Exists \/ Mkdir

Next == Call \/ HostStep \/ Change

(* Requests return within the transport's timeouts.                         *)
Spec == Init /\ [][Next]_vars /\ WF_vars(HostStep)

-----------------------------------------------------------------------------
(* What read_directory lists: every entry, or every entry that is not a     *)
(* directory in the whole tree, except what is excluded.                    *)
Listed(p) ==
  {q \in Paths : LET path == p \o q IN
     /\ q # <<>> /\ path \in Paths /\ fs[path] # "none"
     /\ \A i \in DOMAIN q : q[i] \notin Excluded
     /\ IF recursive THEN fs[path] = "file" ELSE Len(q) = 1}

(* A call that returns without an error, on a tree nobody else touched, has *)
(* done what it is for: the directory and all below it is gone, also if a   *)
(* directory was not read to its end; the list has only what is there, and  *)
(* all of it unless a directory was not read to its end; every directory of *)
(* the path is there.                                                       *)
DoneWithoutError ==
  pc = "idle" /\ ~error /\ ~disturbed
    => /\ op = "remove" => \A p \in Below(target) : fs[p] = "none"
       /\ op = "read"   => /\ result \subseteq Listed(target)
                           /\ ~cutShort => result = Listed(target)
       /\ op = "create" => fs[target] = "dir"

(* Whatever programs on the device do meanwhile, everything listed without  *)
(* an error was there at some moment of the call, as a file if directories  *)
(* are walked into.                                                         *)
NothingInvented ==
  pc = "idle" /\ op = "read" /\ ~error
    => \A q \in result : \E kind \in {"file", "dir"} :
         <<target \o q, kind>> \in existed /\ (recursive => kind = "file")

(* A step of the host removes nothing outside the directory it was told to  *)
(* remove, and nothing at all in the other operations.                      *)
RemovesOnlyTarget ==
  [][changes' = changes =>
       \A p \in Paths : fs[p] # "none" /\ fs'[p] = "none"
                          => op = "remove" /\ p \in Below(target)]_vars

(* A call that returns without an error has closed every directory it       *)
(* opened, however deep it went.                                            *)
HandlesReturned == pc = "idle" /\ ~error => handles = before

(* Every call returns.                                                      *)
CallReturns == pc # "idle" ~> pc = "idle"

=============================================================================
