----------------------------- MODULE DeviceFs_proof -----------------------------
(***************************************************************************)
(* Proofs about DeviceFs, for trees of any depth, any changes by programs   *)
(* on the device and any number of calls: nothing outside the target of     *)
(* remove_directory is removed, nothing is listed that was not there, and a *)
(* call without an error has closed every directory it opened and, if the   *)
(* device left the tree alone, has done all of its work.                    *)
(***************************************************************************)
EXTENDS DeviceFs, SequenceTheorems, TLAPS

Calls == [path : Paths, seen : SUBSET Names, first : SUBSET Names,
          opened : BOOLEAN, found : SUBSET Seq(Names)]

Walking == {"open", "entry", "stat", "unlink", "close", "rmdir"}

Shape ==
  /\ fs \in [Paths -> Kinds]
  /\ handles \in Int /\ before \in Int
  /\ target \in Paths
  /\ error \in BOOLEAN
  /\ stack \in Seq(Calls)
  /\ pc \in Walking => stack # <<>>
  /\ pc \in {"stat", "unlink"} => entry \in Names /\ EntryPath(entry) \in Paths

(* Every directory walked into is the target or below it; those walked into *)
(* from another have a name.                                                *)
WithinTarget ==
  \A i \in 1 .. Len(stack) : /\ stack[i].path \in Below(target)
                             /\ i < Len(stack) => Len(stack[i].path) > 0

OnlyRemoves ==
  /\ pc \in Walking => op \in {"remove", "read"}
  /\ pc \in {"unlink", "rmdir"} => op = "remove"

(* Without an error every directory of the stack is open, except that the   *)
(* innermost is not yet or no longer.                                       *)
OpenOnes ==
  /\ pc \in {"open", "stat", "unlink"} => ~error
  /\ pc \in Walking /\ ~error =>
       /\ \A i \in 2 .. Len(stack) : stack[i].opened
       /\ pc \in {"open", "rmdir"} => handles = before + (Len(stack) - 1)
       /\ pc \notin {"open", "rmdir"} => /\ stack[1].opened
                                         /\ handles = before + Len(stack)
  /\ pc \notin Walking /\ ~error => handles = before

IInv == Shape /\ WithinTarget /\ OnlyRemoves /\ OpenOnes

-----------------------------------------------------------------------------
(* Paths.                                                                   *)
LEMMA PathsAre == \A p : p \in Paths <=> p \in Seq(Names) /\ Len(p) <= Depth
<1> SUFFICES ASSUME NEW p
             PROVE  p \in Paths <=> p \in Seq(Names) /\ Len(p) <= Depth
  OBVIOUS
<1>1. Depth \in Nat
  BY FsAssumption
<1>2. ASSUME p \in Paths
      PROVE  p \in Seq(Names) /\ Len(p) <= Depth
  <2>1. PICK n \in 0 .. Depth : p \in [1 .. n -> Names]
    BY <1>2 DEF Paths
  <2>2. p \in Seq(Names) /\ Len(p) = n
    BY <2>1, <1>1
  <2> QED
    BY <2>1, <2>2, <1>1
<1>3. ASSUME p \in Seq(Names), Len(p) <= Depth
      PROVE  p \in Paths
  <2>1. Len(p) \in 0 .. Depth /\ p \in [1 .. Len(p) -> Names]
    BY <1>1, <1>3
  <2> QED
    BY <2>1 DEF Paths
<1> QED
  BY <1>2, <1>3

LEMMA Itself ==
  ASSUME NEW t \in Paths
  PROVE  t \in Below(t)
<1>1. t \in Seq(Names)
  BY PathsAre
<1>2. SubSeq(t, 1, Len(t)) = t
  BY <1>1
<1> QED
  BY <1>1, <1>2 DEF Below

(* An entry of a directory below a path is below it.                        *)
LEMMA EntryBelow ==
  ASSUME NEW t \in Paths, NEW p \in Below(t), NEW n \in Names, Under(p, n) \in Paths
  PROVE  /\ Under(p, n) \in Below(t) /\ Len(Under(p, n)) > 0
<1>1. /\ t \in Seq(Names) /\ p \in Seq(Names) /\ Len(p) >= Len(t)
      /\ SubSeq(p, 1, Len(t)) = t
  BY PathsAre DEF Below
<1>2. Append(p, n) \in Seq(Names) /\ Len(Append(p, n)) = Len(p) + 1
  BY <1>1
<1>3. \A i \in 1 .. Len(t) : Append(p, n)[i] = p[i] /\ t[i] = p[i]
  BY <1>1
<1>4. SubSeq(Append(p, n), 1, Len(t)) = t
  <2>1. /\ SubSeq(Append(p, n), 1, Len(t)) \in Seq(Names)
        /\ Len(SubSeq(Append(p, n), 1, Len(t))) = Len(t)
        /\ \A i \in 1 .. Len(t) : SubSeq(Append(p, n), 1, Len(t))[i] = Append(p, n)[i]
    BY <1>1, <1>2
  <2> QED
    BY <1>1, <1>3, <2>1
<1>5. Len(Append(p, n)) >= Len(t) /\ Len(Append(p, n)) > 0
  BY <1>1, <1>2
<1> QED
  BY <1>4, <1>5, Zenon DEF Under, Below

LEMMA EntryIsPath ==
  ASSUME NEW p \in Paths, NEW n \in Entries(p)
  PROVE  n \in Names /\ Under(p, n) \in Paths
<1>1. p \in Seq(Names) /\ Len(p) <= Depth /\ Depth \in Nat
  BY PathsAre, FsAssumption
<1>2. n \in Names /\ Len(p) # Depth
  BY DEF Entries
<1>3. Append(p, n) \in Seq(Names) /\ Len(Append(p, n)) <= Depth
  BY <1>1, <1>2
<1> QED
  BY <1>2, <1>3, PathsAre DEF Under

-----------------------------------------------------------------------------
(* The stack.                                                               *)
LEMMA Replaced ==
  ASSUME NEW s \in Seq(Calls), s # <<>>, NEW f \in Calls, NEW t, t = <<f>> \o Tail(s)
  PROVE  /\ t \in Seq(Calls) /\ Len(t) = Len(s) /\ t[1] = f /\ t # <<>>
         /\ \A i \in 2 .. Len(s) : t[i] = s[i]
BY SMT

LEMMA Pushed ==
  ASSUME NEW s \in Seq(Calls), NEW f \in Calls, NEW t, t = <<f>> \o s
  PROVE  /\ t \in Seq(Calls) /\ Len(t) = Len(s) + 1 /\ t[1] = f /\ t # <<>>
         /\ \A i \in 2 .. Len(s) + 1 : t[i] = s[i - 1]
BY SMT

PoppedFrom(t, s, f) ==
  /\ t \in Seq(Calls) /\ Len(t) = Len(s) - 1 /\ t[1] = f /\ t # <<>>
  /\ \A i \in 2 .. Len(s) - 1 : t[i] = s[i + 1]

LEMMA Popped ==
  ASSUME NEW s, s \in Seq(Calls), Len(s) > 1, NEW f, f \in Calls, NEW t,
         t = <<f>> \o SubSeq(s, 3, Len(s))
  PROVE  PoppedFrom(t, s, f)
<1> DEFINE u == SubSeq(s, 3, Len(s))
<1>1. /\ u \in Seq(Calls) /\ Len(u) = Len(s) - 2
      /\ \A i \in 1 .. Len(s) - 2 : u[i] = s[i + 2]
  <2>1. Len(s) \in Nat /\ Len(s) >= 2
    OBVIOUS
  <2>2. \A i \in 3 .. Len(s) : s[i] \in Calls
    OBVIOUS
  <2>3. u \in Seq(Calls)
    BY <2>1, <2>2
  <2>4. Len(u) = Len(s) - 2
    <3>1. CASE Len(s) = 2
      BY <2>1, <3>1
    <3>2. CASE Len(s) > 2
      BY <2>1, <3>2
    <3>3. Len(s) = 2 \/ Len(s) > 2
      <4>1. \A k \in Nat : k >= 2 => k = 2 \/ k > 2
        BY SMT
      <4> QED
        BY <2>1, <4>1, Zenon
    <3> QED
      BY <3>1, <3>2, <3>3, Zenon
  <2>5. \A i \in 1 .. Len(s) - 2 : u[i] = s[i + 2]
    BY <2>1
  <2> QED
    BY <2>3, <2>4, <2>5
<1> HIDE DEF u
<1>2. /\ t \in Seq(Calls) /\ Len(t) = Len(u) + 1 /\ t[1] = f /\ t # <<>>
      /\ \A i \in 2 .. Len(u) + 1 : t[i] = u[i - 1]
  <2>1. t = <<f>> \o u
    BY DEF u
  <2> QED
    BY <1>1, <2>1, Pushed
<1>3. Len(s) \in Nat
  OBVIOUS
<1>4. ASSUME NEW i \in 2 .. Len(s) - 1
      PROVE  t[i] = s[i + 1]
  <2>1. i \in 2 .. Len(u) + 1 /\ i - 1 \in 1 .. Len(s) - 2 /\ (i - 1) + 2 = i + 1
    BY <1>1, <1>3
  <2>2. t[i] = u[i - 1] /\ u[i - 1] = s[(i - 1) + 2]
    BY <1>1, <1>2, <2>1, Zenon
  <2> QED
    BY <2>1, <2>2
<1> QED
  BY <1>1, <1>2, <1>3, <1>4 DEF PoppedFrom

LEMMA TopIs ==
  ASSUME Shape, pc \in Walking
  PROVE  /\ Top = stack[1] /\ Top \in Calls /\ Len(stack) \in Nat /\ Len(stack) >= 1
         /\ Top.path \in Paths
<1>1. stack \in Seq(Calls) /\ stack # <<>>
  BY DEF Shape
<1>2. Head(stack) = stack[1] /\ stack[1] \in Calls /\ Len(stack) \in Nat /\ Len(stack) >= 1
  BY <1>1
<1> QED
  BY <1>2 DEF Top, Calls

LEMMA FrameIs ==
  ASSUME NEW p \in Paths
  PROVE  Frame(p) \in Calls /\ Frame(p).path = p /\ Frame(p).opened = FALSE
BY DEF Frame, Calls

-----------------------------------------------------------------------------
LEMMA InitHolds == Init => IInv
<1> SUFFICES ASSUME Init
             PROVE  IInv
  OBVIOUS
<1>1. <<>> \in Paths
  <2>1. <<>> \in Seq(Names) /\ Len(<<>>) <= Depth
    BY FsAssumption
  <2> QED
    BY <2>1, PathsAre
<1>2. fs \in [Paths -> Kinds] /\ <<>> \in Seq(Calls)
  BY DEF Init
<1>3. Shape
  <2>1. /\ handles = 0 /\ before = 0 /\ target = <<>> /\ error = FALSE
        /\ stack = <<>> /\ pc = "idle"
    BY DEF Init
  <2>2. pc \notin Walking /\ pc \notin {"stat", "unlink"}
    BY <2>1 DEF Walking
  <2>3. handles \in Int /\ before \in Int
    BY <2>1
  <2>4. target \in Paths /\ error \in BOOLEAN /\ stack \in Seq(Calls)
    BY <1>1, <1>2, <2>1, Zenon
  <2> QED
    BY <1>2, <2>2, <2>3, <2>4, Zenon DEF Shape
<1>4. WithinTarget
  BY DEF Init, WithinTarget
<1>5. OnlyRemoves /\ OpenOnes
  BY DEF Init, OnlyRemoves, OpenOnes, Walking
<1> QED
  BY <1>3, <1>4, <1>5 DEF IInv

LEMMA CallKeeps ==
  ASSUME IInv, Call
  PROVE  IInv'
<1>1. /\ pc = "idle" /\ target' \in Paths /\ error' = FALSE /\ before' = handles
      /\ UNCHANGED <<fs, handles>>
      /\ op' \in {"remove", "read", "create"}
      /\ pc' = IF op' = "create" THEN "exists"
               ELSE IF op' = "remove" /\ ~recursive' THEN "rmdir" ELSE "open"
      /\ stack' = IF op' = "create" THEN <<>> ELSE <<Frame(target')>>
  BY DEF Call, deviceVars
<1>2. fs \in [Paths -> Kinds] /\ handles \in Int
  BY DEF IInv, Shape
<1>3. Frame(target') \in Calls /\ Frame(target').path = target' /\ target' \in Below(target')
  BY <1>1, FrameIs, Itself
<1>4. CASE op' = "create"
  <2>1. pc' = "exists" /\ stack' = <<>>
    BY <1>1, <1>4
  <2>2. pc' \notin Walking /\ pc' \notin {"stat", "unlink", "open", "rmdir"}
    BY <2>1 DEF Walking
  <2>3. stack' \in Seq(Calls) /\ Len(stack') = 0
    BY <2>1
  <2>4. handles' \in Int /\ before' \in Int /\ error' \in BOOLEAN
    BY <1>1, <1>2
  <2>5. Shape'
    BY <1>1, <1>2, <2>2, <2>3, <2>4 DEF Shape
  <2>6. WithinTarget'
    BY <2>3 DEF WithinTarget
  <2>7. OnlyRemoves' /\ OpenOnes'
    BY <1>1, <2>2 DEF OnlyRemoves, OpenOnes
  <2> QED
    BY <2>5, <2>6, <2>7 DEF IInv
<1>5. CASE op' # "create"
  <2>1. /\ stack' = <<Frame(target')>> /\ pc' \in {"rmdir", "open"}
        /\ pc' = "rmdir" => op' = "remove"
    BY <1>1, <1>5
  <2>2. stack' \in Seq(Calls) /\ Len(stack') = 1 /\ stack'[1] = Frame(target') /\ stack' # <<>>
    BY <1>3, <2>1
  <2>3. Shape'
    BY <1>1, <1>2, <2>1, <2>2 DEF Shape, Walking
  <2>4. WithinTarget'
    BY <1>3, <2>2 DEF WithinTarget
  <2>5. OnlyRemoves'
    BY <1>1, <1>5, <2>1 DEF OnlyRemoves
  <2>6. OpenOnes'
    BY <1>1, <1>2, <2>1, <2>2 DEF OpenOnes, Walking
  <2> QED
    BY <2>3, <2>4, <2>5, <2>6 DEF IInv
<1> QED
  BY <1>4, <1>5

(* A step that replaces the innermost frame by one of the same directory.   *)
LEMMA SetTopKeeps ==
  ASSUME IInv, pc \in Walking, NEW f \in Calls, f.path = Top.path, SetTop(f),
         UNCHANGED target
  PROVE  /\ stack' \in Seq(Calls) /\ stack' # <<>> /\ Len(stack') = Len(stack)
         /\ stack'[1] = f /\ Top' = f /\ WithinTarget'
         /\ \A i \in 2 .. Len(stack) : stack'[i] = stack[i]
<1>1. stack \in Seq(Calls) /\ stack # <<>>
  BY DEF IInv, Shape
<1>2. stack' = <<f>> \o Tail(stack)
  BY DEF SetTop
<1>3. /\ stack' \in Seq(Calls) /\ Len(stack') = Len(stack) /\ stack'[1] = f
      /\ stack' # <<>>
      /\ \A i \in 2 .. Len(stack) : stack'[i] = stack[i]
  BY <1>1, <1>2, Replaced
<1>4. Top = stack[1] /\ Len(stack) \in Nat /\ Len(stack) >= 1
  BY TopIs DEF IInv
<1>5. ASSUME NEW i \in 1 .. Len(stack)
      PROVE  stack'[i].path = stack[i].path
  BY <1>3, <1>4
<1>6. WithinTarget'
  BY <1>3, <1>5 DEF IInv, WithinTarget, Below
<1>7. Top' = f
  BY <1>3 DEF Top
<1> QED
  BY <1>3, <1>6, <1>7

LEMMA OpenDirKeeps ==
  ASSUME IInv, OpenDir
  PROVE  IInv'
<1> DEFINE f(ok) == IF ok THEN [Top EXCEPT !.opened = TRUE, !.first = Entries(Top.path)]
                          ELSE Top
<1>1. PICK taken \in BOOLEAN, answered \in BOOLEAN :
        /\ answered => taken
        /\ handles' = IF taken THEN handles + 1 ELSE handles
        /\ error' = ~answered
        /\ SetTop(f(answered))
  BY DEF OpenDir
<1>2. /\ pc = "open" /\ pc' = "entry"
      /\ UNCHANGED <<fs, target, op, before>>
  BY DEF OpenDir, callVars
<1>3. Top \in Calls /\ Top = stack[1] /\ Len(stack) \in Nat /\ Len(stack) >= 1
  BY <1>2, TopIs DEF IInv, Walking
<1>4. /\ f(answered) \in Calls /\ f(answered).path = Top.path
      /\ answered => f(answered).opened
  <2>1. Entries(Top.path) \in SUBSET Names
    BY DEF Entries
  <2> QED
    BY <1>3, <2>1 DEF Calls
<1> HIDE DEF f
<1>5. /\ stack' \in Seq(Calls) /\ stack' # <<>> /\ Len(stack') = Len(stack)
      /\ stack'[1] = f(answered) /\ WithinTarget'
      /\ \A i \in 2 .. Len(stack) : stack'[i] = stack[i]
  BY <1>1, <1>2, <1>4, SetTopKeeps DEF Walking
<1>6. handles \in Int /\ before \in Int /\ fs \in [Paths -> Kinds] /\ target \in Paths
  BY DEF IInv, Shape
<1>7. Shape'
  <2>1. handles' \in Int /\ error' \in BOOLEAN
    BY <1>1, <1>6
  <2> QED
    BY <1>2, <1>5, <1>6, <2>1 DEF Shape, Walking
<1>8. ~error /\ handles = before + (Len(stack) - 1)
      /\ \A i \in 2 .. Len(stack) : stack[i].opened
  BY <1>2 DEF IInv, OpenOnes, Walking
<1>9. ASSUME ~error'
      PROVE  handles' = before' + Len(stack') /\ stack'[1].opened
  <2>1. answered /\ taken
    BY <1>1, <1>9
  <2>2. handles' = handles + 1
    BY <1>1, <2>1
  <2>3. stack'[1].opened
    BY <1>4, <1>5, <2>1, Zenon
  <2>4. before' = before /\ Len(stack') = Len(stack)
    BY <1>2, <1>5
  <2>5. \A h, b \in Int, n \in Nat : h = b + (n - 1) => h + 1 = b + n
    BY SMT
  <2> QED
    BY <1>3, <1>6, <1>8, <2>2, <2>3, <2>4, <2>5, Zenon
<1>10. \A i \in 2 .. Len(stack') : stack'[i].opened
  BY <1>5, <1>8
<1>11. OpenOnes'
  BY <1>2, <1>9, <1>10 DEF OpenOnes, Walking
<1>12. OnlyRemoves'
  BY <1>2 DEF IInv, OnlyRemoves, Walking
<1> QED
  BY <1>5, <1>7, <1>11, <1>12 DEF IInv

LEMMA NextEntryKeeps ==
  ASSUME IInv, NextEntry
  PROVE  IInv'
<1>1. pc = "entry" /\ UNCHANGED <<fs, handles, target, op, before, error>>
  BY DEF NextEntry, deviceVars, callVars
<1>2. /\ Top \in Calls /\ Top = stack[1] /\ Len(stack) \in Nat /\ Len(stack) >= 1
      /\ Top.path \in Paths
  BY <1>1, TopIs DEF IInv, Walking
<1>3. CASE /\ ~error
           /\ \E n \in Entries(Top.path) \ Top.seen :
                /\ entry' = n
                /\ pc' = IF Skips(n) \/ ListsNames THEN "entry" ELSE "stat"
                /\ SetTop([Passed(Top, n) EXCEPT
                             !.found = IF ListsNames /\ ~Skips(n)
                                         THEN @ \union {<<n>>} ELSE @])
  <2> DEFINE f(n) == [Passed(Top, n) EXCEPT !.found = IF ListsNames /\ ~Skips(n)
                                                    THEN @ \union {<<n>>} ELSE @]
  <2>1. PICK n \in Entries(Top.path) :
          /\ entry' = n
          /\ pc' = IF Skips(n) \/ ListsNames THEN "entry" ELSE "stat"
          /\ SetTop(f(n))
    BY <1>3
  <2>2. n \in Names /\ Under(Top.path, n) \in Paths
    BY <1>2, EntryIsPath
  <2>3. f(n) \in Calls /\ f(n).path = Top.path /\ f(n).opened = Top.opened
    <3> DEFINE g == Passed(Top, n)
               more == IF ListsNames /\ ~Skips(n) THEN g.found \union {<<n>>} ELSE g.found
    <3>1. g \in Calls /\ g.path = Top.path /\ g.opened = Top.opened
      BY <1>2, <2>2 DEF Passed, Calls
    <3>2. more \in SUBSET Seq(Names)
      <4>1. g.found \in SUBSET Seq(Names) /\ <<n>> \in Seq(Names)
        BY <2>2, <3>1 DEF Calls
      <4> QED
        BY <4>1
    <3>3. f(n) = [g EXCEPT !.found = more]
      OBVIOUS
    <3> HIDE DEF f, g, more
    <3> QED
      BY <3>1, <3>2, <3>3 DEF Calls
  <2> HIDE DEF f
  <2>4. /\ stack' \in Seq(Calls) /\ stack' # <<>> /\ Len(stack') = Len(stack)
        /\ stack'[1] = f(n) /\ Top' = f(n) /\ WithinTarget'
        /\ \A i \in 2 .. Len(stack) : stack'[i] = stack[i]
    BY <1>1, <2>1, <2>3, SetTopKeeps DEF Walking
  <2>5. pc' \in {"entry", "stat"} /\ error' = error /\ ~error
    BY <1>1, <1>3, <2>1
  <2>6. EntryPath(entry)' \in Paths /\ entry' \in Names
    BY <2>1, <2>2, <2>3, <2>4 DEF EntryPath
  <2>7. Shape'
    BY <1>1, <2>4, <2>5, <2>6 DEF IInv, Shape, Walking
  <2>8. /\ \A i \in 2 .. Len(stack) : stack[i].opened
        /\ stack[1].opened /\ handles = before + Len(stack)
    BY <1>1, <1>3 DEF IInv, OpenOnes, Walking
  <2>9. /\ \A i \in 2 .. Len(stack') : stack'[i].opened
        /\ stack'[1].opened /\ handles' = before' + Len(stack')
    BY <1>1, <1>2, <2>3, <2>4, <2>8
  <2>10. OpenOnes'
    BY <2>5, <2>9 DEF OpenOnes, Walking
  <2>11. OnlyRemoves'
    BY <1>1, <2>5 DEF IInv, OnlyRemoves, Walking
  <2> QED
    BY <2>4, <2>7, <2>10, <2>11 DEF IInv
<1>4. CASE pc' = "close" /\ UNCHANGED <<entry, stack>>
  <2>1. Shape' /\ WithinTarget' /\ OnlyRemoves'
    BY <1>1, <1>4 DEF IInv, Shape, WithinTarget, OnlyRemoves, Walking, Below
  <2>2. OpenOnes'
    BY <1>1, <1>4 DEF IInv, OpenOnes, Walking
  <2> QED
    BY <2>1, <2>2 DEF IInv
<1> QED
  BY <1>3, <1>4 DEF NextEntry

LEMMA StatKeeps ==
  ASSUME IInv, Stat
  PROVE  IInv'
<1>1. pc = "stat" /\ UNCHANGED <<fs, handles, target, op, before, entry>>
  BY DEF Stat, deviceVars, callVars
<1>2. /\ Top \in Calls /\ Top = stack[1] /\ Len(stack) \in Nat /\ Len(stack) >= 1
      /\ Top.path \in Paths
  BY <1>1, TopIs DEF IInv, Walking
<1>3. PICK ok \in BOOLEAN :
        /\ error' = ~ok
        /\ IF ok /\ IsDirectory(fs[EntryPath(entry)])
             THEN /\ pc' = "open"
                  /\ stack' = <<Frame(EntryPath(entry))>> \o stack
             ELSE IF op = "read"
             THEN /\ pc' = "entry"
                  /\ SetTop([Top EXCEPT !.found = @ \union {<<entry>>}])
             ELSE /\ pc' = IF ok THEN "unlink" ELSE "close"
                  /\ stack' = stack
  BY DEF Stat
<1>4. /\ entry \in Names /\ EntryPath(entry) \in Paths /\ ~error
      /\ stack \in Seq(Calls) /\ stack # <<>>
      /\ \A i \in 2 .. Len(stack) : stack[i].opened
      /\ stack[1].opened /\ handles = before + Len(stack)
  BY <1>1 DEF IInv, Shape, OpenOnes, Walking
<1>5. handles \in Int /\ before \in Int /\ target \in Paths /\ fs \in [Paths -> Kinds]
  BY DEF IInv, Shape
<1>6. error' \in BOOLEAN
  BY <1>3
<1>7. CASE pc' = "open" /\ stack' = <<Frame(EntryPath(entry))>> \o stack /\ ok
  <2>1. /\ Frame(EntryPath(entry)) \in Calls
        /\ Frame(EntryPath(entry)).path = EntryPath(entry)
    BY <1>4, FrameIs
  <2>2. /\ stack' \in Seq(Calls) /\ Len(stack') = Len(stack) + 1 /\ stack' # <<>>
        /\ stack'[1] = Frame(EntryPath(entry))
        /\ \A i \in 2 .. Len(stack) + 1 : stack'[i] = stack[i - 1]
    BY <1>4, <1>7, <2>1, Pushed
  <2>3. Shape'
    BY <1>1, <1>5, <1>6, <1>7, <2>2 DEF Shape, Walking
  <2>4. /\ EntryPath(entry) \in Below(target) /\ Len(EntryPath(entry)) > 0
    <3>1. stack[1].path \in Below(target)
      BY <1>2 DEF IInv, WithinTarget
    <3> QED
      BY <1>2, <1>4, <1>5, <3>1, EntryBelow DEF EntryPath
  <2>5. WithinTarget'
    <3> SUFFICES ASSUME NEW i \in 1 .. Len(stack')
                 PROVE  /\ stack'[i].path \in Below(target)
                        /\ i < Len(stack') => Len(stack'[i].path) > 0
      BY <1>1 DEF WithinTarget, Below
    <3>1. CASE i = 1
      BY <2>1, <2>2, <2>4, <3>1
    <3>2. CASE i # 1
      <4>1. i - 1 \in 1 .. Len(stack) /\ i \in 2 .. Len(stack) + 1
            /\ (i < Len(stack') => i - 1 < Len(stack))
        BY <1>2, <2>2, <3>2
      <4>2. stack'[i] = stack[i - 1]
        BY <2>2, <4>1
      <4>3. /\ stack[i - 1].path \in Below(target)
            /\ i - 1 < Len(stack) => Len(stack[i - 1].path) > 0
        BY <4>1 DEF IInv, WithinTarget
      <4> QED
        BY <4>1, <4>2, <4>3
    <3> QED
      BY <3>1, <3>2
  <2>6. \A i \in 2 .. Len(stack') : stack'[i].opened
    <3> SUFFICES ASSUME NEW i \in 2 .. Len(stack')
                 PROVE  stack'[i].opened
      OBVIOUS
    <3>1. i - 1 \in 1 .. Len(stack) /\ stack'[i] = stack[i - 1]
      BY <1>2, <2>2
    <3>2. stack[i - 1].opened
      <4>1. i - 1 = 1 \/ i - 1 \in 2 .. Len(stack)
        BY <1>2, <3>1
      <4> QED
        BY <1>4, <4>1
    <3> QED
      BY <3>1, <3>2
  <2>7. handles' = before' + (Len(stack') - 1)
    BY <1>1, <1>2, <1>4, <1>5, <2>2
  <2>8. OpenOnes'
    BY <1>3, <1>7, <2>6, <2>7 DEF OpenOnes, Walking
  <2>9. OnlyRemoves'
    BY <1>1, <1>7 DEF IInv, OnlyRemoves, Walking
  <2> QED
    BY <2>3, <2>5, <2>8, <2>9 DEF IInv
<1>8. CASE pc' = "entry" /\ SetTop([Top EXCEPT !.found = @ \union {<<entry>>}])
  <2> DEFINE f == [Top EXCEPT !.found = @ \union {<<entry>>}]
  <2>1. f \in Calls /\ f.path = Top.path /\ f.opened = Top.opened
    <3>1. Top.found \union {<<entry>>} \in SUBSET Seq(Names)
      <4>1. Top.found \in SUBSET Seq(Names) /\ <<entry>> \in Seq(Names)
        BY <1>2, <1>4 DEF Calls
      <4> QED
        BY <4>1
    <3> QED
      BY <1>2, <3>1 DEF Calls
  <2> HIDE DEF f
  <2>2. SetTop(f)
    BY <1>8 DEF f
  <2>3. /\ stack' \in Seq(Calls) /\ stack' # <<>> /\ Len(stack') = Len(stack)
        /\ stack'[1] = f /\ WithinTarget'
        /\ \A i \in 2 .. Len(stack) : stack'[i] = stack[i]
    BY <1>1, <2>1, <2>2, SetTopKeeps DEF Walking
  <2>4. Shape'
    BY <1>1, <1>5, <1>6, <1>8, <2>3 DEF Shape, Walking
  <2>5. /\ \A i \in 2 .. Len(stack') : stack'[i].opened
        /\ stack'[1].opened /\ handles' = before' + Len(stack')
    BY <1>1, <1>2, <1>4, <2>1, <2>3
  <2>6. OpenOnes'
    BY <1>8, <2>5 DEF OpenOnes, Walking
  <2>7. OnlyRemoves'
    BY <1>1, <1>8 DEF IInv, OnlyRemoves, Walking
  <2> QED
    BY <2>3, <2>4, <2>6, <2>7 DEF IInv
<1>9. CASE op # "read" /\ pc' = (IF ok THEN "unlink" ELSE "close") /\ stack' = stack
  <2>1. pc' \in {"unlink", "close"} /\ (pc' = "unlink" => ok)
    BY <1>9
  <2>2. EntryPath(entry)' = EntryPath(entry)
    BY <1>1, <1>9 DEF EntryPath, Top
  <2>3. Shape'
    BY <1>1, <1>4, <1>5, <1>6, <1>9, <2>1, <2>2 DEF Shape, Walking
  <2>4. WithinTarget'
    BY <1>1, <1>9 DEF IInv, WithinTarget, Below
  <2>5. OnlyRemoves'
    BY <1>1, <1>9, <2>1 DEF IInv, OnlyRemoves, Walking
  <2>6. OpenOnes'
    BY <1>1, <1>3, <1>4, <1>9, <2>1 DEF OpenOnes, Walking
  <2> QED
    BY <2>3, <2>4, <2>5, <2>6 DEF IInv
<1> QED
  BY <1>3, <1>7, <1>8, <1>9, Zenon

LEMMA UnlinkKeeps ==
  ASSUME IInv, Unlink
  PROVE  IInv'
<1>1. pc = "unlink" /\ UNCHANGED <<handles, target, op, before, entry, stack>>
  BY DEF Unlink, callVars
<1>2. PICK answered \in BOOLEAN :
        error' = ~answered /\ pc' = IF answered THEN "entry" ELSE "close"
  BY DEF Unlink
<1>3. pc' \in {"entry", "close"} /\ error' \in BOOLEAN
  BY <1>2
<1>4. fs' \in [Paths -> Kinds]
  BY DEF Unlink, IInv, Shape, Kinds
<1>5. Shape'
  BY <1>1, <1>3, <1>4 DEF IInv, Shape, Walking
<1>6. WithinTarget' /\ OnlyRemoves'
  BY <1>1, <1>3 DEF IInv, WithinTarget, Below, OnlyRemoves, Walking
<1>7. OpenOnes'
  BY <1>1, <1>3 DEF IInv, OpenOnes, Walking
<1> QED
  BY <1>5, <1>6, <1>7 DEF IInv

(* A call or a recursive call returns.                                      *)
LEMMA ReturnKeeps ==
  ASSUME IInv, pc \in {"close", "rmdir"}, Return, UNCHANGED <<target, op, before>>,
         fs' \in [Paths -> Kinds], handles' \in Int, error' \in BOOLEAN,
         error => error',
         ~error' => handles' = before + (Len(stack) - 1)
  PROVE  IInv'
<1>1. /\ Top \in Calls /\ Top = stack[1] /\ Len(stack) \in Nat /\ Len(stack) >= 1
      /\ stack \in Seq(Calls)
  BY TopIs DEF IInv, Walking, Shape
<1>2. before \in Int /\ target \in Paths
  BY DEF IInv, Shape
<1>3. ASSUME ~error
      PROVE  \A i \in 2 .. Len(stack) : stack[i].opened
  BY <1>3 DEF IInv, OpenOnes, Walking
<1>4. CASE Len(stack) = 1
  <2>1. pc' = "idle" /\ stack' = <<>>
    BY <1>4 DEF Return
  <2>2. stack' \in Seq(Calls) /\ Len(stack') = 0
    BY <2>1
  <2>3. pc' \notin Walking /\ pc' \notin {"open", "stat", "unlink", "rmdir"}
    BY <2>1 DEF Walking
  <2>4. Shape' /\ WithinTarget' /\ OnlyRemoves'
    BY <1>2, <2>2, <2>3 DEF Shape, WithinTarget, OnlyRemoves
  <2>5. ASSUME ~error'
        PROVE  handles' = before'
    <3>1. handles' = before + (Len(stack) - 1)
      BY <2>5
    <3> QED
      BY <1>2, <1>4, <3>1
  <2>6. OpenOnes'
    BY <2>3, <2>5 DEF OpenOnes
  <2> QED
    BY <2>4, <2>6 DEF IInv
<1>5. CASE Len(stack) # 1
  <2> DEFINE f == [stack[2] EXCEPT !.found = @ \union FoundUnder(Top)]
  <2>1. pc' = "entry" /\ stack' = <<f>> \o SubSeq(stack, 3, Len(stack))
    BY <1>5 DEF Return
  <2>2. Len(stack) > 1 /\ stack[2] \in Calls
    <3>1. \A k \in Nat : k >= 1 /\ k # 1 => k > 1 /\ 2 \in 1 .. k
      BY SMT
    <3>2. Len(stack) \in Nat /\ Len(stack) >= 1
      BY <1>1
    <3>3. Len(stack) > 1 /\ 2 \in 1 .. Len(stack)
      BY <3>1, <3>2, <1>5, Zenon
    <3>4. \A k \in 1 .. Len(stack) : stack[k] \in Calls
      BY <1>1
    <3> QED
      BY <3>3, <3>4, Zenon
  <2>3. FoundUnder(Top) \subseteq Seq(Names)
    <3>1. Top.path \in Seq(Names) /\ Len(Top.path) > 0
      BY <1>1, <2>2, PathsAre DEF IInv, WithinTarget, Calls
    <3>2. Top.path[Len(Top.path)] \in Names
      BY <3>1
    <3>3. Top.found \subseteq Seq(Names)
      BY <1>1 DEF Calls
    <3>4. \A q \in Seq(Names) : <<Top.path[Len(Top.path)]>> \o q \in Seq(Names)
      BY <3>2
    <3> QED
      BY <3>3, <3>4 DEF FoundUnder
  <2>4. f \in Calls /\ f.path = stack[2].path /\ f.opened = stack[2].opened
    <3>1. stack[2].found \union FoundUnder(Top) \in SUBSET Seq(Names)
      BY <2>2, <2>3 DEF Calls
    <3> QED
      BY <2>2, <3>1 DEF Calls
  <2> HIDE DEF f
  <2>5. /\ stack' \in Seq(Calls) /\ Len(stack') = Len(stack) - 1 /\ stack'[1] = f
        /\ stack' # <<>>
        /\ \A i \in 2 .. Len(stack) - 1 : stack'[i] = stack[i + 1]
    <3>1. stack \in Seq(Calls) /\ Len(stack) > 1 /\ f \in Calls
      BY <1>1, <2>2, <2>4
    <3>2. stack' = <<f>> \o SubSeq(stack, 3, Len(stack))
      BY <2>1
    <3>3. PoppedFrom(stack', stack, f)
      BY <3>1, <3>2, Popped, Zenon
    <3> QED
      BY <3>3, Zenon DEF PoppedFrom
  <2>6. Shape'
    BY <1>2, <2>1, <2>5 DEF Shape, Walking
  <2>7. \A i \in 1 .. Len(stack') : /\ stack'[i].path = stack[i + 1].path
                                   /\ stack'[i].opened = stack[i + 1].opened
                                   /\ i + 1 \in 2 .. Len(stack)
    <3> SUFFICES ASSUME NEW i \in 1 .. Len(stack')
                 PROVE  /\ stack'[i].path = stack[i + 1].path
                        /\ stack'[i].opened = stack[i + 1].opened
                        /\ i + 1 \in 2 .. Len(stack)
      OBVIOUS
    <3>1. i + 1 \in 2 .. Len(stack) /\ (i = 1 \/ i \in 2 .. Len(stack) - 1)
      BY <1>1, <2>5
    <3>2. CASE i = 1
      BY <2>4, <2>5, <3>1, <3>2
    <3>3. CASE i \in 2 .. Len(stack) - 1
      BY <2>5, <3>1, <3>3
    <3> QED
      BY <3>1, <3>2, <3>3
  <2>8. WithinTarget'
    <3> SUFFICES ASSUME NEW i \in 1 .. Len(stack')
                 PROVE  /\ stack'[i].path \in Below(target)
                        /\ i < Len(stack') => Len(stack'[i].path) > 0
      BY DEF WithinTarget, Below
    <3>1. /\ stack'[i].path = stack[i + 1].path /\ i + 1 \in 1 .. Len(stack)
          /\ i < Len(stack') => i + 1 < Len(stack)
      BY <1>1, <2>5, <2>7
    <3>2. /\ stack[i + 1].path \in Below(target)
          /\ i + 1 < Len(stack) => Len(stack[i + 1].path) > 0
      BY <3>1 DEF IInv, WithinTarget
    <3> QED
      BY <3>1, <3>2
  <2>9. ASSUME ~error'
        PROVE  /\ \A i \in 2 .. Len(stack') : stack'[i].opened
               /\ stack'[1].opened /\ handles' = before' + Len(stack')
    <3>1. \A i \in 1 .. Len(stack') : stack'[i].opened
      BY <1>3, <2>7, <2>9
    <3>2. Len(stack') \in Nat /\ Len(stack') >= 1
      BY <1>1, <2>2, <2>5
    <3>3. handles' = before + Len(stack')
      BY <2>5, <2>9
    <3> QED
      BY <3>1, <3>2, <3>3
  <2>10. OpenOnes'
    BY <2>1, <2>9 DEF OpenOnes, Walking
  <2>11. OnlyRemoves'
    BY <2>1 DEF IInv, OnlyRemoves, Walking
  <2> QED
    BY <2>6, <2>8, <2>10, <2>11 DEF IInv
<1> QED
  BY <1>4, <1>5

LEMMA CloseDirKeeps ==
  ASSUME IInv, CloseDir
  PROVE  IInv'
<1>1. pc = "close" /\ UNCHANGED <<fs, target, op, before, entry>>
  BY DEF CloseDir, callVars
<1>2. /\ Top = stack[1] /\ Len(stack) \in Nat /\ Len(stack) >= 1
      /\ handles \in Int /\ before \in Int /\ error \in BOOLEAN
      /\ fs \in [Paths -> Kinds]
  BY <1>1, TopIs DEF IInv, Walking, Shape
<1>3. ~error => Top.opened /\ handles = before + Len(stack)
  BY <1>1, <1>2 DEF IInv, OpenOnes, Walking
<1>4. /\ handles' \in Int /\ error' \in BOOLEAN /\ (error => error')
      /\ ~error' => handles' = before + (Len(stack) - 1)
  <2>1. CASE Top.opened /\ ~error
    <3>1. PICK taken \in BOOLEAN, answered \in BOOLEAN :
            /\ answered => taken
            /\ handles' = IF taken THEN handles - 1 ELSE handles
            /\ error' = ~answered
      BY <2>1 DEF CloseDir, Closes
    <3>2. error' \in BOOLEAN /\ (error' \/ taken)
      BY <3>1
    <3>3. handles' \in Int
      BY <1>2, <3>1
    <3>4. ~error' => handles' = before + (Len(stack) - 1)
      <4>1. ~error' => handles' = handles - 1
        BY <3>1, <3>2, Zenon
      <4>2. handles = before + Len(stack)
        BY <1>3, <2>1
      <4> QED
        BY <1>2, <4>1, <4>2
    <3> QED
      BY <2>1, <3>2, <3>3, <3>4
  <2>2. CASE ~(Top.opened /\ ~error)
    <3>1. UNCHANGED <<handles, error>>
      BY <2>2 DEF CloseDir, Closes
    <3> QED
      BY <1>2, <1>3, <2>2, <3>1
  <2> QED
    BY <2>1, <2>2
<1>5. CASE op = "remove"
  <2>1. pc' = "rmdir" /\ UNCHANGED stack
    BY <1>5 DEF CloseDir
  <2>2. Shape' /\ WithinTarget'
    BY <1>1, <1>4, <2>1 DEF IInv, Shape, WithinTarget, Below, Walking
  <2>3. OnlyRemoves'
    BY <1>1, <1>5 DEF OnlyRemoves
  <2>4. ~error' => \A i \in 2 .. Len(stack) : stack[i].opened
    BY <1>1, <1>4 DEF IInv, OpenOnes, Walking
  <2>5. OpenOnes'
    BY <1>1, <1>4, <2>1, <2>4 DEF OpenOnes, Walking
  <2> QED
    BY <2>2, <2>3, <2>5 DEF IInv
<1>6. CASE op # "remove"
  <2>1. Return
    BY <1>6 DEF CloseDir
  <2> QED
    BY <1>1, <1>2, <1>4, <2>1, ReturnKeeps
<1> QED
  BY <1>5, <1>6

LEMMA RmdirKeeps ==
  ASSUME IInv, Rmdir
  PROVE  IInv'
<1>1. pc = "rmdir" /\ Return /\ UNCHANGED <<handles, target, op, before>>
  BY DEF Rmdir, callVars
<1>2. handles \in Int /\ error \in BOOLEAN /\ fs \in [Paths -> Kinds]
  BY DEF IInv, Shape
<1>3. fs' \in [Paths -> Kinds]
  BY <1>2 DEF Rmdir, Kinds
<1>4. error' \in BOOLEAN /\ (error => error')
  BY <1>2 DEF Rmdir
<1>5. ~error => handles = before + (Len(stack) - 1)
  BY <1>1 DEF IInv, OpenOnes, Walking
<1> QED
  BY <1>1, <1>2, <1>3, <1>4, <1>5, ReturnKeeps

(* create_directory opens nothing, and a program on the device changes      *)
(* nothing but the tree.                                                    *)
LEMMA OthersKeep ==
  ASSUME IInv, Exists \/ Mkdir \/ Change \/ UNCHANGED vars
  PROVE  IInv'
<1>1. CASE Exists \/ Mkdir
  <2>1. /\ pc \in {"exists", "mkdir"} /\ pc' \in {"idle", "exists", "mkdir"}
        /\ UNCHANGED <<handles, target, op, before, stack>>
    BY <1>1 DEF Exists, Mkdir, deviceVars, callVars
  <2>2. error' \in BOOLEAN /\ (error => error')
    BY <1>1 DEF Exists, Mkdir, IInv, Shape
  <2>3. fs' \in [Paths -> Kinds]
    BY <1>1 DEF Exists, Mkdir, deviceVars, IInv, Shape, Kinds
  <2>4. pc \notin Walking /\ pc' \notin Walking
        /\ pc' \notin {"open", "stat", "unlink", "rmdir"}
    BY <2>1 DEF Walking
  <2>5. Shape' /\ WithinTarget' /\ OnlyRemoves'
    BY <2>1, <2>2, <2>3, <2>4 DEF IInv, Shape, WithinTarget, Below, OnlyRemoves
  <2>6. OpenOnes'
    BY <2>1, <2>2, <2>4 DEF IInv, OpenOnes
  <2> QED
    BY <2>5, <2>6 DEF IInv
<1>2. CASE Change \/ UNCHANGED vars
  <2>1. UNCHANGED <<handles, target, op, before, stack, pc, entry, error>>
    BY <1>2 DEF Change, vars, deviceVars, callVars
  <2>2. fs' \in [Paths -> Kinds]
    BY <1>2 DEF Change, vars, deviceVars, IInv, Shape
  <2>3. EntryPath(entry)' = EntryPath(entry)
    BY <2>1 DEF EntryPath, Top
  <2>4. Shape' /\ WithinTarget' /\ OnlyRemoves' /\ OpenOnes'
    BY <2>1, <2>2, <2>3 DEF IInv, Shape, WithinTarget, Below, OnlyRemoves, OpenOnes
  <2> QED
    BY <2>4 DEF IInv
<1> QED
  BY <1>1, <1>2

-----------------------------------------------------------------------------
Counted == changes \in Int

LEMMA CountKept ==
  /\ Init => Counted
  /\ Counted /\ [Next]_vars => Counted'
<1>1. Init => Counted
  BY DEF Init, Counted
<1>2. ASSUME Counted, [Next]_vars
      PROVE  changes' = changes \/ changes' = changes + 1
  <2>1. CASE Call
    BY <2>1 DEF Call
  <2>2. CASE HostStep
    BY <2>2 DEF HostStep, OpenDir, NextEntry, Stat, Unlink, CloseDir, Rmdir, Exists, Mkdir
  <2>3. CASE Change
    BY <2>3 DEF Change
  <2>4. CASE UNCHANGED vars
    BY <2>4 DEF vars
  <2> QED
    BY <1>2, <2>1, <2>2, <2>3, <2>4 DEF Next
<1>3. ASSUME Counted, [Next]_vars
      PROVE  Counted'
  BY <1>2, <1>3 DEF Counted
<1> QED
  BY <1>1, <1>3

LEMMA StepKeeps == IInv /\ [Next]_vars => IInv'
BY CallKeeps, OpenDirKeeps, NextEntryKeeps, StatKeeps, UnlinkKeeps, CloseDirKeeps,
   RmdirKeeps, OthersKeep
   DEF Next, HostStep

(* The entry that is unlinked, and the directory that is removed, is the    *)
(* target or below it.                                                      *)
LEMMA StepRemovesOnlyTarget ==
  IInv /\ Counted /\ [Next]_vars
    => (changes' = changes =>
          \A p \in Paths : fs[p] # "none" /\ fs'[p] = "none"
                             => op = "remove" /\ p \in Below(target))
<1> SUFFICES ASSUME IInv, Counted, [Next]_vars, changes' = changes,
                    NEW p \in Paths, fs[p] # "none", fs'[p] = "none"
             PROVE  op = "remove" /\ p \in Below(target)
  OBVIOUS
<1>1. ~Change
  <2>1. changes \in Int /\ changes' # changes + 1
    BY DEF Counted
  <2> QED
    BY <2>1 DEF Change
<1>2. CASE Unlink
  <2>1. pc = "unlink" /\ p = EntryPath(entry)
    BY <1>2 DEF Unlink, IInv, Shape
  <2>2. op = "remove" /\ entry \in Names /\ EntryPath(entry) \in Paths /\ target \in Paths
    BY <2>1 DEF IInv, OnlyRemoves, Shape
  <2>3. Top.path \in Below(target)
    <3>1. Top = stack[1] /\ 1 \in 1 .. Len(stack)
      BY <2>1, TopIs DEF IInv, Walking
    <3> QED
      BY <3>1 DEF IInv, WithinTarget
  <2> QED
    BY <2>1, <2>2, <2>3, EntryBelow DEF EntryPath
<1>3. CASE Rmdir
  <2>1. pc = "rmdir" /\ p = Top.path
    BY <1>3 DEF Rmdir, IInv, Shape
  <2>2. Top = stack[1] /\ 1 \in 1 .. Len(stack)
    BY <2>1, TopIs DEF IInv, Walking
  <2> QED
    BY <2>1, <2>2 DEF IInv, OnlyRemoves, WithinTarget
<1>4. CASE Mkdir
  BY <1>4 DEF Mkdir, IInv, Shape
<1>5. CASE UNCHANGED fs
  BY <1>5
<1>6. CASE Call
  BY <1>5, <1>6 DEF Call, deviceVars
<1>7. CASE OpenDir \/ CloseDir
  BY <1>5, <1>7 DEF OpenDir, CloseDir
<1>8. CASE NextEntry \/ Stat \/ Exists
  BY <1>5, <1>8 DEF NextEntry, Stat, Exists, deviceVars
<1>9. CASE UNCHANGED vars
  BY <1>5, <1>9 DEF vars, deviceVars
<1> QED
  BY <1>1, <1>2, <1>3, <1>4, <1>6, <1>7, <1>8, <1>9 DEF Next, HostStep

-----------------------------------------------------------------------------
(* What a call has found and done.                                          *)
LastName(p) == p[Len(p)]

Part(p, names) == {q \in Listed(p) : q[1] \in names}

WasThere(held, filesOnly, p) ==
  \E kind \in {"file", "dir"} : <<p, kind>> \in held /\ (filesOnly => kind = "file")

Was(p) == WasThere(existed, recursive, p)

(* Each directory of the stack is an entry of the one it was walked into    *)
(* from, and the first is the target.                                       *)
Chain ==
  pc \in Walking =>
    /\ stack[Len(stack)].path = target
    /\ \A i \in 2 .. Len(stack) :
         stack[i - 1].path = Under(stack[i].path, LastName(stack[i - 1].path))

(* Whatever the device changes, what was found was there.                   *)
AllWereThere == \A i \in 1 .. Len(stack) :
                  \A q \in stack[i].found : Was(stack[i].path \o q)

FoundWasThere ==
  op = "read" /\ pc \in Walking =>
    /\ Holds(fs) \subseteq existed
    /\ ~error => AllWereThere

-----------------------------------------------------------------------------
(* Paths and trees.                                                         *)
LEMMA PartOfPath ==
  ASSUME NEW p \in Paths, NEW n \in 0 .. Len(p)
  PROVE  /\ SubSeq(p, 1, n) \in Paths /\ Len(SubSeq(p, 1, n)) = n
         /\ \A i \in 1 .. n : SubSeq(p, 1, n)[i] = p[i]
<1>1. p \in Seq(Names) /\ Len(p) <= Depth /\ Len(p) \in Nat /\ Depth \in Nat
  BY PathsAre, FsAssumption
<1>2. \A i \in 1 .. n : i \in 1 .. Len(p) /\ 1 + i - 1 = i
  BY <1>1
<1>3. \A i \in 1 .. n : p[i] \in Names
  BY <1>1, <1>2
<1>4. /\ SubSeq(p, 1, n) \in Seq(Names)
      /\ Len(SubSeq(p, 1, n)) = (IF 1 <= n THEN n - 1 + 1 ELSE 0)
      /\ \A i \in 1 .. n - 1 + 1 : SubSeq(p, 1, n)[i] = p[1 + i - 1]
  BY <1>1, <1>3, SubSeqProperties
<1>5. n - 1 + 1 = n /\ (~(1 <= n) => n = 0) /\ n <= Depth
  BY <1>1
<1>6. Len(SubSeq(p, 1, n)) = n /\ \A i \in 1 .. n : SubSeq(p, 1, n)[i] = p[i]
  BY <1>2, <1>4, <1>5
<1> QED
  BY <1>4, <1>5, <1>6, PathsAre

LEMMA SamePath ==
  ASSUME NEW p \in Seq(Names), NEW q \in Seq(Names), Len(p) = Len(q),
         \A i \in 1 .. Len(p) : p[i] = q[i]
  PROVE  p = q
BY SeqEqual

(* An entry of a directory, and what is below it.                           *)
LEMMA UnderIs ==
  ASSUME NEW p \in Seq(Names), NEW n \in Names
  PROVE  /\ Under(p, n) \in Seq(Names) /\ Len(Under(p, n)) = Len(p) + 1
         /\ LastName(Under(p, n)) = n /\ Under(p, n) = p \o <<n>>
         /\ \A q \in Seq(Names) : Under(p, n) \o q = p \o (<<n>> \o q)
<1>1. /\ Under(p, n) \in Seq(Names) /\ Len(Under(p, n)) = Len(p) + 1
      /\ Under(p, n)[Len(p) + 1] = n
  BY DEF Under
<1>2. Under(p, n) = p \o <<n>> /\ <<n>> \in Seq(Names)
  BY AppendIsConcat DEF Under
<1>3. \A q \in Seq(Names) : Under(p, n) \o q = p \o (<<n>> \o q)
  BY <1>2, ConcatAssociative
<1> QED
  BY <1>1, <1>2, <1>3 DEF LastName

LEMMA FirstName ==
  ASSUME NEW q \in Seq(Names), q # <<>>
  PROVE  /\ q[1] \in Names /\ Tail(q) \in Seq(Names) /\ q = <<q[1]>> \o Tail(q)
         /\ Len(q) = Len(Tail(q)) + 1
         /\ \A i \in 1 .. Len(Tail(q)) : Tail(q)[i] = q[i + 1]
<1>1. /\ Len(q) \in Nat \ {0} /\ q[1] \in Names /\ Tail(q) \in Seq(Names)
      /\ Len(Tail(q)) = Len(q) - 1
      /\ \A i \in 1 .. Len(Tail(q)) : Tail(q)[i] = q[i + 1]
  BY EmptySeq, HeadTailProperties, ElementOfSeq
<1>2. Len(q) = Len(Tail(q)) + 1 /\ Len(Tail(q)) \in Nat
  BY <1>1
<1>3. /\ <<q[1]>> \in Seq(Names) /\ Len(<<q[1]>>) = 1 /\ <<q[1]>>[1] = q[1]
  BY <1>1
<1>4. /\ <<q[1]>> \o Tail(q) \in Seq(Names) /\ Len(<<q[1]>> \o Tail(q)) = 1 + Len(Tail(q))
      /\ \A i \in 1 .. 1 + Len(Tail(q)) :
           (<<q[1]>> \o Tail(q))[i] = IF i <= 1 THEN <<q[1]>>[i] ELSE Tail(q)[i - 1]
  BY <1>1, <1>3, ConcatProperties
<1>5. ASSUME NEW i \in 1 .. Len(q)
      PROVE  q[i] = (<<q[1]>> \o Tail(q))[i]
  <2>1. CASE i <= 1
    BY <1>2, <1>3, <1>4, <2>1
  <2>2. CASE ~(i <= 1)
    <3>1. i - 1 \in 1 .. Len(Tail(q)) /\ i - 1 + 1 = i /\ i \in 1 .. 1 + Len(Tail(q))
      BY <1>2, <2>2
    <3> QED
      BY <1>1, <1>4, <2>2, <3>1
  <2> QED
    BY <2>1, <2>2
<1>6. q = <<q[1]>> \o Tail(q)
  BY <1>2, <1>4, <1>5, SamePath
<1> QED
  BY <1>1, <1>2, <1>6

LEMMA Joined ==
  ASSUME NEW p \in Seq(Names), NEW n \in Names, NEW r \in Seq(Names)
  PROVE  /\ <<n>> \o r \in Seq(Names) /\ <<n>> \o r # <<>> /\ (<<n>> \o r)[1] = n
         /\ Len(<<n>> \o r) = Len(r) + 1
         /\ \A i \in 1 .. Len(r) : (<<n>> \o r)[i + 1] = r[i]
         /\ p \o (<<n>> \o r) \in Seq(Names)
         /\ Len(p \o (<<n>> \o r)) = Len(p) + 1 + Len(r)
         /\ SubSeq(p \o (<<n>> \o r), 1, Len(p) + 1) = Under(p, n)
<1>1. Len(p) \in Nat /\ Len(r) \in Nat /\ <<n>> \in Seq(Names) /\ Len(<<n>>) = 1 /\ <<n>>[1] = n
  OBVIOUS
<1>2. /\ <<n>> \o r \in Seq(Names) /\ Len(<<n>> \o r) = 1 + Len(r)
      /\ \A i \in 1 .. 1 + Len(r) :
           (<<n>> \o r)[i] = IF i <= 1 THEN <<n>>[i] ELSE r[i - 1]
  BY <1>1, ConcatProperties
<1>3. /\ Len(<<n>> \o r) = Len(r) + 1 /\ (<<n>> \o r)[1] = n /\ <<n>> \o r # <<>>
      /\ \A i \in 1 .. Len(r) : (<<n>> \o r)[i + 1] = r[i]
  <2>1. 1 \in 1 .. 1 + Len(r) /\ 1 + Len(r) # 0
    BY <1>1
  <2>2. \A i \in 1 .. Len(r) : i + 1 \in 1 .. 1 + Len(r) /\ ~(i + 1 <= 1) /\ i + 1 - 1 = i
    BY <1>1
  <2>3. Len(<<>>) = 0
    OBVIOUS
  <2> QED
    BY <1>1, <1>2, <2>1, <2>2, <2>3
<1> DEFINE w == p \o (<<n>> \o r)
<1>4. /\ w \in Seq(Names) /\ Len(w) = Len(p) + (1 + Len(r))
      /\ \A i \in 1 .. Len(p) + (1 + Len(r)) :
           w[i] = IF i <= Len(p) THEN p[i] ELSE (<<n>> \o r)[i - Len(p)]
  BY <1>2, ConcatProperties
<1> HIDE DEF w
<1>5. /\ Under(p, n) \in Seq(Names) /\ Len(Under(p, n)) = Len(p) + 1
      /\ \A i \in 1 .. Len(p) + 1 : Under(p, n)[i] = IF i <= Len(p) THEN p[i] ELSE n
  BY <1>1 DEF Under
<1>6. \A i \in 1 .. Len(p) + 1 :
        /\ i \in 1 .. Len(p) + (1 + Len(r)) /\ 1 + i - 1 = i
        /\ ~(i <= Len(p)) => i - Len(p) = 1
  <2>1. \A a, b \in Nat : \A i \in 1 .. a + 1 :
          /\ i \in 1 .. a + (1 + b) /\ 1 + i - 1 = i
          /\ ~(i <= a) => i - a = 1
    BY SMT
  <2> QED
    BY <1>1, <2>1, Zenon
<1>7. \A i \in 1 .. Len(p) + 1 : w[i] = Under(p, n)[i] /\ w[i] \in Names
  <2> SUFFICES ASSUME NEW i \in 1 .. Len(p) + 1
               PROVE  w[i] = Under(p, n)[i] /\ w[i] \in Names
    OBVIOUS
  <2>1. w[i] = IF i <= Len(p) THEN p[i] ELSE (<<n>> \o r)[i - Len(p)]
    BY <1>4, <1>6
  <2>2. Under(p, n)[i] = IF i <= Len(p) THEN p[i] ELSE n
    BY <1>5
  <2>3. CASE i <= Len(p)
    <3>1. i \in 1 .. Len(p)
      BY <1>1, <2>3
    <3>2. p[i] \in Names
      BY <3>1
    <3> QED
      BY <2>1, <2>2, <2>3, <3>2
  <2>4. CASE ~(i <= Len(p))
    <3>1. i - Len(p) = 1
      BY <1>6, <2>4
    <3> QED
      BY <1>3, <2>1, <2>2, <2>4, <3>1
  <2> QED
    BY <2>3, <2>4
<1>8. /\ SubSeq(w, 1, Len(p) + 1) \in Seq(Names)
      /\ Len(SubSeq(w, 1, Len(p) + 1)) = Len(p) + 1
      /\ \A i \in 1 .. Len(p) + 1 : SubSeq(w, 1, Len(p) + 1)[i] = w[i]
  <2>1. /\ Len(p) + 1 \in Int /\ 1 <= Len(p) + 1 /\ Len(p) + 1 - 1 + 1 = Len(p) + 1
    BY <1>1
  <2>2. /\ SubSeq(w, 1, Len(p) + 1) \in Seq(Names)
        /\ Len(SubSeq(w, 1, Len(p) + 1)) = (IF 1 <= Len(p) + 1 THEN Len(p) + 1 - 1 + 1 ELSE 0)
        /\ \A i \in 1 .. Len(p) + 1 - 1 + 1 : SubSeq(w, 1, Len(p) + 1)[i] = w[1 + i - 1]
    BY <1>7, <2>1, SubSeqProperties
  <2> QED
    BY <1>6, <2>1, <2>2
<1>9. SubSeq(w, 1, Len(p) + 1) = Under(p, n)
  BY <1>5, <1>7, <1>8, SamePath
<1>10. Len(w) = Len(p) + 1 + Len(r)
  BY <1>1, <1>4
<1> QED
  BY <1>2, <1>3, <1>4, <1>9, <1>10 DEF w

LEMMA TreeKept ==
  ASSUME IInv, Tree(fs), [Next]_vars
  PROVE  Tree(fs')
<1>1. fs \in [Paths -> Kinds]
  BY DEF IInv, Shape
<1> SUFFICES ASSUME fs' # fs, ~Change, NEW p \in Paths, fs'[p] # "none",
                    NEW n \in 0 .. Len(p) - 1
             PROVE  fs'[SubSeq(p, 1, n)] = "dir"
  BY DEF Tree, Change
<1>2. /\ SubSeq(p, 1, n) \in Paths /\ Len(SubSeq(p, 1, n)) = n /\ n < Len(p)
      /\ Len(p) \in Nat /\ p \in Seq(Names) /\ Len(p) <= Depth /\ Depth \in Nat
  BY PathsAre, PartOfPath, FsAssumption
<1>3. fs[p] # "none" => fs[SubSeq(p, 1, n)] = "dir"
  BY DEF Tree
<1>4. CASE Unlink
  BY <1>1, <1>2, <1>3, <1>4 DEF Unlink
<1>5. CASE Rmdir
  <2>1. fs' = [fs EXCEPT ![Top.path] = "none"] /\ Entries(Top.path) = {}
    BY <1>5 DEF Rmdir
  <2>2. Top.path \in Paths
    BY <1>5, TopIs DEF Rmdir, IInv, Walking
  <2>3. p # Top.path /\ fs[p] # "none"
    BY <1>1, <2>1
  <2>4. ASSUME SubSeq(p, 1, n) = Top.path
        PROVE  FALSE
    <3>1. Len(Top.path) = n /\ Top.path \in Seq(Names)
      BY <1>2, <2>4, PathsAre
    <3>2. n + 1 \in 1 .. Len(p) /\ n + 1 \in 0 .. Len(p) /\ p[n + 1] \in Names
      BY <1>2
    <3>3. /\ SubSeq(p, 1, n + 1) \in Paths /\ Len(SubSeq(p, 1, n + 1)) = n + 1
          /\ \A i \in 1 .. n + 1 : SubSeq(p, 1, n + 1)[i] = p[i]
      BY <3>2, PartOfPath
    <3>4. /\ Under(Top.path, p[n + 1]) \in Seq(Names) /\ Len(Under(Top.path, p[n + 1])) = n + 1
          /\ \A i \in 1 .. n + 1 : Under(Top.path, p[n + 1])[i]
                                     = IF i <= n THEN Top.path[i] ELSE p[n + 1]
      BY <3>1, <3>2 DEF Under
    <3>5. \A i \in 1 .. n : Top.path[i] = p[i]
      BY <1>2, <2>4, PartOfPath
    <3>6. \A i \in 1 .. n + 1 : Under(Top.path, p[n + 1])[i] = SubSeq(p, 1, n + 1)[i]
      <4>1. \A i \in 1 .. n + 1 : (i <= n => i \in 1 .. n) /\ (~(i <= n) => i = n + 1)
        BY <1>2
      <4> QED
        BY <3>3, <3>4, <3>5, <4>1
    <3>7. Under(Top.path, p[n + 1]) = SubSeq(p, 1, n + 1)
      <4>1. SubSeq(p, 1, n + 1) \in Seq(Names)
        BY <3>3, PathsAre
      <4> QED
        BY <3>3, <3>4, <3>6, <4>1, SamePath
    <3>8. fs[SubSeq(p, 1, n + 1)] # "none"
      <4>1. CASE n + 1 = Len(p)
        <5>1. SubSeq(p, 1, Len(p)) = p
          BY <1>2, SubSeqFull
        <5> QED
          BY <2>3, <4>1, <5>1
      <4>2. CASE n + 1 # Len(p)
        <5>1. n + 1 \in 0 .. Len(p) - 1
          BY <1>2, <4>2
        <5> QED
          BY <2>3, <5>1 DEF Tree
      <4> QED
        BY <4>1, <4>2
    <3>9. p[n + 1] \in Entries(Top.path)
      <4>1. Len(Top.path) # Depth
        BY <1>2, <3>1
      <4>2. fs[Under(Top.path, p[n + 1])] # "none"
        BY <3>7, <3>8, Zenon
      <4> QED
        BY <3>2, <4>1, <4>2, Zenon DEF Entries
    <3> QED
      BY <2>1, <3>9
  <2> QED
    BY <1>1, <1>2, <1>3, <2>1, <2>3, <2>4
<1>6. CASE Mkdir
  <2>1. /\ fs' = [fs EXCEPT ![Prefix] = "dir"] /\ fs[Prefix] = "none"
        /\ Prefix # <<>> => fs[Parent(Prefix)] = "dir"
    BY <1>6 DEF Mkdir
  <2>2. ASSUME NEW q \in Paths, fs[q] = "dir"
        PROVE  fs'[q] = "dir"
    BY <1>1, <2>1, <2>2
  <2>3. CASE p # Prefix
    BY <1>1, <1>2, <1>3, <2>1, <2>2, <2>3
  <2>4. CASE p = Prefix
    <3>1. Len(p) > 0 /\ p # <<>> /\ Len(p) - 1 \in 0 .. Len(p)
      BY <1>2
    <3>2. fs[Parent(p)] = "dir" /\ Parent(p) \in Paths /\ Len(Parent(p)) = Len(p) - 1
          /\ \A i \in 1 .. Len(p) - 1 : Parent(p)[i] = p[i]
      BY <2>1, <2>4, <3>1, PartOfPath DEF Parent
    <3>3. CASE n = Len(p) - 1
      BY <2>2, <3>2, <3>3 DEF Parent
    <3>4. CASE n # Len(p) - 1
      <4>1. n \in 0 .. Len(Parent(p)) - 1 /\ n \in 0 .. Len(Parent(p)) /\ n \in 0 .. Len(p)
            /\ \A i \in 1 .. n : i \in 1 .. Len(p) - 1
        BY <1>2, <3>2, <3>4
      <4>2. fs[SubSeq(Parent(p), 1, n)] = "dir"
        BY <3>2, <4>1 DEF Tree
      <4>3. SubSeq(Parent(p), 1, n) \in Seq(Names) /\ Len(SubSeq(Parent(p), 1, n)) = n
            /\ \A i \in 1 .. n : SubSeq(Parent(p), 1, n)[i] = Parent(p)[i]
        BY <3>2, <4>1, PartOfPath, PathsAre
      <4>4. SubSeq(p, 1, n) \in Seq(Names) /\ \A i \in 1 .. n : SubSeq(p, 1, n)[i] = p[i]
        BY <1>2, <4>1, PartOfPath, PathsAre
      <4>5. SubSeq(Parent(p), 1, n) = SubSeq(p, 1, n)
        BY <1>2, <3>2, <4>1, <4>3, <4>4, SamePath
      <4> QED
        BY <1>2, <2>2, <4>2, <4>5
    <3> QED
      BY <3>3, <3>4
  <2> QED
    BY <2>3, <2>4
<1> QED
  BY <1>4, <1>5, <1>6
     DEF Next, HostStep, vars, deviceVars, Call, OpenDir, NextEntry, Stat, CloseDir, Exists

-----------------------------------------------------------------------------
(* What is listed of a directory, entry by entry.                           *)
LEMMA ListedThere ==
  ASSUME Tree(fs), NEW p \in Paths, NEW q \in Listed(p)
  PROVE  /\ q[1] \in Entries(p) /\ q[1] \notin Excluded
         /\ q = <<q[1]>> \o Tail(q) /\ Tail(q) \in Paths
         /\ Under(p, q[1]) \in Paths /\ p \o q = Under(p, q[1]) \o Tail(q)
         /\ Tail(q) = <<>> => q = <<q[1]>> /\ p \o q = Under(p, q[1])
         /\ Tail(q) # <<>> => fs[Under(p, q[1])] = "dir"
<1> DEFINE n == q[1]
           r == Tail(q)
<1>1. /\ q \in Paths /\ p \o q \in Paths /\ q # <<>> /\ fs[p \o q] # "none"
      /\ \A i \in DOMAIN q : q[i] \notin Excluded
  BY DEF Listed
<1>2. /\ p \in Seq(Names) /\ q \in Seq(Names) /\ Len(q) <= Depth /\ Len(p \o q) <= Depth
      /\ Depth \in Nat
  BY <1>1, PathsAre, FsAssumption
<1>3. /\ n \in Names /\ r \in Seq(Names) /\ q = <<n>> \o r /\ Len(q) = Len(r) + 1
  BY <1>1, <1>2, FirstName
<1>4. Len(p) \in Nat /\ Len(r) \in Nat
  BY <1>2, <1>3, LenProperties
<1>5. r \in Paths
  <2>1. Len(r) <= Depth
    BY <1>2, <1>3, <1>4
  <2> QED
    BY <1>3, <2>1, PathsAre
<1>6. n \notin Excluded
  <2>1. DOMAIN q = 1 .. Len(q) /\ 1 \in 1 .. Len(q)
    BY <1>2, <1>3, <1>4, LenProperties
  <2> QED
    BY <1>1, <2>1
<1>7. Under(p, n) \o r = p \o q /\ Under(p, n) \in Seq(Names)
  <2>1. \A t \in Seq(Names) : Under(p, n) \o t = p \o (<<n>> \o t)
    BY <1>2, <1>3, UnderIs
  <2>2. Under(p, n) \o r = p \o (<<n>> \o r)
    BY <1>3, <2>1, Zenon
  <2> QED
    BY <1>2, <1>3, <2>2, UnderIs
<1>8. /\ Len(p \o q) = Len(p) + 1 + Len(r)
      /\ SubSeq(p \o q, 1, Len(p) + 1) = Under(p, n)
  BY <1>2, <1>3, Joined
<1>9. Len(p) + 1 \in 0 .. Len(p \o q) /\ Len(p) # Depth
  <2>1. \A a, b, d \in Nat : /\ a + 1 \in 0 .. a + 1 + b
                             /\ a + 1 + b <= d => a # d
    BY SMT
  <2> QED
    BY <1>2, <1>4, <1>8, <2>1, Zenon
<1>10. Under(p, n) \in Paths
  BY <1>1, <1>8, <1>9, PartOfPath
<1>11. ASSUME r = <<>>
       PROVE  q = <<n>> /\ p \o q = Under(p, n)
  <2>1. <<n>> \in Seq(Names)
    BY <1>3
  <2> QED
    BY <1>3, <1>7, <1>11, <2>1, ConcatEmptySeq
<1>12. ASSUME r # <<>>
       PROVE  fs[Under(p, n)] = "dir"
  <2>1. Len(r) \in Nat \ {0}
    BY <1>3, <1>12, EmptySeq
  <2>2. Len(p) + 1 \in 0 .. Len(p \o q) - 1
    <3>1. \A a \in Nat, b \in Nat \ {0} : a + 1 \in 0 .. (a + 1 + b) - 1
      BY SMT
    <3> QED
      BY <1>4, <1>8, <2>1, <3>1, Zenon
  <2> QED
    BY <1>1, <1>8, <2>2 DEF Tree
<1>13. n \in Entries(p)
  <2>1. fs[Under(p, n)] # "none"
    BY <1>1, <1>11, <1>12
  <2> QED
    BY <1>3, <1>9, <2>1 DEF Entries
<1> QED
  BY <1>3, <1>5, <1>6, <1>7, <1>10, <1>11, <1>12, <1>13

LEMMA ListedUnder ==
  ASSUME recursive, NEW p \in Paths, NEW n \in Names \ Excluded, Under(p, n) \in Paths,
         NEW r \in Listed(Under(p, n))
  PROVE  <<n>> \o r \in Part(p, {n})
<1> DEFINE q == <<n>> \o r
<1>1. /\ r \in Paths /\ Under(p, n) \o r \in Paths /\ fs[Under(p, n) \o r] = "file"
      /\ \A i \in DOMAIN r : r[i] \notin Excluded
  BY DEF Listed
<1>2. p \in Seq(Names) /\ r \in Seq(Names)
  BY <1>1, PathsAre
<1>3. Under(p, n) \o r = p \o q
  BY <1>2, UnderIs
<1>4. /\ q \in Seq(Names) /\ q # <<>> /\ q[1] = n /\ Len(q) = Len(r) + 1
      /\ \A i \in 1 .. Len(r) : q[i + 1] = r[i]
      /\ Len(p \o q) = Len(p) + 1 + Len(r)
  BY <1>2, Joined
<1>5. Len(p) \in Nat /\ Len(r) \in Nat /\ DOMAIN r = 1 .. Len(r) /\ DOMAIN q = 1 .. Len(q)
  BY <1>2, <1>4, LenProperties
<1> HIDE DEF q
<1>6. q \in Paths
  <2>1. Len(p \o q) <= Depth /\ Depth \in Nat
    BY <1>1, <1>3, PathsAre, FsAssumption
  <2>2. Len(q) <= Depth
    BY <1>4, <1>5, <2>1
  <2> QED
    BY <1>4, <2>2, PathsAre
<1>7. ASSUME NEW i \in DOMAIN q
      PROVE  q[i] \notin Excluded
  <2>1. CASE i = 1
    BY <1>4, <2>1
  <2>2. CASE i # 1
    <3>1. i - 1 \in 1 .. Len(r) /\ i - 1 + 1 = i
      BY <1>4, <1>5, <2>2
    <3>2. q[i] = r[i - 1]
      BY <1>4, <3>1
    <3> QED
      BY <1>1, <1>5, <3>1, <3>2
  <2> QED
    BY <2>1, <2>2
<1>8. q \in Listed(p)
  BY <1>1, <1>3, <1>4, <1>6, <1>7 DEF Listed
<1> QED
  BY <1>4, <1>8 DEF Part, q

LEMMA ListedEntry ==
  ASSUME NEW p \in Paths, NEW n \in Entries(p), n \notin Excluded,
         recursive => fs[Under(p, n)] = "file"
  PROVE  <<n>> \in Part(p, {n})
<1>1. n \in Names /\ Under(p, n) \in Paths /\ fs[Under(p, n)] # "none" /\ Len(p) # Depth
  BY EntryIsPath DEF Entries
<1>2. p \in Seq(Names) /\ Len(p) <= Depth /\ Depth \in Nat
  BY PathsAre, FsAssumption
<1>3. p \o <<n>> = Under(p, n)
  BY <1>1, <1>2, UnderIs
<1>4. <<n>> \in Seq(Names) /\ Len(<<n>>) = 1 /\ <<n>>[1] = n /\ <<n>> # <<>>
  BY <1>1
<1>5. <<n>> \in Paths
  <2>1. Len(p) \in Nat
    BY <1>2, LenProperties
  <2>2. 1 <= Depth
    BY <1>1, <1>2, <2>1
  <2> QED
    BY <1>4, <2>2, PathsAre
<1>6. \A i \in DOMAIN <<n>> : <<n>>[i] \notin Excluded
  OBVIOUS
<1>7. <<n>> \in Listed(p)
  BY <1>1, <1>3, <1>4, <1>5, <1>6 DEF Listed
<1> QED
  BY <1>4, <1>7 DEF Part

(* What is listed of one entry: itself, what is listed below it, or nothing.*)
LEMMA PartOfFile ==
  ASSUME Tree(fs), NEW p \in Paths, NEW n \in Entries(p), n \notin Excluded,
         fs[Under(p, n)] = "file"
  PROVE  Part(p, {n}) = {<<n>>}
<1>1. <<n>> \in Part(p, {n})
  BY ListedEntry
<1>2. ASSUME NEW q \in Part(p, {n})
      PROVE  q = <<n>>
  BY ListedThere DEF Part
<1> QED
  BY <1>1, <1>2

LEMMA PartOfDirectory ==
  ASSUME Tree(fs), recursive, NEW p \in Paths, NEW n \in Entries(p), n \notin Excluded,
         fs[Under(p, n)] = "dir"
  PROVE  Part(p, {n}) = {<<n>> \o r : r \in Listed(Under(p, n))}
<1>1. n \in Names /\ Under(p, n) \in Paths
  BY EntryIsPath
<1>2. ASSUME NEW q \in Part(p, {n})
      PROVE  q \in {<<n>> \o r : r \in Listed(Under(p, n))}
  <2> DEFINE r == Tail(q)
  <2>1. /\ q \in Listed(p) /\ q[1] = n
    BY DEF Part
  <2>2. /\ q = <<n>> \o r /\ r \in Paths /\ p \o q = Under(p, n) \o r
        /\ r = <<>> => p \o q = Under(p, n)
    BY <2>1, ListedThere
  <2>3. /\ p \o q \in Paths /\ fs[p \o q] = "file" /\ q \in Seq(Names) /\ q # <<>>
        /\ \A i \in DOMAIN q : q[i] \notin Excluded
    BY <2>1, PathsAre DEF Listed
  <2>4. r # <<>>
    BY <2>2, <2>3
  <2>5. ASSUME NEW i \in DOMAIN r
        PROVE  r[i] \notin Excluded
    <3>1. /\ Len(q) = Len(r) + 1 /\ r \in Seq(Names)
          /\ \A k \in 1 .. Len(r) : r[k] = q[k + 1]
      BY <2>3, FirstName
    <3>2. /\ Len(r) \in Nat /\ DOMAIN r = 1 .. Len(r) /\ DOMAIN q = 1 .. Len(q)
      BY <2>3, <3>1, LenProperties
    <3>3. i + 1 \in DOMAIN q
      BY <3>1, <3>2
    <3> QED
      BY <2>3, <3>1, <3>2, <3>3
  <2>6. r \in Listed(Under(p, n))
    BY <2>2, <2>3, <2>4, <2>5 DEF Listed
  <2> QED
    BY <2>2, <2>6
<1>3. ASSUME NEW r \in Listed(Under(p, n))
      PROVE  <<n>> \o r \in Part(p, {n})
  BY <1>1, ListedUnder
<1> QED
  BY <1>2, <1>3

LEMMA PartOfName ==
  ASSUME Tree(fs), ~recursive, NEW p \in Paths, NEW n \in Entries(p), n \notin Excluded
  PROVE  Part(p, {n}) = {<<n>>}
<1>1. <<n>> \in Part(p, {n})
  BY ListedEntry
<1>2. ASSUME NEW q \in Part(p, {n})
      PROVE  q = <<n>>
  <2>1. q \in Listed(p) /\ q[1] = n /\ Len(q) = 1 /\ q \in Seq(Names) /\ q # <<>>
    BY PathsAre DEF Part, Listed
  <2>2. Len(Tail(q)) = 0 /\ Tail(q) \in Seq(Names)
    <3>1. Len(q) = Len(Tail(q)) + 1 /\ Tail(q) \in Seq(Names)
      BY <2>1, FirstName
    <3>2. Len(Tail(q)) \in Nat
      BY <3>1, LenProperties
    <3> QED
      BY <2>1, <3>1, <3>2
  <2>3. Tail(q) = <<>>
    BY <2>2, EmptySeq
  <2> QED
    BY <2>1, <2>3, ListedThere
<1> QED
  BY <1>1, <1>2

LEMMA PartOfExcluded ==
  ASSUME Tree(fs), NEW p \in Paths, NEW n \in Excluded
  PROVE  Part(p, {n}) = {}
BY ListedThere DEF Part

LEMMA PartOfTwo ==
  ASSUME NEW p, NEW A, NEW B
  PROVE  Part(p, A \union B) = Part(p, A) \union Part(p, B)
BY DEF Part

(* When every entry has been seen, everything has been listed.              *)
LEMMA PartOfAll ==
  ASSUME Tree(fs), NEW p \in Paths, NEW A, Entries(p) \subseteq A
  PROVE  Part(p, A) = Listed(p)
BY ListedThere DEF Part

-----------------------------------------------------------------------------
(* What the steps of a walk do to its stack.                                *)
OnTop ==
  /\ Len(stack') = Len(stack) /\ stack'[1].path = stack[1].path
  /\ \A i \in 2 .. Len(stack) : stack'[i] = stack[i]

SameButFound ==
  /\ OnTop
  /\ stack'[1].seen = stack[1].seen
  /\ stack'[1].opened = stack[1].opened /\ stack'[1].first = stack[1].first

Walks ==
  /\ Len(stack') = Len(stack) + 1 /\ stack'[1] = Frame(EntryPath(entry))
  /\ \A i \in 2 .. Len(stack) + 1 : stack'[i] = stack[i - 1]

Pops ==
  /\ Len(stack') = Len(stack) - 1
  /\ stack'[1].path = stack[2].path /\ stack'[1].seen = stack[2].seen
  /\ stack'[1].opened = stack[2].opened /\ stack'[1].first = stack[2].first
  /\ stack'[1].found = stack[2].found \union FoundUnder(stack[1])
  /\ \A i \in 2 .. Len(stack) - 1 : stack'[i] = stack[i + 1]

Comes ==
  IF Len(stack) = 1 THEN pc' = "idle" /\ result' = stack[1].found
                    ELSE pc' = "entry" /\ result' = result /\ Pops

StackIs == /\ stack \in Seq(Calls) /\ Top = stack[1] /\ stack[1] \in Calls
           /\ Len(stack) \in Nat /\ Len(stack) >= 1
           /\ \A i \in 1 .. Len(stack) : /\ stack[i] \in Calls /\ stack[i].path \in Paths
                                         /\ stack[i].path \in Seq(Names)

LEMMA StackOf ==
  ASSUME IInv, pc \in Walking
  PROVE  StackIs
<1>1. /\ stack \in Seq(Calls) /\ Top = stack[1] /\ stack[1] \in Calls
      /\ Len(stack) \in Nat /\ Len(stack) >= 1
  BY TopIs DEF IInv, Shape
<1>2. \A i \in 1 .. Len(stack) : stack[i] \in Calls
  BY <1>1, ElementOfSeq
<1>3. \A f \in Calls : f.path \in Paths /\ f.path \in Seq(Names)
  BY PathsAre DEF Calls
<1> QED
  BY <1>1, <1>2, <1>3 DEF StackIs

LEMMA OpenDirDoes ==
  ASSUME IInv, OpenDir
  PROVE  /\ pc = "open" /\ pc' = "entry" /\ OnTop
         /\ stack'[1].seen = stack[1].seen /\ stack'[1].found = stack[1].found
         /\ ~error' => stack'[1].first = Entries(stack[1].path)
<1> DEFINE f(ok) == IF ok THEN [Top EXCEPT !.opened = TRUE, !.first = Entries(Top.path)]
                          ELSE Top
<1>1. PICK answered \in BOOLEAN : error' = ~answered /\ SetTop(f(answered))
  BY DEF OpenDir
<1>2. pc = "open" /\ pc' = "entry" /\ UNCHANGED target
  BY DEF OpenDir, callVars
<1>3. Top \in Calls /\ Top = stack[1]
  BY <1>2, TopIs DEF IInv, Walking
<1>4. /\ f(answered) \in Calls /\ f(answered).path = Top.path
      /\ f(answered).seen = Top.seen /\ f(answered).found = Top.found
      /\ answered => f(answered).first = Entries(Top.path)
  <2>1. Entries(Top.path) \in SUBSET Names
    BY DEF Entries
  <2> QED
    BY <1>3, <2>1 DEF Calls
<1> HIDE DEF f
<1>5. /\ Len(stack') = Len(stack) /\ stack'[1] = f(answered)
      /\ \A i \in 2 .. Len(stack) : stack'[i] = stack[i]
  BY <1>1, <1>2, <1>4, SetTopKeeps DEF Walking
<1> QED
  BY <1>1, <1>2, <1>3, <1>4, <1>5, Zenon DEF OnTop

LEMMA NextEntryDoes ==
  ASSUME IInv, NextEntry
  PROVE  /\ pc = "entry" /\ result' = result /\ error' = error /\ (cutShort => cutShort')
         /\ \/ /\ ~error /\ OnTop /\ cutShort' = cutShort
               /\ stack'[1].opened = stack[1].opened /\ stack'[1].first = stack[1].first
               /\ \E n \in Entries(stack[1].path) \ stack[1].seen :
                    /\ entry' = n /\ stack'[1].seen = stack[1].seen \union {n}
                    /\ IF Skips(n)
                         THEN pc' = "entry" /\ stack'[1].found = stack[1].found
                       ELSE IF ListsNames
                         THEN pc' = "entry" /\ stack'[1].found = stack[1].found \union {<<n>>}
                         ELSE pc' = "stat" /\ stack'[1].found = stack[1].found
            \/ /\ \/ error \/ cutShort'
                  \/ Entries(stack[1].path) \intersect stack[1].first \subseteq stack[1].seen
               /\ pc' = "close" /\ UNCHANGED stack
<1>1. /\ pc = "entry" /\ result' = result /\ UNCHANGED <<target, error>>
      /\ cutShort => cutShort'
  BY DEF NextEntry, callVars
<1>2. Top \in Calls /\ Top = stack[1] /\ Top.path \in Paths /\ error \in BOOLEAN
  BY <1>1, TopIs DEF IInv, Walking, Shape
<1> DEFINE found(n) == IF ListsNames /\ ~Skips(n) THEN Top.found \union {<<n>>} ELSE Top.found
           f(n) == [Passed(Top, n) EXCEPT !.found = IF ListsNames /\ ~Skips(n)
                                                     THEN @ \union {<<n>>} ELSE @]
<1>3. CASE /\ ~error
           /\ \E n \in Entries(Top.path) \ Top.seen :
                /\ entry' = n
                /\ pc' = IF Skips(n) \/ ListsNames THEN "entry" ELSE "stat"
                /\ SetTop(f(n))
           /\ cutShort' = cutShort
  <2>1. PICK n \in Entries(Top.path) \ Top.seen :
          /\ entry' = n
          /\ pc' = IF Skips(n) \/ ListsNames THEN "entry" ELSE "stat"
          /\ SetTop(f(n))
    BY <1>3
  <2>2. n \in Names
    BY DEF Entries
  <2>3. /\ f(n) \in Calls /\ f(n).path = Top.path /\ f(n).opened = Top.opened
        /\ f(n).first = Top.first /\ f(n).seen = Top.seen \union {n} /\ f(n).found = found(n)
    <3> DEFINE g == Passed(Top, n)
    <3>1. /\ g \in Calls /\ g.path = Top.path /\ g.opened = Top.opened
          /\ g.first = Top.first /\ g.seen = Top.seen \union {n} /\ g.found = Top.found
      BY <1>2, <2>2 DEF Passed, Calls
    <3>2. found(n) \in SUBSET Seq(Names)
      <4>1. Top.found \in SUBSET Seq(Names) /\ <<n>> \in Seq(Names)
        BY <1>2, <2>2 DEF Calls
      <4> QED
        BY <4>1
    <3>3. f(n) = [g EXCEPT !.found = found(n)]
      BY <3>1
    <3> HIDE DEF f, g, found
    <3> QED
      BY <3>1, <3>2, <3>3 DEF Calls
  <2> HIDE DEF f
  <2>4. /\ Len(stack') = Len(stack) /\ stack'[1] = f(n)
        /\ \A i \in 2 .. Len(stack) : stack'[i] = stack[i]
    BY <1>1, <2>1, <2>3, SetTopKeeps DEF Walking
  <2>5. OnTop /\ stack'[1].opened = stack[1].opened /\ stack'[1].first = stack[1].first
    BY <1>2, <2>3, <2>4, Zenon DEF OnTop
  <2>6. stack'[1].seen = stack[1].seen \union {n} /\ stack'[1].found = found(n)
    BY <1>2, <2>3, <2>4, Zenon
  <2> QED
    BY <1>1, <1>2, <1>3, <2>1, <2>5, <2>6, Zenon
<1>4. CASE /\ error \/ Entries(Top.path) \intersect Top.first \subseteq Top.seen
           /\ pc' = "close"
           /\ UNCHANGED <<entry, stack, cutShort>>
  BY <1>1, <1>2, <1>4
<1>5. CASE pc' = "close" /\ cutShort' = TRUE /\ UNCHANGED <<entry, stack>>
  BY <1>1, <1>2, <1>5
<1> QED
  BY <1>3, <1>4, <1>5, Zenon DEF NextEntry

LEMMA StatDoes ==
  ASSUME IInv, Stat
  PROVE  /\ pc = "stat" /\ entry' = entry /\ EntryPath(entry) = Under(stack[1].path, entry)
         /\ \/ /\ pc' = "open" /\ Walks /\ fs[EntryPath(entry)] = "dir"
            \/ /\ op = "read" /\ pc' = "entry" /\ SameButFound
               /\ stack'[1].found = stack[1].found \union {<<entry>>}
               /\ ~error' => fs[EntryPath(entry)] = "file"
            \/ op # "read" /\ pc' \in {"unlink", "close"} /\ stack' = stack
<1>1. pc = "stat" /\ UNCHANGED <<entry, target>>
  BY DEF Stat, callVars
<1>2. /\ Top \in Calls /\ Top = stack[1] /\ entry \in Names /\ EntryPath(entry) \in Paths
      /\ fs \in [Paths -> Kinds] /\ stack \in Seq(Calls)
  BY <1>1, TopIs DEF IInv, Walking, Shape
<1>3. PICK ok \in BOOLEAN :
        /\ ok => fs[EntryPath(entry)] # "none"
        /\ error' = ~ok
        /\ IF ok /\ IsDirectory(fs[EntryPath(entry)])
             THEN /\ pc' = "open"
                  /\ stack' = <<Frame(EntryPath(entry))>> \o stack
             ELSE IF op = "read"
             THEN /\ pc' = "entry"
                  /\ SetTop([Top EXCEPT !.found = @ \union {<<entry>>}])
             ELSE /\ pc' = IF ok THEN "unlink" ELSE "close"
                  /\ stack' = stack
  BY DEF Stat
<1>4. EntryPath(entry) = Under(stack[1].path, entry)
  BY <1>2, Zenon DEF EntryPath
<1>5. CASE ok /\ IsDirectory(fs[EntryPath(entry)])
  <2>1. /\ pc' = "open" /\ stack' = <<Frame(EntryPath(entry))>> \o stack
        /\ fs[EntryPath(entry)] = "dir"
    BY <1>3, <1>5 DEF IsDirectory
  <2>2. Walks
    BY <1>2, <2>1, FrameIs, Pushed DEF Walks
  <2> QED
    BY <1>1, <1>4, <2>1, <2>2
<1>6. CASE ~(ok /\ IsDirectory(fs[EntryPath(entry)])) /\ op = "read"
  <2> DEFINE f == [Top EXCEPT !.found = @ \union {<<entry>>}]
  <2>1. /\ f \in Calls /\ f.path = Top.path /\ f.opened = Top.opened
        /\ f.seen = Top.seen /\ f.first = Top.first /\ f.found = Top.found \union {<<entry>>}
    <3>1. Top.found \union {<<entry>>} \in SUBSET Seq(Names)
      <4>1. Top.found \in SUBSET Seq(Names) /\ <<entry>> \in Seq(Names)
        BY <1>2 DEF Calls
      <4> QED
        BY <4>1
    <3> QED
      BY <1>2, <3>1 DEF Calls
  <2>2. pc' = "entry" /\ SetTop(f)
    BY <1>3, <1>6
  <2> HIDE DEF f
  <2>3. /\ Len(stack') = Len(stack) /\ stack'[1] = f
        /\ \A i \in 2 .. Len(stack) : stack'[i] = stack[i]
    BY <1>1, <2>1, <2>2, SetTopKeeps DEF Walking
  <2>4. SameButFound /\ stack'[1].found = stack[1].found \union {<<entry>>}
    BY <1>2, <2>1, <2>3, Zenon DEF SameButFound, OnTop
  <2>5. ~error' => fs[EntryPath(entry)] = "file"
    BY <1>2, <1>3, <1>6 DEF IsDirectory, Kinds
  <2> QED
    BY <1>1, <1>4, <1>6, <2>2, <2>4, <2>5
<1>7. CASE ~(ok /\ IsDirectory(fs[EntryPath(entry)])) /\ op # "read"
  BY <1>1, <1>3, <1>4, <1>7
<1> QED
  BY <1>5, <1>6, <1>7, Zenon

LEMMA ReturnDoes ==
  ASSUME IInv, pc \in {"close", "rmdir"}, Return
  PROVE  Comes
<1>1. StackIs
  BY StackOf DEF Walking
<1>2. CASE Len(stack) = 1
  BY <1>1, <1>2 DEF Return, Comes, StackIs
<1>3. CASE Len(stack) # 1
  <2> DEFINE f == [stack[2] EXCEPT !.found = @ \union FoundUnder(Top)]
  <2>1. /\ pc' = "entry" /\ result' = result
        /\ stack' = <<f>> \o SubSeq(stack, 3, Len(stack))
    BY <1>3 DEF Return
  <2>2. Len(stack) > 1 /\ stack[2] \in Calls
    <3>1. \A k \in Nat : k >= 1 /\ k # 1 => k > 1 /\ 2 \in 1 .. k
      BY SMT
    <3> QED
      BY <1>1, <1>3, <3>1, Zenon DEF StackIs
  <2>3. FoundUnder(Top) \subseteq Seq(Names)
    <3>1. Top.path \in Seq(Names) /\ Len(Top.path) > 0 /\ Top.found \subseteq Seq(Names)
      BY <1>1, <2>2 DEF IInv, WithinTarget, StackIs, Calls
    <3>2. Top.path[Len(Top.path)] \in Names
      BY <3>1
    <3>3. \A q \in Seq(Names) : <<Top.path[Len(Top.path)]>> \o q \in Seq(Names)
      BY <3>2
    <3> QED
      BY <3>1, <3>3 DEF FoundUnder
  <2>4. /\ f \in Calls /\ f.path = stack[2].path /\ f.opened = stack[2].opened
        /\ f.seen = stack[2].seen /\ f.first = stack[2].first
        /\ f.found = stack[2].found \union FoundUnder(Top)
    <3>1. stack[2].found \union FoundUnder(Top) \in SUBSET Seq(Names)
      BY <2>2, <2>3 DEF Calls
    <3> QED
      BY <2>2, <3>1 DEF Calls
  <2> HIDE DEF f
  <2>5. PoppedFrom(stack', stack, f)
    <3>1. stack \in Seq(Calls) /\ Len(stack) > 1 /\ f \in Calls
      BY <1>1, <2>2, <2>4 DEF StackIs
    <3>2. stack' = <<f>> \o SubSeq(stack, 3, Len(stack))
      BY <2>1
    <3> QED
      BY <3>1, <3>2, Popped, Zenon
  <2>6. Top = stack[1]
    BY <1>1 DEF StackIs
  <2>7. Pops
    BY <2>4, <2>5, <2>6, Zenon DEF PoppedFrom, Pops
  <2> QED
    BY <1>3, <2>1, <2>7 DEF Comes
<1> QED
  BY <1>2, <1>3

-----------------------------------------------------------------------------
(* The stack is a chain of directories.                                     *)
LEMMA HostKeeps ==
  ASSUME IInv, HostStep
  PROVE  /\ UNCHANGED <<op, target, recursive, existed, disturbed>>
         /\ ~NextEntry => UNCHANGED cutShort
         /\ pc \in Walking => /\ op = "read" => UNCHANGED fs
                              /\ error => error'
<1>1. /\ UNCHANGED <<op, target, recursive, existed, disturbed>>
      /\ ~NextEntry => UNCHANGED cutShort
  BY DEF HostStep, OpenDir, NextEntry, Stat, Unlink, CloseDir, Rmdir, Exists, Mkdir,
         callVars, history
<1>2. pc \in Walking /\ op = "read" => UNCHANGED fs
  BY DEF HostStep, OpenDir, NextEntry, Stat, Unlink, CloseDir, Rmdir, Exists, Mkdir,
         deviceVars, Walking, IInv, OnlyRemoves
<1>3. pc \in Walking /\ error => error'
  <2>1. pc \in {"open", "stat", "unlink"} => ~error
    BY DEF IInv, OpenOnes
  <2>2. pc \in Walking /\ error => NextEntry \/ CloseDir \/ Rmdir
    BY <2>1 DEF HostStep, OpenDir, Stat, Unlink, Exists, Mkdir, Walking
  <2> QED
    BY <2>2 DEF NextEntry, CloseDir, Closes, Rmdir
<1> QED
  BY <1>1, <1>2, <1>3

LEMMA ChainOnTop ==
  ASSUME IInv, Chain, pc \in Walking, OnTop \/ stack' = stack, UNCHANGED target
  PROVE  Chain'
<1>1. StackIs
  BY StackOf
<1>2. Len(stack') = Len(stack) /\ \A i \in 1 .. Len(stack) : stack'[i].path = stack[i].path
  <2>1. CASE OnTop
    <3>1. \A i \in 1 .. Len(stack) : i = 1 \/ i \in 2 .. Len(stack)
      BY <1>1 DEF StackIs
    <3> QED
      BY <2>1, <3>1 DEF OnTop
  <2>2. CASE stack' = stack
    BY <2>2
  <2> QED
    BY <2>1, <2>2
<1>3. Len(stack) \in 1 .. Len(stack)
      /\ \A i \in 2 .. Len(stack) : i \in 1 .. Len(stack) /\ i - 1 \in 1 .. Len(stack)
  BY <1>1 DEF StackIs
<1>4. /\ stack'[Len(stack')].path = target'
      /\ \A i \in 2 .. Len(stack') :
           stack'[i - 1].path = Under(stack'[i].path, LastName(stack'[i - 1].path))
  BY <1>2, <1>3 DEF Chain
<1> QED
  BY <1>4 DEF Chain

LEMMA ChainWalks ==
  ASSUME IInv, Chain, pc = "stat", Walks, UNCHANGED target,
         EntryPath(entry) = Under(stack[1].path, entry)
  PROVE  Chain' /\ LastName(stack'[1].path) = entry /\ stack'[1].path = EntryPath(entry)
<1>1. StackIs /\ entry \in Names /\ EntryPath(entry) \in Paths
  BY StackOf DEF Walking, IInv, Shape
<1>2. stack'[1].path = EntryPath(entry)
  BY <1>1, FrameIs DEF Walks
<1>3. LastName(stack'[1].path) = entry
  <2>1. stack[1].path \in Seq(Names)
    BY <1>1 DEF StackIs
  <2>2. LastName(Under(stack[1].path, entry)) = entry
    BY <1>1, <2>1, UnderIs
  <2> QED
    BY <1>2, <2>2, Zenon
<1>4. Len(stack') = Len(stack) + 1 /\ Len(stack) \in Nat /\ Len(stack) >= 1
      /\ \A i \in 2 .. Len(stack) + 1 : stack'[i] = stack[i - 1]
  BY <1>1 DEF Walks, StackIs
<1>5. stack'[Len(stack')].path = target'
  <2>1. Len(stack) + 1 \in 2 .. Len(stack) + 1 /\ (Len(stack) + 1) - 1 = Len(stack)
    BY <1>4
  <2>2. stack'[Len(stack) + 1] = stack[Len(stack)]
    BY <1>4, <2>1
  <2> QED
    BY <1>4, <2>2 DEF Chain, Walking
<1>6. ASSUME NEW i \in 2 .. Len(stack')
      PROVE  stack'[i - 1].path = Under(stack'[i].path, LastName(stack'[i - 1].path))
  <2>1. CASE i = 2
    <3>1. stack'[2] = stack[1] /\ i - 1 = 1
      BY <1>4, <2>1
    <3> QED
      BY <1>2, <1>3, <2>1, <3>1
  <2>2. CASE i # 2
    <3>1. /\ i - 1 \in 2 .. Len(stack) /\ i - 1 \in 2 .. Len(stack) + 1
          /\ i \in 2 .. Len(stack) + 1
      BY <1>4, <2>2
    <3>2. stack'[i] = stack[i - 1] /\ stack'[i - 1] = stack[(i - 1) - 1]
      BY <1>4, <3>1
    <3> QED
      BY <3>1, <3>2 DEF Chain, Walking
  <2> QED
    BY <2>1, <2>2
<1> QED
  BY <1>2, <1>3, <1>5, <1>6 DEF Chain

LEMMA ChainPops ==
  ASSUME IInv, Chain, pc \in {"close", "rmdir"}, Comes, UNCHANGED target
  PROVE  /\ Chain'
         /\ Len(stack) # 1 => \A i \in 1 .. Len(stack') : stack'[i].path = stack[i + 1].path
<1>1. StackIs
  BY StackOf DEF Walking
<1>2. CASE Len(stack) = 1
  BY <1>2 DEF Comes, Chain, Walking
<1>3. CASE Len(stack) # 1
  <2>1. Len(stack) \in Nat /\ Len(stack) >= 2
    <3>1. \A k \in Nat : k >= 1 /\ k # 1 => k >= 2
      BY SMT
    <3> QED
      BY <1>1, <1>3, <3>1, Zenon DEF StackIs
  <2>2. Pops
    BY <1>3 DEF Comes
  <2>3. Len(stack') = Len(stack) - 1
    BY <2>2 DEF Pops
  <2>4. ASSUME NEW i \in 1 .. Len(stack')
        PROVE  stack'[i].path = stack[i + 1].path
    <3>1. i = 1 \/ i \in 2 .. Len(stack) - 1
      BY <2>1, <2>3
    <3> QED
      BY <2>2, <3>1 DEF Pops
  <2>5. stack'[Len(stack')].path = target'
    <3>1. Len(stack') \in 1 .. Len(stack') /\ Len(stack') + 1 = Len(stack)
      BY <2>1, <2>3
    <3> QED
      BY <2>4, <3>1 DEF Chain, Walking
  <2>6. ASSUME NEW i \in 2 .. Len(stack')
        PROVE  stack'[i - 1].path = Under(stack'[i].path, LastName(stack'[i - 1].path))
    <3>1. /\ i \in 1 .. Len(stack') /\ i - 1 \in 1 .. Len(stack') /\ (i - 1) + 1 = i
          /\ i + 1 \in 2 .. Len(stack) /\ (i + 1) - 1 = i
      BY <2>1, <2>3
    <3>2. stack'[i].path = stack[i + 1].path /\ stack'[i - 1].path = stack[i].path
      BY <2>4, <3>1
    <3>3. stack[i].path = Under(stack[i + 1].path, LastName(stack[i].path))
      BY <3>1 DEF Chain, Walking
    <3> QED
      BY <3>2, <3>3
  <2> QED
    BY <2>4, <2>5, <2>6 DEF Chain
<1> QED
  BY <1>2, <1>3

LEMMA ChainKept ==
  ASSUME IInv, Chain, [Next]_vars
  PROVE  Chain'
<1>1. CASE Call
  <2>1. /\ pc' \in Walking => stack' = <<Frame(target')>>
        /\ target' \in Paths
    BY <1>1 DEF Call, Walking
  <2>2. ASSUME pc' \in Walking
        PROVE  Chain'
    <3>1. Frame(target').path = target'
      BY <2>1, FrameIs
    <3>2. Len(stack') = 1 /\ stack'[1] = Frame(target')
      BY <2>1, <2>2
    <3>3. stack'[Len(stack')].path = target'
      BY <3>1, <3>2
    <3>4. \A i \in 2 .. Len(stack') : FALSE
      BY <3>2
    <3> QED
      BY <3>3, <3>4 DEF Chain
  <2> QED
    BY <2>2 DEF Chain
<1>2. CASE OpenDir \/ NextEntry
  <2>1. UNCHANGED target /\ pc \in Walking /\ (OnTop \/ stack' = stack)
    BY <1>2, OpenDirDoes, NextEntryDoes, HostKeeps DEF HostStep, Walking
  <2> QED
    BY <2>1, ChainOnTop
<1>3. CASE Stat
  <2>1. UNCHANGED target /\ pc = "stat"
    BY <1>3, StatDoes, HostKeeps DEF HostStep
  <2>2. Walks \/ OnTop \/ stack' = stack
    BY <1>3, StatDoes DEF SameButFound
  <2> QED
    BY <1>3, <2>1, <2>2, StatDoes, ChainWalks, ChainOnTop DEF Walking
<1>4. CASE Unlink
  BY <1>4, ChainOnTop DEF Unlink, Walking, callVars
<1>5. CASE CloseDir /\ op = "remove"
  BY <1>5, ChainOnTop DEF CloseDir, Walking, callVars
<1>6. CASE (CloseDir /\ op # "remove") \/ Rmdir
  <2>1. pc \in {"close", "rmdir"} /\ Return /\ UNCHANGED target
    BY <1>6 DEF CloseDir, Rmdir, callVars
  <2> QED
    BY <2>1, ReturnDoes, ChainPops
<1>7. CASE Exists \/ Mkdir
  BY <1>7 DEF Exists, Mkdir, Chain, Walking
<1>8. CASE Change \/ UNCHANGED vars
  <2>1. UNCHANGED <<pc, stack, target>>
    BY <1>8 DEF Change, vars, callVars
  <2> QED
    BY <2>1 DEF Chain
<1> QED
  BY <1>1, <1>2, <1>3, <1>4, <1>5, <1>6, <1>7, <1>8 DEF Next, HostStep

-----------------------------------------------------------------------------
(* What was found was there.                                                *)
CreatesOnly == pc \in {"exists", "mkdir"} => op = "create"

FoundInv == IInv /\ Chain /\ CreatesOnly /\ FoundWasThere /\ NothingInvented

LEMMA CreatesOnlyKept ==
  ASSUME IInv, CreatesOnly, [Next]_vars
  PROVE  CreatesOnly'
<1>1. CASE Call
  BY <1>1 DEF Call, CreatesOnly
<1>2. CASE Exists \/ Mkdir
  BY <1>2 DEF Exists, Mkdir, CreatesOnly, callVars
<1>3. CASE OpenDir \/ NextEntry \/ Stat
  BY <1>3, OpenDirDoes, NextEntryDoes, StatDoes DEF CreatesOnly
<1>4. CASE Unlink
  BY <1>4 DEF Unlink, CreatesOnly
<1>5. CASE CloseDir \/ Rmdir
  BY <1>5 DEF CloseDir, Rmdir, Return, CreatesOnly
<1>6. CASE Change \/ UNCHANGED vars
  BY <1>6 DEF Change, vars, callVars, CreatesOnly
<1> QED
  BY <1>1, <1>2, <1>3, <1>4, <1>5, <1>6 DEF Next, HostStep

LEMMA WasThereStays ==
  ASSUME existed \subseteq existed', UNCHANGED recursive, NEW p, Was(p)
  PROVE  WasThere(existed', recursive', p)
BY DEF Was, WasThere

LEMMA ThereNow ==
  ASSUME IInv, Holds(fs) \subseteq existed, NEW p \in Paths, fs[p] # "none",
         recursive => fs[p] = "file"
  PROVE  Was(p)
<1>1. fs[p] \in {"file", "dir"}
  BY DEF IInv, Shape, Kinds
<1>2. <<p, fs[p]>> \in existed
  BY DEF Holds
<1> QED
  BY <1>1, <1>2 DEF Was, WasThere

LEMMA ThereOnTop ==
  ASSUME IInv, pc \in Walking, AllWereThere, OnTop, UNCHANGED <<existed, recursive>>,
         \A q \in stack'[1].found : q \in stack[1].found \/ Was(stack[1].path \o q)
  PROVE  AllWereThere'
<1>1. StackIs
  BY StackOf
<1>2. ASSUME NEW i \in 1 .. Len(stack'), NEW q \in stack'[i].found
      PROVE  Was(stack'[i].path \o q)
  <2>1. i \in 1 .. Len(stack) /\ (i = 1 \/ i \in 2 .. Len(stack))
    BY <1>1 DEF StackIs, OnTop
  <2>2. CASE i = 1
    <3>1. stack'[i].path = stack[1].path /\ 1 \in 1 .. Len(stack)
      BY <2>1, <2>2 DEF OnTop
    <3>2. q \in stack[1].found => Was(stack[1].path \o q)
      BY <3>1 DEF AllWereThere
    <3> QED
      BY <1>2, <2>2, <3>1, <3>2
  <2>3. CASE i \in 2 .. Len(stack)
    <3>1. stack'[i] = stack[i]
      BY <2>3 DEF OnTop
    <3> QED
      BY <1>2, <2>1, <3>1 DEF AllWereThere
  <2> QED
    BY <2>1, <2>2, <2>3
<1>3. ASSUME NEW i \in 1 .. Len(stack'), NEW q \in stack'[i].found
      PROVE  WasThere(existed', recursive', stack'[i].path \o q)
  BY <1>2, WasThereStays
<1> QED
  BY <1>3 DEF AllWereThere, Was

LEMMA ThereWalks ==
  ASSUME IInv, pc \in Walking, AllWereThere, Walks, UNCHANGED <<existed, recursive>>
  PROVE  AllWereThere'
<1>1. StackIs
  BY StackOf
<1>2. ASSUME NEW i \in 1 .. Len(stack'), NEW q \in stack'[i].found
      PROVE  Was(stack'[i].path \o q)
  <2>1. i # 1
    BY <1>2 DEF Walks, Frame
  <2>2. i - 1 \in 1 .. Len(stack) /\ i \in 2 .. Len(stack) + 1
    BY <1>1, <2>1 DEF StackIs, Walks
  <2>3. stack'[i] = stack[i - 1]
    BY <2>2 DEF Walks
  <2> QED
    BY <1>2, <2>2, <2>3 DEF AllWereThere
<1>3. ASSUME NEW i \in 1 .. Len(stack'), NEW q \in stack'[i].found
      PROVE  WasThere(existed', recursive', stack'[i].path \o q)
  BY <1>2, WasThereStays
<1> QED
  BY <1>3 DEF AllWereThere, Was

(* What was found below a directory is where its caller says it is.         *)
LEMMA FoundBelow ==
  ASSUME IInv, Chain, pc \in Walking, Len(stack) # 1, NEW r \in stack[1].found
  PROVE  /\ LastName(stack[1].path) \in Names
         /\ stack[2].path \o (<<LastName(stack[1].path)>> \o r) = stack[1].path \o r
         /\ stack[1].path = Under(stack[2].path, LastName(stack[1].path))
<1>1. StackIs
  BY StackOf
<1>2. 2 \in 2 .. Len(stack) /\ 2 \in 1 .. Len(stack) /\ 1 < Len(stack) /\ 1 \in 1 .. Len(stack)
  <2>1. \A k \in Nat : k >= 1 /\ k # 1 => 2 \in 2 .. k /\ 2 \in 1 .. k /\ 1 < k /\ 1 \in 1 .. k
    BY SMT
  <2> QED
    BY <1>1, <2>1, Zenon DEF StackIs
<1>3. /\ stack[1].path \in Seq(Names) /\ stack[2].path \in Seq(Names)
      /\ r \in Seq(Names) /\ Len(stack[1].path) > 0
  BY <1>1, <1>2 DEF StackIs, Calls, IInv, WithinTarget
<1>4. LastName(stack[1].path) \in Names
  <2>1. Len(stack[1].path) \in Nat
    BY <1>3, LenProperties
  <2>2. Len(stack[1].path) \in 1 .. Len(stack[1].path)
    BY <1>3, <2>1
  <2> QED
    BY <1>3, <2>2, ElementOfSeq DEF LastName
<1>5. stack[1].path = Under(stack[2].path, LastName(stack[1].path))
  <2>1. 2 - 1 = 1
    OBVIOUS
  <2> QED
    BY <1>2, <2>1 DEF Chain
<1>6. Under(stack[2].path, LastName(stack[1].path)) \o r
        = stack[2].path \o (<<LastName(stack[1].path)>> \o r)
  BY <1>3, <1>4, UnderIs
<1> QED
  BY <1>4, <1>5, <1>6, Zenon

LEMMA TherePops ==
  ASSUME IInv, Chain, pc \in {"close", "rmdir"}, AllWereThere, Comes, Len(stack) # 1,
         UNCHANGED <<existed, recursive, target>>
  PROVE  AllWereThere'
<1>1. StackIs
  BY StackOf DEF Walking
<1>2. Pops /\ \A i \in 1 .. Len(stack') : stack'[i].path = stack[i + 1].path
  BY ChainPops DEF Comes
<1>3. ASSUME NEW i \in 1 .. Len(stack'), NEW q \in stack'[i].found
      PROVE  Was(stack'[i].path \o q)
  <2>1. /\ stack'[i].path = stack[i + 1].path /\ i + 1 \in 1 .. Len(stack)
        /\ i = 1 \/ i \in 2 .. Len(stack) - 1
    BY <1>1, <1>2 DEF StackIs, Pops
  <2>2. CASE q \in stack[i + 1].found
    BY <2>1, <2>2 DEF AllWereThere
  <2>3. CASE q \notin stack[i + 1].found
    <3>1. i = 1
      BY <1>2, <1>3, <2>1, <2>3 DEF Pops
    <3>2. q \in FoundUnder(stack[1]) /\ stack'[1].path = stack[2].path
      BY <1>2, <1>3, <2>3, <3>1 DEF Pops
    <3>3. PICK r \in stack[1].found : q = <<LastName(stack[1].path)>> \o r
      BY <3>2 DEF FoundUnder, LastName
    <3>4. stack[2].path \o q = stack[1].path \o r
      BY <3>3, FoundBelow DEF Walking
    <3>5. Was(stack[1].path \o r)
      BY <1>1 DEF AllWereThere, StackIs
    <3> QED
      BY <3>1, <3>2, <3>4, <3>5, Zenon
  <2> QED
    BY <2>2, <2>3
<1>4. ASSUME NEW i \in 1 .. Len(stack'), NEW q \in stack'[i].found
      PROVE  WasThere(existed', recursive', stack'[i].path \o q)
  BY <1>3, WasThereStays
<1> QED
  BY <1>4 DEF AllWereThere, Was

LEMMA FoundKept ==
  ASSUME FoundInv, [Next]_vars
  PROVE  FoundWasThere' /\ NothingInvented'
<1>1. CASE Call
  <2>1. /\ existed' = Holds(fs) /\ UNCHANGED fs /\ pc' # "idle" /\ target' \in Paths
        /\ pc' \in Walking => stack' = <<Frame(target')>>
    BY <1>1 DEF Call, deviceVars, Walking
  <2>2. ASSUME pc' \in Walking
        PROVE  AllWereThere'
    <3>1. Len(stack') = 1 /\ stack'[1].found = {}
      BY <2>1, <2>2 DEF Frame
    <3>2. \A i \in 1 .. Len(stack') : stack'[i].found = {}
      BY <3>1
    <3> QED
      BY <3>2 DEF AllWereThere
  <2>3. Holds(fs)' \subseteq existed'
    BY <2>1 DEF Holds
  <2> QED
    BY <2>1, <2>2, <2>3 DEF FoundWasThere, NothingInvented
<1>2. CASE Change \/ UNCHANGED vars
  <2>1. /\ UNCHANGED <<pc, op, error, stack, recursive, result, target>>
        /\ existed \subseteq existed'
    BY <1>2 DEF Change, vars, callVars, history
  <2>2. AllWereThere => AllWereThere'
    BY <2>1, WasThereStays DEF AllWereThere, Was
  <2>3. Holds(fs) \subseteq existed => Holds(fs)' \subseteq existed'
    <3>1. CASE Change
      BY <3>1 DEF Change, Holds
    <3>2. CASE UNCHANGED vars
      BY <3>2 DEF vars, deviceVars, history, Holds
    <3> QED
      BY <1>2, <3>1, <3>2
  <2>4. FoundWasThere'
    BY <2>1, <2>2, <2>3 DEF FoundInv, FoundWasThere
  <2>5. NothingInvented'
    BY <2>1 DEF FoundInv, NothingInvented
  <2> QED
    BY <2>4, <2>5
<1>3. CASE HostStep /\ op # "read"
  BY <1>3, HostKeeps DEF FoundInv, FoundWasThere, NothingInvented
<1>4. CASE HostStep /\ op = "read" /\ error
  <2>1. pc \in Walking
    BY <1>4 DEF HostStep, OpenDir, NextEntry, Stat, Unlink, CloseDir, Rmdir, Exists, Mkdir,
                FoundInv, CreatesOnly, Walking
  <2>2. error' /\ UNCHANGED <<fs, existed>>
    BY <1>4, <2>1, HostKeeps DEF FoundInv
  <2>3. Holds(fs)' \subseteq existed'
    BY <1>4, <2>1, <2>2 DEF FoundInv, FoundWasThere, Holds
  <2> QED
    BY <2>2, <2>3 DEF FoundWasThere, NothingInvented
<1>5. CASE HostStep /\ op = "read" /\ ~error
  <2>1. pc \in Walking
    BY <1>5 DEF HostStep, OpenDir, NextEntry, Stat, Unlink, CloseDir, Rmdir, Exists, Mkdir,
                FoundInv, CreatesOnly, Walking
  <2>2. /\ UNCHANGED <<fs, existed, recursive, op, target>> /\ IInv /\ Chain
        /\ Holds(fs) \subseteq existed /\ AllWereThere
    BY <1>5, <2>1, HostKeeps DEF FoundInv, FoundWasThere
  <2>3. StackIs
    BY <2>1, <2>2, StackOf
  <2>4. Holds(fs)' \subseteq existed'
    BY <2>2 DEF Holds
  <2>5. CASE OpenDir
    <3>1. AllWereThere' /\ pc' = "entry"
      BY <2>1, <2>2, <2>5, OpenDirDoes, ThereOnTop
    <3> QED
      BY <2>4, <3>1 DEF FoundWasThere, NothingInvented
  <2>6. CASE NextEntry
    <3>1. pc' \in {"entry", "stat", "close"}
      BY <2>2, <2>6, NextEntryDoes
    <3>2. CASE stack' = stack
      <4>1. AllWereThere'
        BY <2>2, <3>2, WasThereStays DEF AllWereThere, Was
      <4> QED
        BY <2>4, <3>1, <4>1 DEF FoundWasThere, NothingInvented
    <3>3. CASE stack' # stack
      <4>1. PICK n \in Entries(stack[1].path) :
              /\ OnTop
              /\ \/ stack'[1].found = stack[1].found
                 \/ ListsNames /\ stack'[1].found = stack[1].found \union {<<n>>}
        BY <2>2, <2>6, <3>3, NextEntryDoes
      <4>2. n \in Names /\ Under(stack[1].path, n) \in Paths
            /\ fs[Under(stack[1].path, n)] # "none" /\ stack[1].path \in Seq(Names)
        <5>1. stack[1].path \in Paths /\ stack[1].path \in Seq(Names)
          BY <2>3 DEF StackIs
        <5> QED
          BY <5>1, EntryIsPath DEF Entries
      <4>3. stack[1].path \o <<n>> = Under(stack[1].path, n)
        BY <4>2, UnderIs
      <4>4. ListsNames => Was(stack[1].path \o <<n>>)
        BY <2>2, <4>2, <4>3, ThereNow DEF ListsNames
      <4>5. AllWereThere'
        BY <2>1, <2>2, <4>1, <4>4, ThereOnTop
      <4> QED
        BY <2>4, <3>1, <4>5 DEF FoundWasThere, NothingInvented
    <3> QED
      BY <3>2, <3>3
  <2>7. CASE Stat
    <3>1. pc = "stat" /\ pc' \in {"open", "entry"}
      BY <1>5, <2>2, <2>7, StatDoes
    <3>2. CASE Walks
      <4>1. AllWereThere'
        BY <2>1, <2>2, <3>2, ThereWalks
      <4> QED
        BY <2>4, <3>1, <4>1 DEF FoundWasThere, NothingInvented
    <3>3. CASE ~Walks
      <4>1. /\ OnTop /\ stack'[1].found = stack[1].found \union {<<entry>>}
            /\ ~error' => fs[EntryPath(entry)] = "file"
            /\ EntryPath(entry) = Under(stack[1].path, entry)
        BY <1>5, <2>2, <2>7, <3>3, StatDoes DEF SameButFound
      <4>2. entry \in Names /\ EntryPath(entry) \in Paths /\ stack[1].path \in Seq(Names)
        BY <2>2, <2>3, <3>1 DEF IInv, Shape, StackIs
      <4>3. stack[1].path \o <<entry>> = EntryPath(entry)
        BY <4>1, <4>2, UnderIs
      <4>4. ASSUME ~error'
            PROVE  AllWereThere'
        <5>1. Was(stack[1].path \o <<entry>>)
          BY <2>2, <4>1, <4>2, <4>3, <4>4, ThereNow
        <5> QED
          BY <2>1, <2>2, <4>1, <5>1, ThereOnTop
      <4> QED
        BY <2>4, <3>1, <4>4 DEF FoundWasThere, NothingInvented
    <3> QED
      BY <3>2, <3>3
  <2>8. CASE CloseDir
    <3>1. pc = "close" /\ Comes
      BY <1>5, <2>2, <2>8, ReturnDoes DEF CloseDir
    <3>2. CASE Len(stack) = 1
      <4>1. pc' = "idle" /\ result' = stack[1].found
        BY <3>1, <3>2 DEF Comes
      <4>2. stack[1].path = target
        BY <2>1, <2>2, <3>2 DEF Chain
      <4>3. ASSUME NEW q \in result'
            PROVE  WasThere(existed', recursive', target' \o q)
        <5>1. Was(stack[1].path \o q)
          BY <2>2, <2>3, <4>1, <4>3 DEF AllWereThere, StackIs
        <5> QED
          BY <2>2, <4>2, <5>1, WasThereStays
      <4>4. NothingInvented'
        BY <4>3 DEF NothingInvented, WasThere
      <4> QED
        BY <4>1, <4>4 DEF FoundWasThere, Walking
    <3>3. CASE Len(stack) # 1
      <4>1. pc' = "entry" /\ AllWereThere'
        BY <2>2, <3>1, <3>3, TherePops DEF Comes
      <4> QED
        BY <2>4, <4>1 DEF FoundWasThere, NothingInvented
    <3> QED
      BY <3>2, <3>3
  <2>9. CASE Unlink \/ Rmdir \/ Exists \/ Mkdir
    BY <1>5, <2>1, <2>2, <2>9
       DEF IInv, OnlyRemoves, Unlink, Rmdir, Exists, Mkdir, Walking
  <2> QED
    BY <1>5, <2>5, <2>6, <2>7, <2>8, <2>9 DEF HostStep
<1> QED
  BY <1>1, <1>2, <1>3, <1>4, <1>5 DEF Next

LEMMA FoundInvKept ==
  /\ Init => FoundInv
  /\ FoundInv /\ [Next]_vars => FoundInv'
<1>1. ASSUME Init
      PROVE  FoundInv
  BY <1>1, InitHolds DEF FoundInv, Init, Chain, CreatesOnly, FoundWasThere, NothingInvented,
                         Walking
<1>2. ASSUME FoundInv, [Next]_vars
      PROVE  FoundInv'
  BY <1>2, StepKeeps, ChainKept, CreatesOnlyKept, FoundKept DEF FoundInv
<1> QED
  BY <1>1, <1>2

(* Everything read_directory listed in a call without an error was there at *)
(* some moment of the call, as a file if it walked into directories: no     *)
(* name is put under the wrong directory by the recursive call's prefix,    *)
(* whatever programs on the device do to the tree meanwhile.                *)
THEOREM NothingIsInvented == Spec => []NothingInvented
<1>1. FoundInv => NothingInvented
  BY DEF FoundInv
<1> QED
  BY <1>1, FoundInvKept, PTL DEF Spec

-----------------------------------------------------------------------------
(* If the device changes nothing, a directory of the stack has found all    *)
(* that is to be listed of the names it has seen, except of the one that is *)
(* being asked for or walked into; once a directory was cut short, it has   *)
(* found nothing else, but perhaps not all.                                 *)
EntriesIn(f, p) == IF Len(p) = Depth THEN {} ELSE {n \in Names : f[Under(p, n)] # "none"}

ListedIn(f, deep, p) ==
  {q \in Paths :
     /\ q # <<>> /\ p \o q \in Paths /\ f[p \o q] # "none"
     /\ \A i \in DOMAIN q : q[i] \notin Excluded
     /\ IF deep THEN f[p \o q] = "file" ELSE Len(q) = 1}

PartIn(f, deep, p, names) == {q \in ListedIn(f, deep, p) : q[1] \in names}

FirstIs(f, frame) == frame.opened => frame.first = EntriesIn(f, frame.path)

Fills(found, all, cut) == found \subseteq all /\ (~cut => found = all)

FoundIs(f, deep, cut, frame, names) == Fills(frame.found, PartIn(f, deep, frame.path, names), cut)

TopSoFar(f, deep, cut, where, n, top) ==
  /\ where \in {"open", "entry"} => FoundIs(f, deep, cut, top, top.seen)
  /\ where = "stat" => /\ deep = TRUE /\ n \in top.seen \ Excluded
                       /\ FoundIs(f, deep, cut, top, top.seen \ {n})
  /\ where = "close" => Fills(top.found, ListedIn(f, deep, top.path), cut)

CallerSoFar(f, deep, cut, called, caller) ==
  /\ deep = TRUE /\ f[called] = "dir"
  /\ LastName(called) \in caller.seen \ Excluded
  /\ FoundIs(f, deep, cut, caller, caller.seen \ {LastName(called)})

SoFar ==
  /\ \A i \in 1 .. Len(stack) : FirstIs(fs, stack[i])
  /\ TopSoFar(fs, recursive, cutShort, pc, entry, stack[1])
  /\ \A i \in 2 .. Len(stack) :
       CallerSoFar(fs, recursive, cutShort, stack[i - 1].path, stack[i])

ListedSoFar == op = "read" /\ pc \in Walking /\ ~error /\ ~disturbed => SoFar

DoneInv ==
  /\ IInv /\ Tree(fs) /\ recursive \in BOOLEAN
  /\ Chain /\ CreatesOnly /\ ListedSoFar /\ DoneWithoutError

LEMMA InNow ==
  /\ \A p : Entries(p) = EntriesIn(fs, p)
  /\ \A p : Listed(p) = ListedIn(fs, recursive, p)
  /\ \A p, names : Part(p, names) = PartIn(fs, recursive, p, names)
<1>1. \A p : Entries(p) = EntriesIn(fs, p)
  BY DEF Entries, EntriesIn
<1>2. \A p : Listed(p) = ListedIn(fs, recursive, p)
  BY DEF Listed, ListedIn
<1>3. \A p, names : Part(p, names) = PartIn(fs, recursive, p, names)
  BY <1>2 DEF Part, PartIn
<1> QED
  BY <1>1, <1>2, <1>3

LEMMA FillsMore ==
  ASSUME NEW found, NEW all, NEW more, NEW rest, NEW cut,
         Fills(found, all, cut), Fills(more, rest, cut)
  PROVE  Fills(found \union more, all \union rest, cut)
BY DEF Fills

LEMMA FillsSame ==
  ASSUME NEW found, NEW cut
  PROVE  Fills(found, found, cut)
BY DEF Fills

(* A step that changes nothing but the innermost directory of the stack.    *)
LEMMA SoFarOnTop ==
  ASSUME IInv, pc \in Walking, SoFar, OnTop, UNCHANGED <<fs, recursive, cutShort>>,
         FirstIs(fs, stack'[1]), TopSoFar(fs, recursive, cutShort, pc', entry', stack'[1])
  PROVE  SoFar'
<1>1. StackIs
  BY StackOf
<1>2. ASSUME NEW i \in 1 .. Len(stack')
      PROVE  /\ stack'[i].path = stack[i].path /\ FirstIs(fs, stack'[i])
             /\ i \in 1 .. Len(stack)
  <2>1. i = 1 \/ i \in 2 .. Len(stack)
    BY <1>1 DEF StackIs, OnTop
  <2>2. CASE i = 1
    BY <1>1, <2>2 DEF OnTop, StackIs
  <2>3. CASE i \in 2 .. Len(stack)
    BY <2>3 DEF OnTop, SoFar
  <2> QED
    BY <2>1, <2>2, <2>3
<1>3. ASSUME NEW i \in 2 .. Len(stack')
      PROVE  CallerSoFar(fs, recursive, cutShort, stack'[i - 1].path, stack'[i])
  <2>1. i - 1 \in 1 .. Len(stack') /\ i \in 2 .. Len(stack)
    BY <1>1 DEF StackIs, OnTop
  <2>2. stack'[i - 1].path = stack[i - 1].path /\ stack'[i] = stack[i]
    BY <1>2, <2>1 DEF OnTop
  <2> QED
    BY <2>1, <2>2 DEF SoFar
<1> QED
  BY <1>2, <1>3 DEF SoFar

LEMMA SoFarOpens ==
  ASSUME DoneInv, OpenDir, SoFar, ~error', UNCHANGED <<fs, recursive, cutShort>>
  PROVE  SoFar'
<1>1. /\ pc = "open" /\ pc' = "entry" /\ OnTop
      /\ stack'[1].seen = stack[1].seen /\ stack'[1].found = stack[1].found
      /\ stack'[1].first = Entries(stack[1].path)
  BY OpenDirDoes DEF DoneInv
<1>2. stack'[1].path = stack[1].path
  BY <1>1 DEF OnTop
<1>3. FirstIs(fs, stack'[1])
  BY <1>1, <1>2, InNow DEF FirstIs
<1>4. TopSoFar(fs, recursive, cutShort, pc', entry', stack'[1])
  BY <1>1, <1>2 DEF SoFar, TopSoFar, FoundIs
<1> QED
  BY <1>1, <1>3, <1>4, SoFarOnTop DEF DoneInv, Walking

LEMMA SoFarNext ==
  ASSUME DoneInv, NextEntry, SoFar, op = "read", ~error', UNCHANGED <<fs, recursive>>
  PROVE  SoFar'
<1>1. pc = "entry" /\ IInv /\ StackIs /\ Tree(fs) /\ ~error
  BY NextEntryDoes, StackOf DEF DoneInv, Walking, NextEntry
<1>2. /\ stack[1].path \in Paths /\ 1 \in 1 .. Len(stack)
      /\ Fills(stack[1].found, Part(stack[1].path, stack[1].seen), cutShort)
  <2>1. 1 \in 1 .. Len(stack)
    BY <1>1 DEF StackIs
  <2> QED
    BY <1>1, <2>1, InNow DEF StackIs, SoFar, TopSoFar, FoundIs
<1>3. CASE pc' = "close" /\ UNCHANGED stack /\ cutShort'
  <2>1. Fills(stack[1].found, Listed(stack[1].path), cutShort')
    BY <1>2, <1>3 DEF Fills, Part
  <2>2. TopSoFar(fs, recursive, cutShort', pc', entry', stack[1])
    BY <1>3, <2>1, InNow DEF TopSoFar
  <2>3. ASSUME NEW i \in 2 .. Len(stack)
        PROVE  CallerSoFar(fs, recursive, cutShort', stack[i - 1].path, stack[i])
    BY <1>3 DEF SoFar, CallerSoFar, FoundIs, Fills
  <2> QED
    BY <1>3, <2>2, <2>3 DEF SoFar
<1>4. CASE pc' = "close" /\ UNCHANGED stack /\ ~cutShort'
           /\ Entries(stack[1].path) \intersect stack[1].first \subseteq stack[1].seen
  <2>1. stack[1].first = Entries(stack[1].path)
    BY <1>1, <1>2, InNow DEF SoFar, FirstIs, IInv, OpenOnes, Walking
  <2>2. Part(stack[1].path, stack[1].seen) = Listed(stack[1].path)
    BY <1>1, <1>2, <1>4, <2>1, PartOfAll
  <2>3. Fills(stack[1].found, ListedIn(fs, recursive, stack[1].path), cutShort)
    BY <1>2, <2>2, InNow
  <2>4. TopSoFar(fs, recursive, cutShort, pc', entry', stack[1])
    BY <1>4, <2>3 DEF TopSoFar
  <2>5. ~cutShort
    BY <1>4, NextEntryDoes DEF DoneInv
  <2>6. cutShort' = FALSE /\ cutShort = FALSE => SoFar'
    BY <1>4, <2>4 DEF SoFar
  <2> QED
    BY <1>1, <1>4, <2>5, <2>6 DEF DoneInv
<1>5. CASE pc' # "close" \/ stack' # stack
  <2>1. /\ OnTop /\ cutShort' = cutShort
        /\ stack'[1].opened = stack[1].opened /\ stack'[1].first = stack[1].first
    BY <1>1, <1>5, NextEntryDoes
  <2>2. PICK n \in Entries(stack[1].path) \ stack[1].seen :
          /\ entry' = n /\ stack'[1].seen = stack[1].seen \union {n}
          /\ IF Skips(n)
               THEN pc' = "entry" /\ stack'[1].found = stack[1].found
             ELSE IF ListsNames
               THEN pc' = "entry" /\ stack'[1].found = stack[1].found \union {<<n>>}
               ELSE pc' = "stat" /\ stack'[1].found = stack[1].found
    BY <1>1, <1>5, NextEntryDoes
  <2>3. stack'[1].path = stack[1].path
    BY <2>1 DEF OnTop
  <2>4. FirstIs(fs, stack'[1])
    BY <1>2, <2>1, <2>3 DEF SoFar, FirstIs
  <2>5. Fills(stack[1].found \union Part(stack[1].path, {n}),
              Part(stack[1].path, stack[1].seen \union {n}), cutShort)
    <3>1. Fills(stack[1].found \union Part(stack[1].path, {n}),
                Part(stack[1].path, stack[1].seen) \union Part(stack[1].path, {n}), cutShort)
      BY <1>2, FillsMore, FillsSame, Zenon
    <3> QED
      BY <3>1, PartOfTwo
  <2>6. ASSUME Skips(n)
        PROVE  TopSoFar(fs, recursive, cutShort, pc', entry', stack'[1])
    <3>1. Part(stack[1].path, {n}) = {}
      BY <1>1, <1>2, <2>6, PartOfExcluded DEF Skips
    <3>2. Fills(stack'[1].found, PartIn(fs, recursive, stack[1].path, stack'[1].seen), cutShort)
      BY <2>2, <2>5, <2>6, <3>1, InNow
    <3> QED
      BY <2>2, <2>3, <2>6, <3>2 DEF TopSoFar, FoundIs
  <2>7. ASSUME ~Skips(n) /\ ListsNames
        PROVE  TopSoFar(fs, recursive, cutShort, pc', entry', stack'[1])
    <3>1. n \notin Excluded /\ ~recursive
      BY <2>7 DEF Skips, ListsNames
    <3>2. Part(stack[1].path, {n}) = {<<n>>}
      BY <1>1, <1>2, <3>1, PartOfName
    <3>3. Fills(stack'[1].found, PartIn(fs, recursive, stack[1].path, stack'[1].seen), cutShort)
      BY <2>2, <2>5, <2>7, <3>2, InNow
    <3> QED
      BY <2>2, <2>3, <2>7, <3>3 DEF TopSoFar, FoundIs
  <2>8. ASSUME ~Skips(n) /\ ~ListsNames
        PROVE  TopSoFar(fs, recursive, cutShort, pc', entry', stack'[1])
    <3>1. n \notin Excluded /\ recursive = TRUE
      BY <2>8 DEF Skips, ListsNames, DoneInv
    <3>2. stack'[1].seen \ {n} = stack[1].seen /\ n \in stack'[1].seen
      BY <2>2
    <3>3. Fills(stack'[1].found, PartIn(fs, recursive, stack[1].path, stack'[1].seen \ {n}),
                cutShort)
      BY <1>2, <2>2, <2>8, <3>2, InNow
    <3> QED
      BY <2>2, <2>3, <2>8, <3>1, <3>2, <3>3 DEF TopSoFar, FoundIs
  <2>9. TopSoFar(fs, recursive, cutShort, pc', entry', stack'[1])
    BY <2>6, <2>7, <2>8
  <2> QED
    BY <1>1, <2>1, <2>4, <2>9, SoFarOnTop DEF Walking
<1> QED
  BY <1>1, <1>3, <1>4, <1>5, NextEntryDoes

LEMMA SoFarAsks ==
  ASSUME DoneInv, Stat, SoFar, op = "read", ~error',
         UNCHANGED <<fs, recursive, target, cutShort>>
  PROVE  SoFar'
<1>1. /\ pc = "stat" /\ IInv /\ Chain /\ StackIs /\ Tree(fs) /\ entry \in Names
      /\ EntryPath(entry) \in Paths /\ entry' = entry
      /\ EntryPath(entry) = Under(stack[1].path, entry)
  BY StatDoes, StackOf DEF DoneInv, Walking, IInv, Shape
<1>2. /\ stack[1].path \in Paths /\ recursive = TRUE /\ entry \in stack[1].seen \ Excluded
      /\ Fills(stack[1].found, Part(stack[1].path, stack[1].seen \ {entry}), cutShort)
  <2>1. 1 \in 1 .. Len(stack)
    BY <1>1 DEF StackIs
  <2> QED
    BY <1>1, <2>1, InNow DEF StackIs, SoFar, TopSoFar, FoundIs
<1>3. CASE Walks
  <2>1. pc' = "open" /\ fs[EntryPath(entry)] = "dir"
    <3>1. ~OnTop /\ stack' # stack
      BY <1>1, <1>3 DEF Walks, OnTop, StackIs
    <3> QED
      BY <1>1, <3>1, StatDoes DEF SameButFound
  <2>2. /\ Len(stack') = Len(stack) + 1 /\ stack'[1] = Frame(EntryPath(entry))
        /\ \A i \in 2 .. Len(stack) + 1 : stack'[i] = stack[i - 1]
    BY <1>3 DEF Walks
  <2>3. stack'[1].path = EntryPath(entry) /\ LastName(stack'[1].path) = entry
    BY <1>1, <1>3, ChainWalks
  <2>4. FirstIs(fs, stack'[1]) /\ TopSoFar(fs, recursive, cutShort, pc', entry', stack'[1])
    BY <2>1, <2>2 DEF FirstIs, TopSoFar, FoundIs, Fills, PartIn, Frame
  <2>5. ASSUME NEW i \in 1 .. Len(stack')
        PROVE  FirstIs(fs, stack'[i])
    <3>1. CASE i = 1
      BY <2>4, <3>1
    <3>2. CASE i # 1
      <4>1. i \in 2 .. Len(stack) + 1 /\ i - 1 \in 1 .. Len(stack)
        BY <1>1, <2>2, <3>2 DEF StackIs
      <4> QED
        BY <2>2, <4>1 DEF SoFar
    <3> QED
      BY <3>1, <3>2
  <2>6. ASSUME NEW i \in 2 .. Len(stack')
        PROVE  CallerSoFar(fs, recursive, cutShort, stack'[i - 1].path, stack'[i])
    <3>1. CASE i = 2
      <4>1. stack'[2] = stack[1] /\ i - 1 = 1
        BY <1>1, <2>2, <3>1 DEF StackIs
      <4>2. Fills(stack[1].found, PartIn(fs, recursive, stack[1].path, stack[1].seen \ {entry}),
                  cutShort)
        BY <1>2, InNow
      <4>3. CallerSoFar(fs, recursive, cutShort, stack'[1].path, stack[1])
        BY <1>2, <2>1, <2>3, <4>2 DEF CallerSoFar, FoundIs
      <4> QED
        BY <3>1, <4>1, <4>3
    <3>2. CASE i # 2
      <4>1. /\ i \in 2 .. Len(stack) + 1 /\ i - 1 \in 2 .. Len(stack)
            /\ i - 1 \in 2 .. Len(stack) + 1
        BY <1>1, <2>2, <3>2 DEF StackIs
      <4>2. stack'[i] = stack[i - 1] /\ stack'[i - 1] = stack[(i - 1) - 1]
        BY <2>2, <4>1
      <4> QED
        BY <4>1, <4>2 DEF SoFar
    <3> QED
      BY <3>1, <3>2
  <2> QED
    BY <2>4, <2>5, <2>6 DEF SoFar
<1>4. CASE ~Walks
  <2>1. /\ pc' = "entry" /\ OnTop /\ stack'[1].seen = stack[1].seen
        /\ stack'[1].opened = stack[1].opened /\ stack'[1].first = stack[1].first
        /\ stack'[1].found = stack[1].found \union {<<entry>>}
        /\ fs[Under(stack[1].path, entry)] = "file"
    BY <1>1, <1>4, StatDoes DEF SameButFound
  <2>2. stack'[1].path = stack[1].path
    BY <2>1 DEF OnTop
  <2>3. entry \in Entries(stack[1].path)
    <3>1. Len(Under(stack[1].path, entry)) <= Depth /\ stack[1].path \in Seq(Names)
          /\ Depth \in Nat
      BY <1>1, <1>2, PathsAre, FsAssumption
    <3>2. Len(Under(stack[1].path, entry)) = Len(stack[1].path) + 1 /\ Len(stack[1].path) \in Nat
      BY <1>1, <3>1, UnderIs, LenProperties
    <3>3. Len(stack[1].path) # Depth
      BY <3>1, <3>2
    <3> QED
      BY <1>1, <2>1, <3>3 DEF Entries
  <2>4. Part(stack[1].path, {entry}) = {<<entry>>}
    BY <1>1, <1>2, <2>1, <2>3, PartOfFile
  <2>5. (stack[1].seen \ {entry}) \union {entry} = stack[1].seen
    BY <1>2
  <2>6. Fills(stack'[1].found, Part(stack[1].path, stack[1].seen), cutShort)
    <3>1. Fills(stack[1].found \union Part(stack[1].path, {entry}),
                Part(stack[1].path, stack[1].seen \ {entry}) \union Part(stack[1].path, {entry}),
                cutShort)
      BY <1>2, FillsMore, FillsSame, Zenon
    <3>2. stack'[1].found = stack[1].found \union Part(stack[1].path, {entry})
      BY <2>1, <2>4, Zenon
    <3>3. Part(stack[1].path, stack[1].seen \ {entry}) \union Part(stack[1].path, {entry})
            = Part(stack[1].path, (stack[1].seen \ {entry}) \union {entry})
      BY PartOfTwo
    <3>4. Part(stack[1].path, (stack[1].seen \ {entry}) \union {entry})
            = Part(stack[1].path, stack[1].seen)
      BY <2>5
    <3>5. Part(stack[1].path, stack[1].seen \ {entry}) \union Part(stack[1].path, {entry})
            = Part(stack[1].path, stack[1].seen)
      BY <3>3, <3>4
    <3> QED
      BY <3>1, <3>2, <3>5
  <2>7. Fills(stack'[1].found, PartIn(fs, recursive, stack[1].path, stack'[1].seen), cutShort)
    BY <2>1, <2>6, InNow
  <2>8. TopSoFar(fs, recursive, cutShort, pc', entry', stack'[1])
    BY <2>1, <2>2, <2>7 DEF TopSoFar, FoundIs
  <2>9. FirstIs(fs, stack'[1])
    <3>1. 1 \in 1 .. Len(stack)
      BY <1>1 DEF StackIs
    <3> QED
      BY <2>1, <2>2, <3>1 DEF SoFar, FirstIs
  <2> QED
    BY <1>1, <2>1, <2>8, <2>9, SoFarOnTop DEF Walking
<1> QED
  BY <1>3, <1>4

LEMMA SoFarPops ==
  ASSUME DoneInv, pc = "close", SoFar, Comes, Len(stack) # 1,
         UNCHANGED <<fs, recursive, target, cutShort>>
  PROVE  SoFar'
<1>1. IInv /\ Chain /\ StackIs /\ Tree(fs)
  BY StackOf DEF DoneInv, Walking
<1>2. Pops /\ pc' = "entry" /\ \A i \in 1 .. Len(stack') : stack'[i].path = stack[i + 1].path
  BY <1>1, ChainPops DEF Comes
<1>3. /\ 1 \in 1 .. Len(stack) /\ 2 \in 1 .. Len(stack) /\ 2 \in 2 .. Len(stack) /\ 2 - 1 = 1
  <2>1. \A k \in Nat : k >= 1 /\ k # 1 => 1 \in 1 .. k /\ 2 \in 2 .. k /\ 2 \in 1 .. k /\ 2 - 1 = 1
    BY SMT
  <2> QED
    BY <1>1, <2>1, Zenon DEF StackIs
<1> DEFINE child == LastName(stack[1].path)
<1>4. stack[1].path \in Paths /\ stack[2].path \in Paths
  BY <1>1, <1>3 DEF StackIs
<1>5. child \in Names /\ stack[1].path = Under(stack[2].path, child)
  <2>1. /\ stack[1].path \in Seq(Names) /\ Len(stack[1].path) > 0
        /\ Len(stack[1].path) \in Nat
    BY <1>1, <1>3 DEF IInv, WithinTarget, StackIs
  <2>2. Len(stack[1].path) \in 1 .. Len(stack[1].path)
    BY <2>1
  <2>3. child \in Names
    BY <2>1, <2>2, ElementOfSeq DEF LastName
  <2>4. stack[1].path = Under(stack[2].path, child)
    BY <1>1, <1>3 DEF Chain, Walking
  <2> QED
    BY <2>3, <2>4
<1>6. /\ recursive = TRUE /\ fs[stack[1].path] = "dir" /\ child \in stack[2].seen \ Excluded
      /\ Fills(stack[2].found, Part(stack[2].path, stack[2].seen \ {child}), cutShort)
  <2>1. CallerSoFar(fs, recursive, cutShort, stack[1].path, stack[2])
    BY <1>3 DEF SoFar
  <2> QED
    BY <2>1, InNow DEF CallerSoFar, FoundIs
<1>7. Fills(stack[1].found, Listed(stack[1].path), cutShort)
  BY InNow DEF SoFar, TopSoFar
<1>8. child \in Entries(stack[2].path)
  <2>1. Len(Under(stack[2].path, child)) <= Depth /\ stack[2].path \in Seq(Names)
        /\ Depth \in Nat
    BY <1>4, <1>5, PathsAre, FsAssumption
  <2>2. Len(Under(stack[2].path, child)) = Len(stack[2].path) + 1 /\ Len(stack[2].path) \in Nat
    BY <1>5, <2>1, UnderIs, LenProperties
  <2>3. Len(stack[2].path) # Depth
    BY <2>1, <2>2
  <2>4. fs[Under(stack[2].path, child)] # "none"
    BY <1>5, <1>6
  <2> QED
    BY <1>5, <2>3, <2>4 DEF Entries
<1>9. Fills(FoundUnder(stack[1]), Part(stack[2].path, {child}), cutShort)
  <2>1. Fills(FoundUnder(stack[1]), {<<child>> \o r : r \in Listed(stack[1].path)}, cutShort)
    BY <1>7 DEF FoundUnder, LastName, Fills
  <2>2. fs[Under(stack[2].path, child)] = "dir" /\ child \notin Excluded
    BY <1>5, <1>6
  <2>3. Part(stack[2].path, {child}) = {<<child>> \o r : r \in Listed(Under(stack[2].path, child))}
    BY <1>1, <1>4, <1>6, <1>8, <2>2, PartOfDirectory
  <2> QED
    BY <1>5, <2>1, <2>3, Zenon
<1>10. Fills(stack'[1].found, PartIn(fs, recursive, stack'[1].path, stack'[1].seen), cutShort)
  <2>1. (stack[2].seen \ {child}) \union {child} = stack[2].seen
    BY <1>6
  <2>2. Fills(stack[2].found \union FoundUnder(stack[1]),
              Part(stack[2].path, (stack[2].seen \ {child}) \union {child}), cutShort)
    BY <1>6, <1>9, PartOfTwo, FillsMore
  <2>3. Fills(stack[2].found \union FoundUnder(stack[1]),
              PartIn(fs, recursive, stack[2].path, stack[2].seen), cutShort)
    BY <2>1, <2>2, InNow
  <2> QED
    BY <1>2, <2>3 DEF Pops
<1>11. TopSoFar(fs, recursive, cutShort, pc', entry', stack'[1])
  BY <1>2, <1>10 DEF TopSoFar, FoundIs
<1>12. ASSUME NEW i \in 1 .. Len(stack')
       PROVE  FirstIs(fs, stack'[i])
  <2>1. i + 1 \in 1 .. Len(stack) /\ (i = 1 \/ i \in 2 .. Len(stack) - 1)
    BY <1>1, <1>2 DEF StackIs, Pops
  <2>2. FirstIs(fs, stack[i + 1])
    BY <2>1 DEF SoFar
  <2>3. CASE i = 1
    <3>1. i + 1 = 2
      BY <2>3
    <3>2. FirstIs(fs, stack[2])
      BY <2>2, <3>1, Zenon
    <3>3. FirstIs(fs, stack'[1])
      BY <1>2, <3>2 DEF FirstIs, Pops
    <3> QED
      BY <2>3, <3>3, Zenon
  <2>4. CASE i \in 2 .. Len(stack) - 1
    BY <1>2, <2>2, <2>4 DEF Pops
  <2> QED
    BY <2>1, <2>3, <2>4
<1>13. ASSUME NEW i \in 2 .. Len(stack')
       PROVE  CallerSoFar(fs, recursive, cutShort, stack'[i - 1].path, stack'[i])
  <2>1. /\ i \in 2 .. Len(stack) - 1 /\ i + 1 \in 2 .. Len(stack) /\ (i + 1) - 1 = i
        /\ i - 1 \in 1 .. Len(stack') /\ (i - 1) + 1 = i
    BY <1>1, <1>2 DEF StackIs, Pops
  <2>2. stack'[i] = stack[i + 1] /\ stack'[i - 1].path = stack[i].path
    BY <1>2, <2>1 DEF Pops
  <2>3. CallerSoFar(fs, recursive, cutShort, stack[(i + 1) - 1].path, stack[i + 1])
    BY <2>1 DEF SoFar
  <2> QED
    BY <2>1, <2>2, <2>3
<1> QED
  BY <1>11, <1>12, <1>13 DEF SoFar

(* What a call without an error has done when it returns.                   *)
LEMMA TargetGone ==
  ASSUME Tree(fs'), target \in Paths, fs'[target] = "none"
  PROVE  \A p \in Below(target) : fs'[p] = "none"
<1> SUFFICES ASSUME NEW p \in Below(target), fs'[p] # "none"
             PROVE  FALSE
  OBVIOUS
<1>1. /\ p \in Paths /\ p \in Seq(Names) /\ Len(p) >= Len(target)
      /\ SubSeq(p, 1, Len(target)) = target
  BY PathsAre DEF Below
<1>2. Len(p) \in Nat /\ Len(target) \in Nat
  BY <1>1, PathsAre, LenProperties
<1>3. CASE Len(p) = Len(target)
  <2>1. p = target
    BY <1>1, <1>3, SubSeqFull
  <2> QED
    BY <2>1
<1>4. CASE Len(p) # Len(target)
  <2>1. Len(target) \in 0 .. Len(p) - 1
    BY <1>1, <1>2, <1>4
  <2>2. fs'[SubSeq(p, 1, Len(target))] = "dir"
    BY <1>1, <2>1 DEF Tree
  <2> QED
    BY <1>1, <2>2
<1> QED
  BY <1>3, <1>4

LEMMA Removed ==
  ASSUME DoneInv, Tree(fs'), Rmdir
  PROVE  DoneWithoutError'
<1>1. /\ pc = "rmdir" /\ Comes /\ UNCHANGED <<op, target>> /\ op = "remove"
      /\ target \in Paths /\ fs \in [Paths -> Kinds] /\ Top = stack[1] /\ Top.path \in Paths
      /\ error \in BOOLEAN
  BY ReturnDoes, TopIs DEF DoneInv, IInv, Shape, OnlyRemoves, Rmdir, callVars, Walking
<1>2. ASSUME pc' = "idle", ~error'
      PROVE  \A p \in Below(target) : fs'[p] = "none"
  <2>1. Len(stack) = 1
    BY <1>1, <1>2 DEF Comes
  <2>2. Top.path = target
    BY <1>1, <2>1 DEF DoneInv, Chain, Walking
  <2>3. fs' = [fs EXCEPT ![Top.path] = "none"]
    BY <1>2 DEF Rmdir
  <2>4. fs'[target] = "none"
    BY <1>1, <2>2, <2>3
  <2> QED
    BY <1>1, <2>4, TargetGone
<1>3. Below(target)' = Below(target)
  BY <1>1 DEF Below
<1> QED
  BY <1>1, <1>2, <1>3 DEF DoneWithoutError

LEMMA Created ==
  ASSUME DoneInv, Exists \/ Mkdir
  PROVE  DoneWithoutError'
<1>1. op' = "create" /\ UNCHANGED target /\ target \in Paths /\ fs \in [Paths -> Kinds]
  BY DEF DoneInv, CreatesOnly, Exists, Mkdir, callVars, IInv, Shape
<1>2. Finished => Prefix = target
  <2>1. target \in Seq(Names)
    BY <1>1, PathsAre
  <2> QED
    BY <2>1, SubSeqFull DEF Finished, Prefix
<1>3. ASSUME pc' = "idle", ~error'
      PROVE  fs'[target] = "dir"
  <2>1. CASE Exists
    <3>1. Finished /\ fs[Prefix] = "dir" /\ UNCHANGED fs
      BY <1>3, <2>1 DEF Exists, deviceVars
    <3> QED
      BY <1>2, <3>1
  <2>2. CASE Mkdir
    <3>1. Finished /\ fs' = [fs EXCEPT ![Prefix] = "dir"]
      BY <1>3, <2>2 DEF Mkdir
    <3> QED
      BY <1>1, <1>2, <3>1
  <2> QED
    BY <2>1, <2>2
<1> QED
  BY <1>1, <1>3 DEF DoneWithoutError

LEMMA ListedAll ==
  ASSUME DoneInv, HostStep, op = "read"
  PROVE  ListedSoFar' /\ DoneWithoutError'
<1>1. pc \in Walking /\ IInv /\ Chain
  BY DEF HostStep, OpenDir, NextEntry, Stat, Unlink, CloseDir, Rmdir, Exists, Mkdir,
         DoneInv, CreatesOnly, Walking
<1>2. /\ UNCHANGED <<op, target, recursive, disturbed, fs>> /\ (error => error')
      /\ ~NextEntry => UNCHANGED cutShort
      /\ StackIs
  BY <1>1, HostKeeps, StackOf
<1>3. CASE error' \/ disturbed'
  BY <1>3 DEF ListedSoFar, DoneWithoutError
<1>4. CASE ~error' /\ ~disturbed'
  <2>1. SoFar
    BY <1>1, <1>2, <1>4 DEF DoneInv, ListedSoFar
  <2>2. CASE OpenDir
    BY <1>2, <1>4, <2>1, <2>2, SoFarOpens DEF ListedSoFar, DoneWithoutError, OpenDir, history
  <2>3. CASE NextEntry
    <3>1. pc' # "idle"
      BY <1>1, <2>3, NextEntryDoes
    <3> QED
      BY <1>2, <1>4, <2>1, <2>3, <3>1, SoFarNext DEF ListedSoFar, DoneWithoutError
  <2>4. CASE Stat
    <3>1. pc' # "idle"
      BY <1>1, <2>4, StatDoes
    <3> QED
      BY <1>2, <1>4, <2>1, <2>4, <3>1, SoFarAsks DEF ListedSoFar, DoneWithoutError, Stat, history
  <2>5. CASE CloseDir
    <3>1. pc = "close" /\ Comes /\ UNCHANGED cutShort
      BY <1>1, <2>5, ReturnDoes DEF CloseDir, history
    <3>2. CASE Len(stack) = 1
      <4>1. pc' = "idle" /\ result' = stack[1].found
        BY <3>1, <3>2 DEF Comes
      <4>2. /\ stack[1].path = target
            /\ Fills(stack[1].found, ListedIn(fs, recursive, stack[1].path), cutShort)
        BY <1>1, <2>1, <3>1, <3>2 DEF Chain, SoFar, TopSoFar
      <4>3. Listed(target)' = ListedIn(fs', recursive', target')
        BY DEF Listed, ListedIn
      <4>4. Fills(result', Listed(target)', cutShort')
        BY <1>2, <3>1, <4>1, <4>2, <4>3, Zenon
      <4> QED
        BY <1>2, <4>1, <4>4 DEF ListedSoFar, DoneWithoutError, Walking, Fills
    <3>3. CASE Len(stack) # 1
      <4>1. pc' = "entry"
        BY <3>1, <3>3 DEF Comes
      <4>2. SoFar'
        BY <1>2, <2>1, <3>1, <3>3, SoFarPops
      <4> QED
        BY <4>1, <4>2 DEF ListedSoFar, DoneWithoutError
    <3> QED
      BY <3>2, <3>3
  <2>6. CASE Unlink \/ Rmdir \/ Exists \/ Mkdir
    BY <1>1, <2>6 DEF IInv, OnlyRemoves, Unlink, Rmdir, Exists, Mkdir, Walking
  <2> QED
    BY <2>2, <2>3, <2>4, <2>5, <2>6 DEF HostStep
<1> QED
  BY <1>3, <1>4

LEMMA DoneKept ==
  ASSUME DoneInv, [Next]_vars
  PROVE  ListedSoFar' /\ DoneWithoutError'
<1>1. CASE Call
  <2>1. /\ UNCHANGED fs /\ pc' # "idle" /\ target' \in Paths
        /\ op' = "read" => pc' = "open" /\ stack' = <<Frame(target')>>
    BY <1>1 DEF Call, deviceVars
  <2>2. ASSUME op' = "read"
        PROVE  SoFar'
    <3>1. Len(stack') = 1 /\ stack'[1] = Frame(target')
      BY <2>1, <2>2
    <3>2. /\ Frame(target').opened = FALSE /\ Frame(target').found = {}
          /\ Frame(target').seen = {}
      BY DEF Frame
    <3>3. TopSoFar(fs', recursive', cutShort', pc', entry', stack'[1])
      BY <2>1, <2>2, <3>1, <3>2 DEF TopSoFar, FoundIs, Fills, PartIn
    <3>4. FirstIs(fs', stack'[1])
      BY <3>1, <3>2 DEF FirstIs
    <3>5. \A i \in 1 .. Len(stack') : i = 1
      BY <3>1
    <3>6. \A i \in 2 .. Len(stack') : FALSE
      BY <3>1
    <3> QED
      BY <3>3, <3>4, <3>5, <3>6 DEF SoFar
  <2> QED
    BY <2>1, <2>2 DEF ListedSoFar, DoneWithoutError
<1>2. CASE Change
  BY <1>2 DEF Change, ListedSoFar, DoneWithoutError
<1>3. CASE UNCHANGED vars
  <2>1. UNCHANGED <<fs, recursive, pc, entry, stack, op, error, disturbed, cutShort, target, result>>
    BY <1>3 DEF vars, deviceVars, callVars, history
  <2>2. SoFar => SoFar'
    BY <2>1 DEF SoFar
  <2>3. ListedSoFar'
    BY <2>1, <2>2 DEF DoneInv, ListedSoFar
  <2>4. DoneWithoutError'
    BY <2>1 DEF DoneInv, DoneWithoutError, Below, Listed
  <2> QED
    BY <2>3, <2>4
<1>4. CASE HostStep /\ op = "read"
  BY <1>4, ListedAll
<1>5. CASE HostStep /\ op # "read"
  <2>1. op' = op
    BY <1>5, HostKeeps DEF DoneInv
  <2>2. ListedSoFar'
    BY <1>5, <2>1 DEF ListedSoFar
  <2>3. CASE Rmdir
    BY <2>2, <2>3, TreeKept, Removed DEF DoneInv
  <2>4. CASE Exists \/ Mkdir
    BY <2>2, <2>4, Created
  <2>5. CASE OpenDir \/ NextEntry \/ Stat
    <3>1. pc' # "idle"
      BY <2>5, OpenDirDoes, NextEntryDoes, StatDoes DEF DoneInv
    <3> QED
      BY <2>2, <3>1 DEF DoneWithoutError
  <2>6. CASE Unlink \/ CloseDir
    <3>1. pc' # "idle"
      BY <1>5, <2>6 DEF Unlink, CloseDir, DoneInv, IInv, OnlyRemoves, Walking
    <3> QED
      BY <2>2, <3>1 DEF DoneWithoutError
  <2> QED
    BY <1>5, <2>2, <2>3, <2>4, <2>5, <2>6 DEF HostStep
<1> QED
  BY <1>1, <1>2, <1>3, <1>4, <1>5 DEF Next

LEMMA DoneInvKept ==
  /\ Init => DoneInv
  /\ DoneInv /\ [Next]_vars => DoneInv'
<1>1. ASSUME Init
      PROVE  DoneInv
  BY <1>1, InitHolds DEF DoneInv, Init, Chain, CreatesOnly, ListedSoFar, DoneWithoutError,
                         Walking
<1>2. ASSUME DoneInv, [Next]_vars
      PROVE  DoneInv'
  <2>1. IInv' /\ Tree(fs)'
    BY <1>2, StepKeeps, TreeKept DEF DoneInv, Tree
  <2>2. (recursive \in BOOLEAN)'
    <3>1. CASE Call
      BY <3>1 DEF Call
    <3>2. CASE HostStep
      BY <1>2, <3>2, HostKeeps DEF DoneInv
    <3>3. CASE Change \/ UNCHANGED vars
      BY <1>2, <3>3 DEF DoneInv, Change, vars, callVars
    <3> QED
      BY <1>2, <3>1, <3>2, <3>3 DEF Next
  <2> QED
    BY <1>2, <2>1, <2>2, ChainKept, CreatesOnlyKept, DoneKept DEF DoneInv
<1> QED
  BY <1>1, <1>2

(* A call that returns without an error, while no program on the device     *)
(* changed the tree, has done what it is for, however deep the tree: nothing*)
(* is left at or below the target of remove_directory, read_directory       *)
(* returned nothing but what is there to be listed, and all of it unless a  *)
(* request for an entry failed, which the code takes for the end of the     *)
(* directory, and create_directory's target is a directory.                 *)
THEOREM DoesItsWork == Spec => []DoneWithoutError
<1>1. DoneInv => DoneWithoutError
  BY DEF DoneInv
<1> QED
  BY <1>1, DoneInvKept, PTL DEF Spec

-----------------------------------------------------------------------------
(* Types.  The stack is as deep as its innermost directory, what was found  *)
(* below a directory is a path, and the handles a call leaves open are not  *)
(* more than the tree is deep.                                              *)
Kept ==
  /\ changes \in 0 .. MaxChanges
  /\ op \in {"none", "remove", "read", "create"}
  /\ recursive \in BOOLEAN /\ disturbed \in BOOLEAN /\ cutShort \in BOOLEAN
  /\ existed \subseteq Paths \X {"file", "dir"}

Places ==
  /\ pc \in Walking \union {"idle", "exists", "mkdir"}
  /\ pc \notin Walking => stack = <<>>
  /\ entry \in Names \union 0 .. Depth
  /\ pc \in {"exists", "mkdir"} => entry \in 0 .. Len(target)

FitsBelow(p, found) == \A q \in found : Len(p) + Len(q) <= Depth

Deep ==
  /\ pc \in Walking =>
       /\ Len(stack) <= Len(stack[1].path) + 1
       /\ \A i \in 1 .. Len(stack) : FitsBelow(stack[i].path, stack[i].found)
  /\ result \subseteq Paths

MayStayOpen(n) == n * (Depth + 1)

FewOpen ==
  /\ calls \in 0 .. MaxCalls
  /\ handles >= 0 /\ before >= 0
  /\ handles <= MayStayOpen(calls) /\ before <= MayStayOpen(calls)
  /\ pc # "idle" => before + (Depth + 1) <= MayStayOpen(calls)

TypeInv == IInv /\ Tree(fs) /\ Chain /\ Kept /\ Places /\ Deep /\ FewOpen

LEMMA MoreCalls ==
  ASSUME NEW n \in Nat
  PROVE  /\ MayStayOpen(n) \in Nat /\ MayStayOpen(n + 1) = MayStayOpen(n) + (Depth + 1)
         /\ n <= MaxCalls => MayStayOpen(n) <= MayStayOpen(MaxCalls)
<1>1. Depth + 1 \in Nat /\ MaxCalls \in Nat
  BY FsAssumption
<1>2. \A a, b, d \in Nat : /\ a * d \in Nat /\ (a + 1) * d = a * d + d
                           /\ a <= b => a * d <= b * d
  BY SMT
<1> QED
  BY <1>1, <1>2 DEF MayStayOpen

LEMMA HoldsTypes ==
  ASSUME NEW f \in [Paths -> Kinds]
  PROVE  Holds(f) \subseteq Paths \X {"file", "dir"}
BY DEF Holds, Kinds

LEMMA KeptKept ==
  ASSUME IInv, IInv', Kept, [Next]_vars
  PROVE  Kept'
<1>1. fs \in [Paths -> Kinds] /\ fs' \in [Paths -> Kinds]
  BY DEF IInv, Shape
<1>2. CASE Call
  BY <1>1, <1>2, HoldsTypes DEF Call, Kept
<1>3. CASE HostStep
  <2>1. UNCHANGED changes /\ cutShort' \in {cutShort, TRUE}
    BY <1>3 DEF HostStep, OpenDir, NextEntry, Stat, Unlink, CloseDir, Rmdir, Exists, Mkdir,
                history
  <2> QED
    BY <1>3, <2>1, HostKeeps DEF Kept
<1>4. CASE Change
  <2>1. /\ UNCHANGED <<op, recursive, cutShort>> /\ disturbed' = TRUE
        /\ existed' = existed \union Holds(fs')
    BY <1>4 DEF Change, callVars
  <2>2. changes' \in 0 .. MaxChanges
    BY <1>4, FsAssumption DEF Change, Kept
  <2> QED
    BY <1>1, <2>1, <2>2, HoldsTypes DEF Kept
<1>5. CASE UNCHANGED vars
  BY <1>5 DEF vars, callVars, history, Kept
<1> QED
  BY <1>2, <1>3, <1>4, <1>5 DEF Next

LEMMA PlacesKept ==
  ASSUME IInv, Places, [Next]_vars
  PROVE  Places'
<1>1. Depth \in Nat /\ target \in Paths
  BY FsAssumption DEF IInv, Shape
<1>2. CASE Call
  <2>1. /\ target' \in Paths /\ pc' \in {"exists", "rmdir", "open"}
        /\ pc' = "exists" => op' = "create" /\ stack' = <<>>
        /\ entry' = IF op' # "create" THEN 0
                    ELSE IF recursive' /\ target' # <<>> THEN 1 ELSE Len(target')
    BY <1>2 DEF Call
  <2>2. /\ target' \in Seq(Names) /\ Len(target') <= Depth /\ Len(target') \in Nat
        /\ target' # <<>> => Len(target') # 0
    BY <2>1, PathsAre, LenProperties, EmptySeq
  <2>3. entry' \in 0 .. Depth /\ (op' = "create" => entry' \in 0 .. Len(target'))
    BY <1>1, <2>1, <2>2
  <2> QED
    BY <2>1, <2>3 DEF Places, Walking
<1>3. CASE NextEntry
  <2>1. /\ pc' \in {"entry", "stat", "close"}
        /\ entry' \in Names \/ entry' = entry
    BY <1>3 DEF NextEntry, Entries
  <2> QED
    BY <2>1 DEF Places, Walking
<1>4. CASE OpenDir \/ Stat \/ Unlink
  <2>1. pc' \in {"entry", "open", "unlink", "close"} /\ entry' = entry
    BY <1>4 DEF OpenDir, Stat, Unlink
  <2> QED
    BY <2>1 DEF Places, Walking
<1>5. CASE CloseDir \/ Rmdir
  <2>1. entry' = entry /\ (pc' \in {"rmdir", "entry"} \/ (pc' = "idle" /\ stack' = <<>>))
    BY <1>5 DEF CloseDir, Rmdir, Return
  <2> QED
    BY <2>1 DEF Places, Walking
<1>6. CASE Exists \/ Mkdir
  <2>1. /\ pc \in {"exists", "mkdir"} /\ pc' \in {"idle", "exists", "mkdir"}
        /\ UNCHANGED <<target, stack>>
        /\ entry' = entry \/ (~Finished /\ entry' = entry + 1)
    BY <1>6 DEF Exists, Mkdir, callVars
  <2>2. Len(target) \in Nat /\ Len(target) <= Depth
    BY <1>1, PathsAre, LenProperties
  <2>3. entry \in 0 .. Len(target) /\ stack = <<>>
    BY <2>1 DEF Places, Walking
  <2>4. entry' \in 0 .. Len(target) /\ entry' \in 0 .. Depth
    BY <1>1, <2>1, <2>2, <2>3 DEF Finished
  <2> QED
    BY <2>1, <2>3, <2>4 DEF Places, Walking
<1>7. CASE Change \/ UNCHANGED vars
  BY <1>7 DEF Change, vars, callVars, Places
<1> QED
  BY <1>2, <1>3, <1>4, <1>5, <1>6, <1>7 DEF Next, HostStep

LEMMA FewOpenKept ==
  ASSUME IInv, Deep, FewOpen, [Next]_vars
  PROVE  FewOpen'
<1>1. /\ Depth \in Nat /\ MaxCalls \in Nat /\ calls \in Nat /\ MayStayOpen(calls) \in Nat
      /\ handles \in Int /\ before \in Int
  BY FsAssumption, MoreCalls DEF FewOpen, IInv, Shape
<1>2. CASE Call
  <2>1. /\ calls' = calls + 1 /\ calls < MaxCalls /\ handles' = handles /\ before' = handles
    BY <1>2 DEF Call, deviceVars
  <2>2. MayStayOpen(calls + 1) = MayStayOpen(calls) + (Depth + 1)
    BY <1>1, MoreCalls
  <2>3. /\ handles >= 0 /\ handles <= MayStayOpen(calls + 1)
        /\ handles + (Depth + 1) <= MayStayOpen(calls + 1)
    BY <1>1, <2>2 DEF FewOpen
  <2>4. calls + 1 \in 0 .. MaxCalls
    BY <1>1, <2>1
  <2> QED
    BY <2>1, <2>3, <2>4 DEF FewOpen
<1>3. CASE OpenDir
  <2>1. /\ pc = "open" /\ UNCHANGED <<calls, before>> /\ pc' = "entry"
        /\ handles' = handles \/ handles' = handles + 1
    BY <1>3 DEF OpenDir, callVars
  <2>2. StackIs /\ handles = before + (Len(stack) - 1)
    BY <2>1, StackOf DEF IInv, OpenOnes, Walking
  <2>3. Len(stack) <= Depth + 1
    <3>1. Len(stack) <= Len(stack[1].path) + 1 /\ 1 \in 1 .. Len(stack)
      BY <2>1, <2>2 DEF Deep, Walking, StackIs
    <3>2. Len(stack[1].path) \in Nat /\ Len(stack[1].path) <= Depth
      BY <2>2, <3>1, PathsAre, LenProperties DEF StackIs
    <3>3. Len(stack) \in Nat
      BY <2>2 DEF StackIs
    <3> QED
      BY <1>1, <3>1, <3>2, <3>3
  <2>4. before + (Depth + 1) <= MayStayOpen(calls) /\ before >= 0
    BY <2>1 DEF FewOpen
  <2>5. handles' >= 0 /\ handles' <= MayStayOpen(calls)
    <3>1. Len(stack) \in Nat /\ Len(stack) >= 1
      BY <2>2 DEF StackIs
    <3> QED
      BY <1>1, <2>1, <2>2, <2>3, <2>4, <3>1
  <2> QED
    BY <2>1, <2>5 DEF FewOpen
<1>4. CASE CloseDir
  <2>1. /\ pc = "close" /\ UNCHANGED <<calls, before>>
        /\ handles' = handles \/ (~error /\ handles' = handles - 1)
    BY <1>4 DEF CloseDir, callVars, Closes
  <2>2. /\ Len(stack) \in Nat /\ Len(stack) >= 1
        /\ ~error => handles = before + Len(stack)
    BY <2>1, StackOf DEF IInv, OpenOnes, Walking, StackIs
  <2>3. handles' >= 0 /\ handles' <= MayStayOpen(calls)
    BY <1>1, <2>1, <2>2 DEF FewOpen
  <2> QED
    BY <2>1, <2>3 DEF FewOpen
<1>5. CASE NextEntry \/ Stat \/ Unlink \/ Rmdir \/ Exists \/ Mkdir
  BY <1>5 DEF NextEntry, Stat, Unlink, Rmdir, Exists, Mkdir, deviceVars, callVars, FewOpen
<1>6. CASE Change \/ UNCHANGED vars
  BY <1>6 DEF Change, vars, deviceVars, callVars, FewOpen
<1> QED
  BY <1>2, <1>3, <1>4, <1>5, <1>6 DEF Next, HostStep

LEMMA DeepOnTop ==
  ASSUME IInv, pc \in Walking, Deep, OnTop, UNCHANGED result,
         FitsBelow(stack[1].path, stack'[1].found)
  PROVE  Deep'
<1>1. StackIs
  BY StackOf
<1>2. ASSUME NEW i \in 1 .. Len(stack')
      PROVE  FitsBelow(stack'[i].path, stack'[i].found)
  <2>1. i = 1 \/ (i \in 2 .. Len(stack) /\ i \in 1 .. Len(stack))
    BY <1>1 DEF StackIs, OnTop
  <2>2. CASE i = 1
    BY <2>2 DEF OnTop
  <2>3. CASE i \in 2 .. Len(stack) /\ i \in 1 .. Len(stack)
    BY <2>3 DEF OnTop, Deep
  <2> QED
    BY <2>1, <2>2, <2>3
<1>3. Len(stack') <= Len(stack'[1].path) + 1
  BY DEF Deep, OnTop
<1> QED
  BY <1>2, <1>3 DEF Deep

(* A name of an entry fits below its directory.                             *)
LEMMA NameFits ==
  ASSUME NEW p \in Paths, NEW n \in Names, Under(p, n) \in Paths
  PROVE  /\ Len(p) + Len(<<n>>) <= Depth /\ Len(Under(p, n)) = Len(p) + 1
         /\ Len(p) \in Nat
<1>1. p \in Seq(Names) /\ Len(Under(p, n)) <= Depth
  BY PathsAre
<1>2. Len(Under(p, n)) = Len(p) + 1 /\ Len(p) \in Nat
  BY <1>1, UnderIs, LenProperties
<1>3. Len(<<n>>) = 1
  OBVIOUS
<1> QED
  BY <1>1, <1>2, <1>3

LEMMA DeepWalks ==
  ASSUME IInv, pc = "stat", Deep, Walks, UNCHANGED result,
         EntryPath(entry) = Under(stack[1].path, entry)
  PROVE  Deep'
<1>1. StackIs /\ entry \in Names /\ EntryPath(entry) \in Paths
  BY StackOf DEF Walking, IInv, Shape
<1>2. /\ Len(stack') = Len(stack) + 1 /\ stack'[1].path = EntryPath(entry)
      /\ stack'[1].found = {} /\ Len(stack) \in Nat
      /\ \A i \in 2 .. Len(stack) + 1 : stack'[i] = stack[i - 1]
  BY <1>1 DEF Walks, Frame, StackIs
<1>3. stack[1].path \in Paths
  <2>1. 1 \in 1 .. Len(stack)
    BY <1>1 DEF StackIs
  <2> QED
    BY <1>1, <2>1 DEF StackIs
<1>4. Len(EntryPath(entry)) = Len(stack[1].path) + 1 /\ Len(stack[1].path) \in Nat
  BY <1>1, <1>3, NameFits
<1>5. Len(stack') <= Len(stack'[1].path) + 1
  BY <1>2, <1>4 DEF Deep, Walking
<1>6. ASSUME NEW i \in 1 .. Len(stack')
      PROVE  FitsBelow(stack'[i].path, stack'[i].found)
  <2>1. CASE i = 1
    BY <1>2, <2>1 DEF FitsBelow
  <2>2. CASE i # 1
    <3>1. i \in 2 .. Len(stack) + 1 /\ i - 1 \in 1 .. Len(stack)
      BY <1>2, <2>2
    <3> QED
      BY <1>2, <3>1 DEF Deep, Walking
  <2> QED
    BY <2>1, <2>2
<1> QED
  BY <1>5, <1>6 DEF Deep

LEMMA DeepPops ==
  ASSUME IInv, Chain, pc \in {"close", "rmdir"}, Deep, Comes, UNCHANGED target
  PROVE  Deep'
<1>1. StackIs
  BY StackOf DEF Walking
<1>2. CASE Len(stack) = 1
  <2>1. pc' = "idle" /\ result' = stack[1].found
    BY <1>2 DEF Comes
  <2>2. ASSUME NEW q \in stack[1].found
        PROVE  q \in Paths
    <3>1. q \in Seq(Names) /\ Len(q) \in Nat /\ Len(stack[1].path) \in Nat /\ Depth \in Nat
      BY <1>1, <1>2, LenProperties, FsAssumption DEF StackIs, Calls
    <3>2. Len(stack[1].path) + Len(q) <= Depth
      BY <1>1, <1>2 DEF Deep, FitsBelow, Walking
    <3>3. Len(q) <= Depth
      BY <3>1, <3>2
    <3> QED
      BY <3>1, <3>3, PathsAre
  <2> QED
    BY <2>1, <2>2 DEF Deep, Walking
<1>3. CASE Len(stack) # 1
  <2>1. /\ Pops /\ result' = result
        /\ \A i \in 1 .. Len(stack') : stack'[i].path = stack[i + 1].path
    BY <1>3, ChainPops DEF Comes
  <2>2. 1 \in 1 .. Len(stack) /\ 2 \in 1 .. Len(stack) /\ 2 \in 2 .. Len(stack) /\ 2 - 1 = 1
        /\ 1 < Len(stack)
    <3>1. \A k \in Nat : k >= 1 /\ k # 1
                           => /\ 1 \in 1 .. k /\ 2 \in 2 .. k /\ 2 \in 1 .. k /\ 2 - 1 = 1
                              /\ 1 < k
      BY SMT
    <3> QED
      BY <1>1, <1>3, <3>1, Zenon DEF StackIs
  <2>3. Len(stack[1].path) = Len(stack[2].path) + 1 /\ Len(stack[2].path) \in Nat
    <3>1. /\ stack[1].path = Under(stack[2].path, LastName(stack[1].path))
      BY <2>2 DEF Chain, Walking
    <3>2. LastName(stack[1].path) \in Names /\ stack[1].path \in Paths /\ stack[2].path \in Paths
      <4>1. /\ stack[1].path \in Seq(Names) /\ Len(stack[1].path) > 0
            /\ Len(stack[1].path) \in Nat
        BY <1>1, <2>2 DEF IInv, WithinTarget, StackIs
      <4>2. Len(stack[1].path) \in 1 .. Len(stack[1].path)
        BY <4>1
      <4>3. LastName(stack[1].path) \in Names
        BY <4>1, <4>2, ElementOfSeq DEF LastName
      <4> QED
        BY <1>1, <2>2, <4>3 DEF StackIs
    <3>3. Len(Under(stack[2].path, LastName(stack[1].path))) = Len(stack[2].path) + 1
          /\ Len(stack[2].path) \in Nat
      BY <3>1, <3>2, NameFits
    <3> QED
      BY <3>1, <3>3
  <2>4. Len(stack') <= Len(stack'[1].path) + 1
    <3>1. Len(stack) <= Len(stack[1].path) + 1 /\ Len(stack) \in Nat
      BY <1>1 DEF Deep, Walking, StackIs
    <3>2. Len(stack') = Len(stack) - 1 /\ stack'[1].path = stack[2].path
      BY <2>1 DEF Pops
    <3> QED
      BY <2>3, <3>1, <3>2
  <2>5. FitsBelow(stack[1].path, stack[1].found) /\ FitsBelow(stack[2].path, stack[2].found)
    BY <2>2 DEF Deep, Walking
  <2>6. ASSUME NEW q \in FoundUnder(stack[1])
        PROVE  Len(stack[2].path) + Len(q) <= Depth
    <3>1. PICK r \in stack[1].found : q = <<LastName(stack[1].path)>> \o r
      BY DEF FoundUnder, LastName
    <3>2. r \in Seq(Names) /\ Len(r) \in Nat /\ Depth \in Nat
      BY <1>1, LenProperties, FsAssumption DEF StackIs, Calls
    <3>3. Len(q) = Len(r) + 1
      <4>1. LastName(stack[1].path) \in Names /\ stack[1].path \in Seq(Names)
        BY <1>1, <1>3, <2>2, FoundBelow DEF Walking, StackIs
      <4> QED
        BY <3>1, <3>2, <4>1, Joined
    <3>4. Len(stack[1].path) + Len(r) <= Depth
      BY <2>5 DEF FitsBelow
    <3>5. \A a \in Nat, b \in Nat : a + 1 + b <= Depth => a + (b + 1) <= Depth
      BY <3>2, SMT
    <3> QED
      BY <2>3, <3>2, <3>3, <3>4, <3>5, Zenon
  <2>7. FitsBelow(stack'[1].path, stack'[1].found)
    BY <2>1, <2>5, <2>6 DEF FitsBelow, Pops
  <2>8. ASSUME NEW i \in 1 .. Len(stack')
        PROVE  FitsBelow(stack'[i].path, stack'[i].found)
    <3>1. i = 1 \/ (i \in 2 .. Len(stack) - 1 /\ i + 1 \in 1 .. Len(stack))
      BY <1>1, <2>1 DEF Pops, StackIs
    <3>2. CASE i = 1
      BY <2>7, <3>2
    <3>3. CASE i \in 2 .. Len(stack) - 1 /\ i + 1 \in 1 .. Len(stack)
      BY <2>1, <3>3 DEF Pops, Deep, Walking
    <3> QED
      BY <3>1, <3>2, <3>3
  <2> QED
    BY <2>1, <2>4, <2>8 DEF Deep
<1> QED
  BY <1>2, <1>3

LEMMA DeepKept ==
  ASSUME IInv, Chain, Deep, [Next]_vars
  PROVE  Deep'
<1>1. CASE Call
  <2>1. /\ result' = {} /\ target' \in Paths
        /\ pc' \in Walking => stack' = <<Frame(target')>>
    BY <1>1 DEF Call, Walking
  <2>2. ASSUME pc' \in Walking
        PROVE  /\ Len(stack') <= Len(stack'[1].path) + 1
               /\ \A i \in 1 .. Len(stack') : FitsBelow(stack'[i].path, stack'[i].found)
    <3>1. Len(stack') = 1 /\ stack'[1].path = target' /\ stack'[1].found = {}
      BY <2>1, <2>2 DEF Frame
    <3>2. Len(target') \in Nat
      BY <2>1, PathsAre, LenProperties
    <3>3. \A i \in 1 .. Len(stack') : i = 1
      BY <3>1
    <3> QED
      BY <3>1, <3>2, <3>3 DEF FitsBelow
  <2> QED
    BY <2>1, <2>2 DEF Deep
<1>2. CASE pc \in Walking /\ stack' = stack /\ result' = result
  BY <1>2 DEF Deep
<1>3. ASSUME pc \in Walking
      PROVE  /\ StackIs /\ stack[1].path \in Paths
             /\ FitsBelow(stack[1].path, stack[1].found)
  <2>1. StackIs
    BY <1>3, StackOf
  <2>2. 1 \in 1 .. Len(stack)
    BY <2>1 DEF StackIs
  <2> QED
    BY <1>3, <2>1, <2>2 DEF StackIs, Deep
<1>4. CASE OpenDir
  <2>1. /\ pc \in Walking /\ OnTop /\ result' = result
        /\ stack'[1].found = stack[1].found
    BY <1>4, OpenDirDoes DEF OpenDir, Walking
  <2> QED
    BY <1>3, <2>1, DeepOnTop
<1>5. CASE NextEntry
  <2>1. pc \in Walking /\ result' = result
    BY <1>5, NextEntryDoes DEF Walking
  <2>2. CASE stack' = stack
    BY <1>2, <2>1, <2>2
  <2>3. CASE stack' # stack
    <3>1. OnTop
      BY <1>5, <2>3, NextEntryDoes
    <3>2. PICK n \in Entries(stack[1].path) :
            stack'[1].found \subseteq stack[1].found \union {<<n>>}
      BY <1>5, <2>3, NextEntryDoes
    <3>3. n \in Names /\ Under(stack[1].path, n) \in Paths
      BY <1>3, <2>1, EntryIsPath
    <3>4. Len(stack[1].path) + Len(<<n>>) <= Depth
      BY <1>3, <2>1, <3>3, NameFits
    <3>5. FitsBelow(stack[1].path, stack'[1].found)
      BY <1>3, <2>1, <3>2, <3>4 DEF FitsBelow
    <3> QED
      BY <2>1, <3>1, <3>5, DeepOnTop
  <2> QED
    BY <2>2, <2>3
<1>6. CASE Stat
  <2>1. /\ pc = "stat" /\ pc \in Walking /\ result' = result
        /\ EntryPath(entry) = Under(stack[1].path, entry)
        /\ entry \in Names /\ EntryPath(entry) \in Paths
    BY <1>6, StatDoes DEF Stat, Walking, IInv, Shape
  <2>2. CASE Walks
    BY <2>1, <2>2, DeepWalks
  <2>3. CASE OnTop /\ stack'[1].found = stack[1].found \union {<<entry>>}
    <3>1. Len(stack[1].path) + Len(<<entry>>) <= Depth
      BY <1>3, <2>1, NameFits
    <3>2. FitsBelow(stack[1].path, stack'[1].found)
      BY <1>3, <2>1, <2>3, <3>1 DEF FitsBelow
    <3> QED
      BY <2>1, <2>3, <3>2, DeepOnTop
  <2>4. CASE stack' = stack
    BY <1>2, <2>1, <2>4
  <2> QED
    BY <1>6, <2>2, <2>3, <2>4, StatDoes DEF SameButFound
<1>7. CASE Unlink \/ (CloseDir /\ op = "remove")
  BY <1>2, <1>7 DEF Unlink, CloseDir, Walking
<1>8. CASE (CloseDir /\ op # "remove") \/ Rmdir
  <2>1. pc \in {"close", "rmdir"} /\ Return /\ UNCHANGED target
    BY <1>8 DEF CloseDir, Rmdir, callVars
  <2> QED
    BY <2>1, ReturnDoes, DeepPops
<1>9. CASE Exists \/ Mkdir
  BY <1>9 DEF Exists, Mkdir, Deep, Walking
<1>10. CASE Change \/ UNCHANGED vars
  BY <1>10 DEF Change, vars, Deep
<1> QED
  BY <1>1, <1>4, <1>5, <1>6, <1>7, <1>8, <1>9, <1>10 DEF Next, HostStep

LEMMA TypeInvInit == Init => TypeInv
<1> SUFFICES ASSUME Init
             PROVE  TypeInv
  OBVIOUS
<1>1. IInv /\ Tree(fs) /\ Chain
  BY InitHolds DEF Init, Chain, Walking
<1>2. /\ pc = "idle" /\ stack = <<>> /\ entry = 0 /\ result = {} /\ calls = 0 /\ changes = 0
      /\ handles = 0 /\ before = 0 /\ op = "none" /\ recursive = TRUE /\ disturbed = FALSE
      /\ existed = {} /\ cutShort = FALSE
  BY DEF Init
<1>3. Kept /\ Places /\ Deep
  <2>1. 0 \in 0 .. MaxChanges /\ 0 \in 0 .. Depth
    BY FsAssumption
  <2>2. Kept
    BY <1>2, <2>1, Zenon DEF Kept
  <2>3. pc \notin Walking /\ pc \notin {"exists", "mkdir"}
    BY <1>2 DEF Walking
  <2>4. Places
    BY <1>2, <2>1, <2>3, Zenon DEF Places
  <2>5. Deep
    BY <1>2, <2>3, Zenon DEF Deep
  <2> QED
    BY <2>2, <2>4, <2>5
<1>4. FewOpen
  <2>1. MayStayOpen(0) \in Nat /\ 0 \in 0 .. MaxCalls
    BY MoreCalls, FsAssumption
  <2> QED
    BY <1>2, <2>1 DEF FewOpen
<1> QED
  BY <1>1, <1>3, <1>4 DEF TypeInv

LEMMA TypeInvKept == TypeInv /\ [Next]_vars => TypeInv'
<1> SUFFICES ASSUME TypeInv, [Next]_vars
             PROVE  TypeInv'
  OBVIOUS
<1>1. IInv'
  BY StepKeeps DEF TypeInv
<1>2. Tree(fs)'
  BY TreeKept DEF TypeInv, Tree
<1> QED
  BY <1>1, <1>2, ChainKept, KeptKept, PlacesKept, DeepKept, FewOpenKept DEF TypeInv

LEMMA TypeInvTypes == TypeInv => TypeOK
<1> SUFFICES ASSUME TypeInv
             PROVE  TypeOK
  OBVIOUS
<1>1. /\ fs \in [Paths -> Kinds] /\ Tree(fs) /\ target \in Paths /\ error \in BOOLEAN
      /\ op \in {"none", "remove", "read", "create"} /\ recursive \in BOOLEAN
      /\ changes \in 0 .. MaxChanges /\ calls \in 0 .. MaxCalls /\ disturbed \in BOOLEAN
      /\ cutShort \in BOOLEAN
      /\ result \subseteq Paths /\ existed \subseteq Paths \X {"file", "dir"}
      /\ entry \in Names \union 0 .. Depth
  BY DEF TypeInv, IInv, Shape, Kept, Places, Deep, FewOpen
<1>2. pc \in {"idle", "open", "entry", "stat", "unlink", "close", "rmdir", "exists", "mkdir"}
  BY DEF TypeInv, Places, Walking
<1>3. handles \in 0 .. MaxCalls * (Depth + 1) /\ before \in 0 .. MaxCalls * (Depth + 1)
  <2>1. /\ MayStayOpen(calls) <= MayStayOpen(MaxCalls)
        /\ MayStayOpen(calls) \in Nat /\ MayStayOpen(MaxCalls) \in Nat
    BY <1>1, MoreCalls, FsAssumption
  <2>2. /\ handles \in Int /\ before \in Int /\ handles >= 0 /\ before >= 0
        /\ handles <= MayStayOpen(calls) /\ before <= MayStayOpen(calls)
    BY DEF TypeInv, IInv, Shape, FewOpen
  <2>3. handles \in 0 .. MayStayOpen(MaxCalls) /\ before \in 0 .. MayStayOpen(MaxCalls)
    BY <2>1, <2>2
  <2> QED
    BY <2>3 DEF MayStayOpen
<1>4. (\A i \in DOMAIN stack : stack[i] \in Frames) /\ Len(stack) <= Depth + 1
  <2>1. CASE pc \in Walking
    <3>1. StackIs
      BY <2>1, StackOf DEF TypeInv
    <3>2. 1 \in 1 .. Len(stack) /\ DOMAIN stack = 1 .. Len(stack)
      BY <3>1, LenProperties DEF StackIs
    <3>3. Len(stack) <= Depth + 1
      <4>1. Len(stack[1].path) \in Nat /\ Len(stack[1].path) <= Depth /\ Depth \in Nat
        BY <3>1, <3>2, PathsAre, LenProperties, FsAssumption DEF StackIs
      <4>2. Len(stack) \in Nat /\ Len(stack) <= Len(stack[1].path) + 1
        BY <2>1, <3>1 DEF TypeInv, Deep, StackIs
      <4> QED
        BY <4>1, <4>2
    <3>4. ASSUME NEW i \in 1 .. Len(stack)
          PROVE  stack[i] \in Frames
      <4>1. stack[i] \in Calls /\ FitsBelow(stack[i].path, stack[i].found)
        BY <2>1, <3>1 DEF StackIs, TypeInv, Deep
      <4>2. ASSUME NEW q \in stack[i].found
            PROVE  q \in Paths
        <5>1. /\ q \in Seq(Names) /\ Len(q) \in Nat /\ Len(stack[i].path) \in Nat
              /\ Depth \in Nat
          BY <3>1, <4>1, LenProperties, FsAssumption DEF StackIs, Calls
        <5>2. Len(stack[i].path) + Len(q) <= Depth
          BY <4>1 DEF FitsBelow
        <5>3. Len(q) <= Depth
          BY <5>1, <5>2
        <5> QED
          BY <5>1, <5>3, PathsAre
      <4> QED
        BY <4>1, <4>2 DEF Calls, Frames
    <3> QED
      BY <3>2, <3>3, <3>4
  <2>2. CASE pc \notin Walking
    <3>1. stack = <<>> /\ Depth \in Nat
      BY <2>2, FsAssumption DEF TypeInv, Places
    <3> QED
      BY <3>1
  <2> QED
    BY <2>1, <2>2
<1> QED
  BY <1>1, <1>2, <1>3, <1>4 DEF TypeOK

(* Every variable keeps its type: a walk is never deeper than the tree, what*)
(* it finds are paths, and each call that fails leaves no more handles open *)
(* on the device than there are directories on the way down (Link::Dir).    *)
THEOREM TypeCorrect == Spec => []TypeOK
  BY TypeInvInit, TypeInvKept, TypeInvTypes, PTL DEF Spec

(* A call that returns without an error has closed every directory it       *)
(* opened (Link::Dir's resource), however deep the tree and wherever        *)
(* requests failed in earlier calls.                                        *)
THEOREM Closed == Spec => []HandlesReturned
<1>1. Init => IInv
  BY InitHolds
<1>2. IInv /\ [Next]_vars => IInv'
  BY StepKeeps
<1>3. IInv => HandlesReturned
  BY DEF IInv, OpenOnes, HandlesReturned, Walking
<1> QED
  BY <1>1, <1>2, <1>3, PTL DEF Spec

(* No step of the host removes anything outside the directory that          *)
(* remove_directory was called for, whatever the device changes meanwhile.  *)
THEOREM OnlyTheTarget == Spec => RemovesOnlyTarget
<1>1. Init => IInv
  BY InitHolds
<1>2. IInv /\ [Next]_vars => IInv'
  BY StepKeeps
<1>3. IInv /\ Counted /\ [Next]_vars
        => [changes' = changes =>
              \A p \in Paths : fs[p] # "none" /\ fs'[p] = "none"
                                 => op = "remove" /\ p \in Below(target)]_vars
  BY StepRemovesOnlyTarget
<1>4. Init => Counted
  BY CountKept
<1>5. Counted /\ [Next]_vars => Counted'
  BY CountKept
<1> QED
  BY <1>1, <1>2, <1>3, <1>4, <1>5, PTL DEF Spec, RemovesOnlyTarget

=============================================================================
