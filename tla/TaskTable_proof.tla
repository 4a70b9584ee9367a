---------------------------- MODULE TaskTable_proof ----------------------------
(***************************************************************************)
(* Proofs about TaskTable, for a table of any size, any tasks and any       *)
(* number of changes while a walk is under way: who is there all along is   *)
(* found, who is found was there, and the counts agree.                     *)
(***************************************************************************)
EXTENDS TaskTable, FiniteSetTheorems, TLAPS

(* Entries that were there all the time and that the walk has passed.       *)
Passed == {t \in stayed : t.id < id}

(* Why the last entry is found to be the last, and the walk is bounded.     *)
WalkBounds ==
  /\ count <= id
  /\ pc = "walk" => /\ id <= Slots /\ answer = NotFound
                    /\ op \in {"total", "free", "list", "running", "pid"}

(* The history brackets the table.                                          *)
Bracketed == pc = "walk" => stayed \subseteq InUse(table) /\ InUse(table) \subseteq seen

(* What each walk has established of the entries it has passed.             *)
ListedSoFar ==
  pc = "walk" /\ op = "list" => list \subseteq seen /\ (~lost => Passed \subseteq list)

NoneSoFar ==
  pc = "walk" /\ ~lost => \A t \in Passed : /\ op = "running" => t.pid # arg
                                            /\ op = "pid" => t.name # arg

CountedSoFar ==
  pc = "walk" =>
    /\ op = "total" => count = id
    /\ op = "free" /\ ~lost /\ seen = stayed
         => IsFiniteSet(Passed) /\ count = id - Cardinality(Passed)

IInv == /\ TypeOK /\ WalkBounds /\ Bracketed
        /\ ListedSoFar /\ NoneSoFar /\ CountedSoFar
        /\ StayersFound /\ FoundWasThere /\ CountsAgree

-----------------------------------------------------------------------------
LEMMA InUseType ==
  ASSUME NEW tab \in [Ids -> Tasks]
  PROVE  /\ InUse(tab) \subseteq Infos
         /\ \A t \in InUse(tab) : /\ t.id \in Ids /\ tab[t.id].enabled
                                  /\ t = InfoOf(t.id, tab[t.id])
         /\ \A i \in Ids : tab[i].enabled => InfoOf(i, tab[i]) \in InUse(tab)
  BY DEF InUse, InfoOf, Infos, Tasks

LEMMA InitHolds == Init => IInv
<1> SUFFICES ASSUME Init
             PROVE  IInv
  OBVIOUS
<1>1. TypeOK
  <2>1. table \in [Ids -> Tasks]
    BY DEF Init
  <2>2. /\ 0 \in 0 .. MaxChanges /\ 0 \in 0 .. MaxCalls /\ 0 \in 0 .. Slots + 1
        /\ 0 \in Pids \union Names
    BY TaskAssumption
  <2> QED
    BY <2>1, <2>2 DEF Init, TypeOK
<1>2. WalkBounds /\ Bracketed /\ ListedSoFar /\ NoneSoFar /\ CountedSoFar
  BY DEF Init, WalkBounds, Bracketed, ListedSoFar, NoneSoFar, CountedSoFar
<1>3. StayersFound /\ FoundWasThere /\ CountsAgree
  BY DEF Init, StayersFound, FoundWasThere, CountsAgree, Done
<1> QED
  BY <1>1, <1>2, <1>3 DEF IInv

(* A call starts at the first entry, with nothing passed.                   *)
LEMMA CallKeeps ==
  ASSUME IInv, Call
  PROVE  IInv'
<1>1. /\ pc' = "walk" /\ id' = 0 /\ count' = 0 /\ list' = {} /\ answer' = NotFound
      /\ op' \in {"total", "free", "list", "running", "pid"}
      /\ seen' = InUse(table) /\ stayed' = InUse(table) /\ lost' = FALSE
      /\ table' = table
  BY DEF Call, FirstId
<1>2. InUse(table) \subseteq Infos /\ \A t \in InUse(table) : t.id \in Ids
  BY InUseType DEF IInv, TypeOK
<1>3. TypeOK'
  <2>1. calls' \in 0 .. MaxCalls /\ 0 \in 0 .. Slots + 1
    BY TaskAssumption DEF IInv, TypeOK, Call
  <2>2. arg' \in Pids \union Names
    BY DEF IInv, TypeOK, Call
  <2>3. error' = FALSE /\ changes' = changes
    BY DEF Call
  <2> QED
    BY <1>1, <1>2, <2>1, <2>2, <2>3 DEF IInv, TypeOK
<1>4. Passed' = {}
  BY <1>1, <1>2, TaskAssumption DEF Passed, Ids
<1>5. WalkBounds' /\ Bracketed'
  BY <1>1, TaskAssumption DEF WalkBounds, Bracketed
<1>6. ListedSoFar' /\ NoneSoFar'
  BY <1>1, <1>4 DEF ListedSoFar, NoneSoFar
<1>7. CountedSoFar'
  BY <1>1, <1>4, FS_EmptySet DEF CountedSoFar
<1>8. StayersFound' /\ FoundWasThere' /\ CountsAgree'
  BY <1>1 DEF StayersFound, FoundWasThere, CountsAgree, Done
<1> QED
  BY <1>3, <1>5, <1>6, <1>7, <1>8 DEF IInv

-----------------------------------------------------------------------------
(* A request that was answered, on an entry the walk is not looking for.    *)
LEMMA NextEntry ==
  ASSUME IInv, pc = "walk", id \in Ids, id' = id + 1, stayed' = stayed
  PROVE  /\ Passed' = Passed \/ Passed' = Passed \union {InfoOf(id, table[id])}
         /\ table[id].enabled /\ InfoOf(id, table[id]) \in stayed
              => Passed' = Passed \union {InfoOf(id, table[id])}
         /\ ~table[id].enabled => Passed' = Passed
         /\ InfoOf(id, table[id]) \notin Passed
<1>1. \A t \in stayed : t.id \in Ids /\ table[t.id].enabled /\ t = InfoOf(t.id, table[t.id])
  BY InUseType DEF IInv, TypeOK, Bracketed
<1>2. InfoOf(id, table[id]).id = id
  BY DEF InfoOf
<1>3. \A t \in stayed : t.id < id + 1 <=> (t.id < id \/ t.id = id)
  BY <1>1 DEF Ids
<1>4. Passed' = Passed \union {t \in stayed : t.id = id}
  BY <1>3 DEF Passed
<1>5. {t \in stayed : t.id = id} \subseteq {InfoOf(id, table[id])}
  BY <1>1
<1>6. InfoOf(id, table[id]) \in stayed
        => {t \in stayed : t.id = id} = {InfoOf(id, table[id])}
  BY <1>2, <1>5
<1>7. ~table[id].enabled => {t \in stayed : t.id = id} = {}
  BY <1>1
<1>8. InfoOf(id, table[id]) \notin Passed
  BY <1>2 DEF Passed, Ids
<1> QED
  BY <1>4, <1>5, <1>6, <1>7, <1>8

(* At the end of the table, all entries have been passed.                   *)
LEMMA AllPassed ==
  ASSUME IInv, pc = "walk", id \notin Ids
  PROVE  id = Slots /\ Passed = stayed
<1>1. id = Slots
  BY TaskAssumption DEF IInv, TypeOK, WalkBounds, Ids
<1>2. \A t \in stayed : t.id \in Ids
  BY InUseType DEF IInv, TypeOK, Bracketed
<1> QED
  BY <1>1, <1>2, TaskAssumption DEF Passed, Ids

LEMMA ReadKeeps ==
  ASSUME IInv, Read
  PROVE  IInv'
<1> USE DEF IInv
<1>1. PICK ok \in BOOLEAN :
        LET t == IF ok THEN table[id] ELSE NoTask IN
        /\ ok => id \in Ids
        /\ count' = IF Counts(t, ok) THEN count + 1 ELSE count
        /\ list' = IF Listed(t, ok) THEN list \union {InfoOf(id, t)} ELSE list
        /\ answer' = IF Wanted(t) THEN t.pid ELSE NotFound
        /\ pc' = IF Wanted(t) \/ Ends(ok) THEN "idle" ELSE "walk"
        /\ lost' = (lost \/ (~ok /\ id \in Ids))
  BY DEF Read
<1>2. /\ pc = "walk" /\ id' = id + 1 /\ error' = FALSE
      /\ UNCHANGED <<table, changes, callVars, seen, stayed>>
  BY DEF Read
<1>3. /\ table' = table /\ changes' = changes /\ calls' = calls /\ op' = op /\ arg' = arg
      /\ seen' = seen /\ stayed' = stayed
  BY <1>2 DEF callVars
<1>4. /\ id \in Nat /\ id <= Slots /\ count \in Nat /\ count <= id
      /\ op \in {"total", "free", "list", "running", "pid"}
  BY <1>2 DEF TypeOK, WalkBounds
<1>5. CASE ok
  <2> DEFINE t == table[id]
             i == InfoOf(id, t)
  <2>1. /\ id \in Ids /\ t \in Tasks /\ lost' = lost
        /\ count' = IF op = "total" \/ (op = "free" /\ ~t.enabled) THEN count + 1 ELSE count
        /\ list' = IF op = "list" /\ t.enabled THEN list \union {i} ELSE list
        /\ answer' = IF Wanted(t) THEN t.pid ELSE NotFound
        /\ pc' = IF Wanted(t) THEN "idle" ELSE "walk"
    BY <1>1, <1>5 DEF Counts, Listed, Enabled, Ends, TypeOK
  <2>2. t.enabled => i \in InUse(table) /\ i \in seen /\ i \in Infos
    BY <1>2, <2>1, InUseType DEF TypeOK, Bracketed
  <2>3. id < Slots /\ t.pid \in Pids /\ t.pid # NotFound /\ i.pid = t.pid /\ i.name = t.name
    BY <2>1, TaskAssumption DEF Ids, Tasks, NotFound, InfoOf
  <2>4. TypeOK'
    <3>1. list' \subseteq Infos
      BY <2>1, <2>2 DEF TypeOK
    <3>2. answer' \in Pids \union {NotFound} /\ pc' \in {"idle", "walk"}
      BY <2>1, <2>3
    <3>3. id' \in 0 .. Slots + 1 /\ count' \in {count, count + 1}
      BY <1>2, <1>4, <2>1, TaskAssumption
    <3>4. count' \in 0 .. Slots + 1
      BY <1>4, <3>3, TaskAssumption
    <3> QED
      BY <1>2, <1>3, <2>1, <3>1, <3>2, <3>3, <3>4 DEF TypeOK
  <2>5. WalkBounds' /\ Bracketed'
    BY <1>2, <1>3, <1>4, <2>1, <2>3, TaskAssumption DEF WalkBounds, Bracketed
  <2>6. /\ Passed' = Passed \/ Passed' = Passed \union {i}
        /\ t.enabled /\ i \in stayed => Passed' = Passed \union {i}
        /\ ~t.enabled => Passed' = Passed
        /\ i \notin Passed
    BY <1>2, <1>3, <2>1, NextEntry
  <2>7. ListedSoFar'
    BY <1>2, <1>3, <2>1, <2>2, <2>6 DEF ListedSoFar
  <2>8. NoneSoFar'
    BY <1>2, <1>3, <2>1, <2>3, <2>6 DEF NoneSoFar, Wanted, Enabled
  <2>9. CountedSoFar'
    <3>1. op = "total" => count' = id'
      BY <1>2, <2>1 DEF CountedSoFar
    <3>2. ASSUME op = "free", ~lost, seen = stayed
          PROVE  IsFiniteSet(Passed') /\ count' = id' - Cardinality(Passed')
      <4>1. IsFiniteSet(Passed) /\ count = id - Cardinality(Passed)
        BY <1>2, <3>2 DEF CountedSoFar
      <4>2. CASE t.enabled
        <5>1. Passed' = Passed \union {i} /\ count' = count
          BY <2>1, <2>2, <2>6, <3>2, <4>2
        <5>2. IsFiniteSet(Passed') /\ Cardinality(Passed') = Cardinality(Passed) + 1
          BY <2>6, <4>1, <5>1, FS_AddElement
        <5> QED
          BY <1>2, <1>4, <4>1, <5>1, <5>2, FS_CardinalityType
      <4>3. CASE ~t.enabled
        BY <1>2, <1>4, <2>1, <2>6, <3>2, <4>1, <4>3, FS_CardinalityType
      <4> QED
        BY <4>2, <4>3
    <3> QED
      BY <1>3, <2>1, <3>1, <3>2 DEF CountedSoFar
  <2>10. StayersFound' /\ FoundWasThere' /\ CountsAgree'
    <3>1. pc' = "idle" => Wanted(t) /\ t.enabled /\ op \in {"running", "pid"}
      BY <2>1 DEF Wanted, Enabled
    <3>2. ASSUME pc' = "idle"
          PROVE  /\ answer' = t.pid /\ i \in seen
                 /\ op = "running" => i.pid = arg /\ answer' = arg
                 /\ op = "pid" => i.name = arg /\ answer' = i.pid
      BY <2>1, <2>2, <2>3, <3>1, <3>2 DEF Wanted
    <3> QED
      BY <1>3, <2>3, <3>1, <3>2 DEF StayersFound, FoundWasThere, CountsAgree, Done
  <2> QED
    BY <2>4, <2>5, <2>7, <2>8, <2>9, <2>10
<1>6. CASE ~ok
  <2>1. /\ ~Wanted(NoTask) /\ Ends(ok) /\ ~Listed(NoTask, ok)
        /\ Counts(NoTask, ok) <=> op \in {"total", "free"}
    BY <1>6 DEF Wanted, Enabled, NoTask, Ends, Listed, Counts
  <2>2. /\ pc' = "idle" /\ answer' = NotFound /\ list' = list
        /\ count' = IF op \in {"total", "free"} THEN count + 1 ELSE count
        /\ lost' = (lost \/ id \in Ids)
    BY <1>1, <1>6, <2>1
  <2>3. TypeOK'
    <3>1. /\ answer' \in Pids \union {NotFound}
          /\ id' \in 0 .. Slots + 1 /\ count' \in 0 .. Slots + 1 /\ lost' \in BOOLEAN
      BY <1>2, <1>4, <2>2, TaskAssumption DEF TypeOK
    <3> QED
      BY <1>2, <1>3, <2>2, <3>1 DEF TypeOK
  <2>4. WalkBounds' /\ Bracketed' /\ ListedSoFar' /\ NoneSoFar' /\ CountedSoFar'
    BY <1>2, <1>4, <2>2
    DEF WalkBounds, Bracketed, ListedSoFar, NoneSoFar, CountedSoFar
  <2>5. ~lost' => ~lost /\ id = Slots /\ Passed = stayed
    BY <1>2, <2>2, AllPassed
  <2>6. FoundWasThere'
    BY <1>2, <1>3, <2>2 DEF FoundWasThere, ListedSoFar, Done
  <2>7. StayersFound'
    BY <1>2, <1>3, <2>2, <2>5 DEF StayersFound, ListedSoFar, NoneSoFar, Done
  <2>8. CountsAgree'
    <3>1. ASSUME ~lost', seen = stayed, op = "free"
          PROVE  count' = Slots + 1 - Cardinality(stayed)
      <4>1. IsFiniteSet(stayed) /\ count = Slots - Cardinality(stayed)
        BY <1>2, <2>5, <3>1 DEF CountedSoFar
      <4> QED
        BY <2>2, <3>1, <4>1, TaskAssumption, FS_CardinalityType
    <3>2. ~lost' /\ op = "total" => count' = Slots + 1
      BY <1>2, <2>2, <2>5 DEF CountedSoFar
    <3> QED
      BY <1>3, <3>1, <3>2 DEF CountsAgree, Done
  <2> QED
    BY <2>3, <2>4, <2>6, <2>7, <2>8
<1> QED
  BY <1>5, <1>6

-----------------------------------------------------------------------------
LEMMA KillPidKeeps ==
  ASSUME IInv, KillPid
  PROVE  IInv'
<1> USE DEF IInv
<1>1. /\ pc = "idle" /\ op' = "kill" /\ calls' \in 0 .. MaxCalls /\ arg' \in Pids
      /\ UNCHANGED <<changes, pc, id, count, list, answer, history>>
  BY TaskAssumption DEF KillPid, TypeOK
<1>2. table' \in [Ids -> Tasks] /\ error' \in BOOLEAN
  BY DEF KillPid, TypeOK, Tasks
<1>3. TypeOK'
  BY <1>1, <1>2 DEF TypeOK, history
<1>4. WalkBounds' /\ Bracketed' /\ ListedSoFar' /\ NoneSoFar' /\ CountedSoFar'
  BY <1>1 DEF WalkBounds, Bracketed, ListedSoFar, NoneSoFar, CountedSoFar
<1>5. StayersFound' /\ FoundWasThere' /\ CountsAgree'
  BY <1>1 DEF StayersFound, FoundWasThere, CountsAgree, Done
<1> QED
  BY <1>3, <1>4, <1>5

(* A change makes what was there at some moment more than what was there    *)
(* all the time, and takes nothing back of what was seen.                   *)
LEMMA ChangeKeeps ==
  ASSUME IInv, Change
  PROVE  IInv'
<1> USE DEF IInv
<1>1. PICK i \in Ids \ {0}, t \in Tasks :
        /\ t.enabled # table[i].enabled
        /\ ~t.enabled => t = [table[i] EXCEPT !.enabled = FALSE]
        /\ table' = [table EXCEPT ![i] = t]
  BY DEF Change
<1>2. /\ pc = "walk" /\ pc' = "walk" /\ changes' \in 0 .. MaxChanges
      /\ seen' = seen \union InUse(table') /\ stayed' = stayed \intersect InUse(table')
      /\ UNCHANGED <<callVars, id, count, list, answer, error, lost>>
  BY TaskAssumption DEF Change, TypeOK
<1>3. table' \in [Ids -> Tasks]
  BY <1>1 DEF TypeOK
<1>4. TypeOK'
  BY <1>2, <1>3, InUseType DEF TypeOK, callVars
<1>5. WalkBounds' /\ Bracketed'
  BY <1>2 DEF WalkBounds, Bracketed, callVars
<1>6. Passed' \subseteq Passed
  BY <1>2 DEF Passed
<1>7. ListedSoFar' /\ NoneSoFar'
  BY <1>2, <1>6 DEF ListedSoFar, NoneSoFar, callVars
<1>8. seen' # stayed'
  (* The task that started was not there before; the one that ended is not  *)
  (* there now.                                                             *)
  <2>1. CASE t.enabled
    <3>1. InfoOf(i, t) \in InUse(table')
      BY <1>1, <1>3, <2>1, InUseType DEF TypeOK
    <3>2. InfoOf(i, t) \notin InUse(table)
      <4>1. InfoOf(i, t).id = i
        BY DEF InfoOf
      <4>2. \A u \in InUse(table) : table[u.id].enabled
        BY InUseType, Zenon DEF TypeOK
      <4> QED
        BY <1>1, <2>1, <4>1, <4>2, Zenon
    <3> QED
      BY <1>2, <3>1, <3>2 DEF Bracketed
  <2>2. CASE ~t.enabled
    <3>1. InfoOf(i, table[i]) \in InUse(table)
      BY <1>1, <2>2, InUseType DEF TypeOK, Tasks
    <3>2. InfoOf(i, table[i]) \notin InUse(table')
      <4>1. InfoOf(i, table[i]).id = i
        BY DEF InfoOf
      <4>2. table'[i] = t
        BY <1>1 DEF TypeOK
      <4>3. \A u \in InUse(table') : table'[u.id].enabled
        BY <1>3, InUseType, Zenon
      <4> QED
        BY <2>2, <4>1, <4>2, <4>3, Zenon
    <3> QED
      BY <1>2, <3>1, <3>2 DEF Bracketed
  <2> QED
    BY <2>1, <2>2
<1>9. CountedSoFar'
  BY <1>2, <1>8 DEF CountedSoFar, callVars
<1>10. StayersFound' /\ FoundWasThere' /\ CountsAgree'
  BY <1>2 DEF StayersFound, FoundWasThere, CountsAgree, Done
<1> QED
  BY <1>4, <1>5, <1>7, <1>9, <1>10

-----------------------------------------------------------------------------
LEMMA StepKeeps == IInv /\ [Next]_vars => IInv'
<1> SUFFICES ASSUME IInv, [Next]_vars
             PROVE  IInv'
  OBVIOUS
<1>1. CASE UNCHANGED vars
  <2> USE <1>1 DEF vars, callVars, history
  <2>1. TypeOK' /\ WalkBounds' /\ Bracketed'
    BY DEF IInv, TypeOK, WalkBounds, Bracketed
  <2>2. ListedSoFar' /\ NoneSoFar' /\ CountedSoFar'
    BY DEF IInv, ListedSoFar, NoneSoFar, CountedSoFar, Passed
  <2>3. StayersFound' /\ FoundWasThere' /\ CountsAgree'
    BY DEF IInv, StayersFound, FoundWasThere, CountsAgree, Done
  <2> QED
    BY <2>1, <2>2, <2>3 DEF IInv
<1> QED
  BY <1>1, CallKeeps, ReadKeeps, KillPidKeeps, ChangeKeeps DEF Next

LEMMA Invariance == Spec => []IInv
  BY InitHolds, StepKeeps, PTL DEF Spec

(* The types: no walk asks for more than one entry past the table.          *)
THEOREM TypeCorrect == Spec => []TypeOK
<1>1. IInv => TypeOK
  BY DEF IInv
<1> QED
  BY <1>1, Invariance, PTL

(* A task that is there during a whole walk is found, whatever starts and   *)
(* ends around it.                                                          *)
THEOREM NoStayerMissed == Spec => []StayersFound
<1>1. IInv => StayersFound
  BY DEF IInv
<1> QED
  BY <1>1, Invariance, PTL

(* Nothing is found that was not there at some moment of the walk.          *)
THEOREM NoneMadeUp == Spec => []FoundWasThere
<1>1. IInv => FoundWasThere
  BY DEF IInv
<1> QED
  BY <1>1, Invariance, PTL

(* What count_total and count_free return, on a table at rest.              *)
THEOREM CountsRight == Spec => []CountsAgree
<1>1. IInv => CountsAgree
  BY DEF IInv
<1> QED
  BY <1>1, Invariance, PTL

=============================================================================
