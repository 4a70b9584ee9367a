-------------------------------- MODULE TaskTable --------------------------------
(***************************************************************************)
(* TaskManager (TaskManager.cpp): the tasks of a device are read one at a   *)
(* time, by their index in the device's table, until a request fails; that  *)
(* is how the end of the table is found.  Meanwhile tasks start and end on  *)
(* the device, and a request may also fail for another reason.              *)
(***************************************************************************)
EXTENDS Integers, FiniteSets

CONSTANTS
  Slots,        (* entries of the device's table of tasks                   *)
  Pids, Names,  (* numbers and names of processes                           *)
  MaxChanges,   (* bound: tasks started or ended                            *)
  MaxCalls      (* bound: calls of TaskManager                              *)

ASSUME TaskAssumption ==
  /\ Slots \in Nat \ {0} /\ Pids \subseteq Nat /\ 0 \in Pids /\ Names # {}
  /\ MaxChanges \in Nat /\ MaxCalls \in Nat

VARIABLES
  table,    (* the tasks; an entry keeps the data of a task that ended      *)
  changes,  (* changes of the table so far                                  *)
  calls,    (* calls so far                                                 *)
  pc, op,   (* whether a walk is under way, and which                       *)
  arg,      (* the process number or name that is asked for                 *)
  id,       (* next entry to read                                           *)
  count,    (* count                                                        *)
  list,     (* result of get_info                                           *)
  answer,   (* the process number found, NotFound if none                   *)
  error,    (* the thread's error context holds an error                    *)
  seen,     (* history: tasks that were there at some moment of the call    *)
  stayed,   (* history: tasks that were there all the time                  *)
  lost      (* history: a request failed that was not past the table        *)

callVars == <<calls, op, arg>>
history  == <<seen, stayed, lost>>
vars == <<table, changes, callVars, pc, id, count, list, answer, error, history>>

Ids   == 0 .. Slots - 1
Tasks == [pid : Pids, name : Names, enabled : BOOLEAN]
Infos == [id : Ids, pid : Pids, name : Names]

NotFound == -1
NoName   == "none"

(* What get_info returns if the request fails: nothing but zeros.           *)
NoTask == [pid |-> 0, name |-> NoName, enabled |-> FALSE]

InfoOf(i, t)  == [id |-> i, pid |-> t.pid, name |-> t.name]
InUse(tab)    == {InfoOf(i, tab[i]) : i \in {j \in Ids : tab[j].enabled}}

(* No walk asks for more than one entry past the table.                     *)
TypeOK ==
  /\ table \in [Ids -> Tasks]
  /\ changes \in 0 .. MaxChanges /\ calls \in 0 .. MaxCalls
  /\ pc \in {"idle", "walk"}
  /\ op \in {"none", "total", "free", "list", "running", "pid", "kill"}
  /\ arg \in Pids \union Names
  /\ id \in 0 .. Slots + 1 /\ count \in 0 .. Slots + 1
  /\ list \subseteq Infos
  /\ answer \in Pids \union {NotFound}
  /\ error \in BOOLEAN /\ lost \in BOOLEAN
  /\ seen \subseteq Infos /\ stayed \subseteq seen

(* The first entry is the idle task, which never ends.                      *)
Init ==
  /\ table \in {tab \in [Ids -> Tasks] : tab[0].pid = 0 /\ tab[0].enabled}
  /\ changes = 0 /\ calls = 0
  /\ pc = "idle" /\ op = "none" /\ arg = 0
  /\ id = 0 /\ count = 0 /\ list = {} /\ answer = NotFound
  /\ error = FALSE
  /\ seen = {} /\ stayed = {} /\ lost = FALSE

-----------------------------------------------------------------------------
FirstIdAfterIdle == 1
FirstId == 0

(* The program calls one of the five functions that walk the table, with no *)
(* error pending.                                                           *)
Call ==
  /\ pc = "idle" /\ calls < MaxCalls
  /\ pc' = "walk" /\ calls' = calls + 1
  /\ \/ op' \in {"total", "free", "list"} /\ arg' = arg
     \/ op' = "running" /\ arg' \in Pids
     \/ op' = "pid" /\ arg' \in Names
  /\ id' = FirstId /\ count' = 0 /\ list' = {} /\ answer' = NotFound
  /\ error' = FALSE
  /\ seen' = InUse(table) /\ stayed' = InUse(table) /\ lost' = FALSE
  /\ UNCHANGED <<table, changes>>

EnabledOrNot(t) == TRUE
Enabled(t) == t.enabled

(* What is_pid_running and get_pid look for.                                *)
Wanted(t) ==
  \/ op = "running" /\ t.pid = arg /\ Enabled(t)
  \/ op = "pid" /\ t.name = arg /\ Enabled(t)

(* Both counts include the request that fails at the end of the table.      *)
CountsRead(t, ok) == ok /\ (op = "total" \/ (op = "free" /\ ~Enabled(t)))
Counts(t, ok) == op = "total" \/ (op = "free" /\ ~Enabled(t))

Listed(t, ok) == op = "list" /\ ok /\ Enabled(t)

Ends(ok) == ~ok

(* One round of a walk.  The error that ends it is reset on return.         *)
Read ==
  /\ pc = "walk"
  /\ \E ok \in BOOLEAN :
       LET t == IF ok THEN table[id] ELSE NoTask IN
       /\ ok => id \in Ids
       /\ count' = IF Counts(t, ok) THEN count + 1 ELSE count
       /\ list' = IF Listed(t, ok) THEN list \union {InfoOf(id, t)} ELSE list
       /\ answer' = IF Wanted(t) THEN t.pid ELSE NotFound
       /\ pc' = IF Wanted(t) \/ Ends(ok) THEN "idle" ELSE "walk"
       /\ lost' = (lost \/ (~ok /\ id \in Ids))
  /\ id' = id + 1
  /\ error' = FALSE
  /\ UNCHANGED <<table, changes, callVars, seen, stayed>>

(* kill_pid: what a signal does to the tasks of the process is theirs.      *)
KillPid ==
  /\ pc = "idle" /\ calls < MaxCalls
  /\ calls' = calls + 1 /\ op' = "kill"
  /\ arg' \in Pids
  /\ \E taken, answered \in BOOLEAN, gone \in SUBSET (Ids \ {0}) :
       /\ answered => taken
       /\ \A i \in gone : taken /\ table[i].pid = arg' /\ table[i].enabled
       /\ table' = [i \in Ids |-> IF i \in gone THEN [table[i] EXCEPT !.enabled = FALSE]
                                  ELSE table[i]]
       /\ error' = ~answered
  /\ UNCHANGED <<changes, pc, id, count, list, answer, history>>

(* A task of the device starts in a free entry, or ends.                    *)
Change ==
  /\ changes < MaxChanges /\ pc = "walk"
  /\ changes' = changes + 1
  /\ \E i \in Ids \ {0}, t \in Tasks :
       /\ t.enabled # table[i].enabled
       /\ ~t.enabled => t = [table[i] EXCEPT !.enabled = FALSE]
       /\ table' = [table EXCEPT ![i] = t]
  /\ seen' = seen \union InUse(table')
  /\ stayed' = stayed \intersect InUse(table')
  /\ UNCHANGED <<callVars, pc, id, count, list, answer, error, lost>>

Next == Call \/ Read \/ KillPid \/ Change

Spec == Init /\ [][Next]_vars

-----------------------------------------------------------------------------
Done(o) == pc = "idle" /\ op = o

(* A task that is there during the whole walk is found by it, whatever      *)
(* starts and ends meanwhile in the entries before and after it.            *)
StayersFound ==
  ~lost =>
    /\ Done("list")    => stayed \subseteq list
    /\ Done("running") /\ (\E t \in stayed : t.pid = arg) => answer = arg
    /\ Done("pid") /\ (\E t \in stayed : t.name = arg) => answer # NotFound

(* Nothing is found that was not there at some moment of the walk: no task  *)
(* that ended before and whose data is still in the table, and nothing made *)
(* of the zeros of a failed request.                                        *)
FoundWasThere ==
  /\ Done("list") => list \subseteq seen
  /\ Done("running") /\ answer # NotFound => \E t \in seen : t.pid = arg
  /\ Done("pid") /\ answer # NotFound
       => \E t \in seen : t.pid = answer /\ t.name = arg

(* On a table that does not change count_total less count_free is the       *)
(* number of tasks get_info lists, and neither is ever zero: each counts one*)
(* request more than there are entries.                                     *)
CountsAgree ==
  ~lost /\ seen = stayed =>
    /\ Done("total") => count = Slots + 1
    /\ Done("free")  => count = Slots + 1 - Cardinality(stayed)

=============================================================================
