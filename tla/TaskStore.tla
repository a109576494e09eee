----------------------------- MODULE TaskStore ------------------------------
(***************************************************************************)
(* The persistent side: the tasks and task_dependencies tables as          *)
(* MetaAdapterTaskStore and meta-adapter-sqlite write and read them.  An   *)
(* operator takes the table and returns the table one statement or one     *)
(* transaction later.  rows[id] = None: no row yet.  deps are the row's    *)
(* task_dependencies, next is next_at ("now": NULL or passed).             *)
(***************************************************************************)
EXTENDS TaskQueues

CONSTANTS
    Keys,        \* the keys of keyed requests
    KindOf       \* the task type whose input it is

Kinds == {KindOf[p] : p \in Params}

ASSUME KindAssumption == KindOf \in [Params -> Kinds]

Statuses == {"P", "F", "E"}

Row == [status : Statuses, kind : Kinds, key : Keys \cup {None},
        param : Params, deps : SUBSET Ids, retry : Nat, count : Nat,
        cron : CronKinds, next : Slots]

ASSUME NoRowAssumption == None \notin Row

Table == [Ids -> Row \cup {None}]

Pending(rows, id) == rows[id] # None /\ rows[id].status = "P"

(* find_by_key returns one of these, the pending rows with the key: it     *)
(* does not look at the kind, so two kinds that form equal keys meet here. *)
FindByKey(rows, key) ==
    {id \in Ids : key # None /\ Pending(rows, id) /\ rows[id].key = key}

(* The pending rows of a kind and key; the unique index leaves at most one. *)
OfKind(rows, key, kind) == {id \in FindByKey(rows, key) : rows[id].kind = kind}

(* find_completed: the rows of deps that left 'P', failed ones included.   *)
FindCompleted(rows, deps) ==
    {d \in deps : rows[d] # None /\ rows[d].status # "P"}

FreeIds(rows) == {id \in Ids : rows[id] = None}

(* The INSERT fails on the unique index; past the last id of the instance  *)
(* it fails too, a bound of the model.                                     *)
CanCreate(rows, key, kind) ==
    FreeIds(rows) # {} /\ OfKind(rows, key, kind) = {}

(* Which free id a new row gets does not matter.                           *)
NewId(rows) == CHOOSE id \in FreeIds(rows) : TRUE

(* create: neither the retry policy nor next_at is among the columns.      *)
CreateTask(rows, id, key, m) ==
    [rows EXCEPT ![id] =
      [status |-> "P", kind |-> KindOf[m.param], key |-> key,
       param |-> m.param, deps |-> m.deps, retry |-> 0, count |-> 0,
       cron |-> "none", next |-> "now"]]

(* An UPDATE of a row; where no row has the id it changes nothing.         *)
Change(rows, id, row) ==
    IF rows[id] = None THEN rows ELSE [rows EXCEPT ![id] = row]

StoreCron(rows, id, m) == Change(rows, id, [rows[id] EXCEPT !.cron = m.cron])

(* update_task: no status clause; deps, retry and cron only if given.  The *)
(* input changes, the kind does not.                                       *)
UpdateTask(rows, id, m) ==
    Change(rows, id,
      [rows[id] EXCEPT !.param = m.param,
                       !.next  = m.next,
                       !.deps  = IF m.deps # {} THEN m.deps ELSE @,
                       !.retry = IF m.retry > 0 THEN m.retry ELSE @,
                       !.count = IF m.retry > 0 THEN m.count ELSE @,
                       !.cron  = IF m.cron # "none" THEN m.cron ELSE @])

StampIfPending(rows, id, status) ==
    IF Pending(rows, id)
      THEN Change(rows, id, [rows[id] EXCEPT !.status = status, !.next = "now"])
      ELSE rows

(* mark_finished, its two statements.                                      *)
MarkFinished(rows, id) == StampIfPending(rows, id, "F")
DropDependency(rows, d) ==
    [id \in Ids |-> IF rows[id] = None THEN None ELSE ForgetDep(rows[id], d)]

(* mark_error with and without a next_at.                                  *)
MarkFailed(rows, id) == StampIfPending(rows, id, "E")
Postpone(rows, id) ==
    IF Pending(rows, id)
      THEN Change(rows, id, [rows[id] EXCEPT !.next = "later"]) ELSE rows
=============================================================================
