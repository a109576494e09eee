----------------------------- MODULE SearchIndex -----------------------------
(* The search index of one document file: the commit hook with its         *)
(* throttle, the two debounced tasks, the one of the file's own row ('F')  *)
(* and the one of its deep parts ('D'), the periodic sweep, and the trash. *)
(* The tasks are keyed ones of the scheduler: a request moves a pending    *)
(* task, and one that comes while the task runs makes it run again.        *)
EXTENDS Integers

CONSTANTS
    THROTTLE_SECS, DEBOUNCE_SECS, OBJECT_DEBOUNCE_SECS,
    MaxTime,        \* bound: the clock
    MaxEdits,       \* bound: commits to the document
    MaxMoves,       \* bound: moves into the trash and out of it
    MaxSweeps       \* bound: sweeps that visit the file

ASSUME SearchTimes ==
    /\ THROTTLE_SECS \in Nat /\ OBJECT_DEBOUNCE_SECS \in Nat /\ DEBOUNCE_SECS \in Nat
    /\ THROTTLE_SECS < DEBOUNCE_SECS /\ OBJECT_DEBOUNCE_SECS <= DEBOUNCE_SECS
ASSUME SearchBounds ==
    MaxTime \in Nat /\ MaxEdits \in Nat /\ MaxMoves \in Nat /\ MaxSweeps \in Nat

VARIABLES
    clock,
    docVersion,     \* the content of the document
    inTrash,        \* the file's parent is the trash folder
    moves,          \* moves so far
    lastSent,       \* LAST_SCHEDULED of the document
    spawned,        \* requests on their way to the scheduler
    dueAt,          \* when each task is due, Never when it is not pending
    runOf,          \* what each run does: of the tasks, and of the sweep
    sweeps,         \* sweeps so far
    rowF,           \* there is an 'F' row
    rowsD,          \* the content the 'D' rows are made of, 0 for no rows
    overtaken       \* history: rows were removed while a run that had found the
                    \* file live was about to write, or a sweep's list was old

searchVars == <<clock, docVersion, inTrash, moves, lastSent, spawned, dueAt, runOf,
                sweeps, rowF, rowsD, overtaken>>

IndexTasks == {"document", "object"}
Runners == IndexTasks \cup {"sweep"}
Never == -1
LongAgo == -DEBOUNCE_SECS - 1
Idle == [pc |-> "idle", live |-> FALSE, content |-> 0]

SearchInit ==
    /\ clock = 0 /\ docVersion = 1 /\ inTrash = FALSE /\ moves = 0
    /\ lastSent = LongAgo
    /\ spawned = {}
    /\ dueAt = [k \in IndexTasks |-> Never]
    /\ runOf = [r \in Runners |-> Idle]
    /\ sweeps = 0
    /\ rowF = TRUE /\ rowsD = 1
    /\ overtaken = FALSE

(* Faulty variant: the throttle lasts as long as the debounce.             *)
ThrottledAsDebounced == clock - lastSent <= DEBOUNCE_SECS

Throttled == clock - lastSent < THROTTLE_SECS

(* schedule; schedule_object has no throttle.                              *)
RequestsDocument(also) ==
    IF Throttled THEN spawned' = spawned \cup also /\ UNCHANGED lastSent
    ELSE spawned' = spawned \cup also \cup {"document"} /\ lastSent' = clock

(* A commit to the document, which an open connection can still make when  *)
(* the file is in the trash.                                               *)
CommitsEdit ==
    /\ docVersion <= MaxEdits
    /\ docVersion' = docVersion + 1
    /\ RequestsDocument({})
    /\ UNCHANGED <<clock, inTrash, moves, dueAt, runOf, sweeps, rowF, rowsD, overtaken>>

MovesToTrash ==
    /\ ~inTrash /\ moves < MaxMoves
    /\ inTrash' = TRUE /\ moves' = moves + 1
    /\ spawned' = spawned \cup {"object"}
    /\ UNCHANGED <<clock, docVersion, lastSent, dueAt, runOf, sweeps, rowF, rowsD, overtaken>>

RestoresFile ==
    /\ inTrash /\ moves < MaxMoves
    /\ inTrash' = FALSE /\ moves' = moves + 1
    /\ RequestsDocument({"object"})
    /\ UNCHANGED <<clock, docVersion, dueAt, runOf, sweeps, rowF, rowsD, overtaken>>

SpawnedSchedules(k) ==
    /\ k \in spawned
    /\ spawned' = spawned \ {k}
    /\ dueAt' = [dueAt EXCEPT ![k] = clock +
         (IF k = "document" THEN DEBOUNCE_SECS ELSE OBJECT_DEBOUNCE_SECS)]
    /\ UNCHANGED <<clock, docVersion, inTrash, moves, lastSent, runOf, sweeps, rowF,
                   rowsD, overtaken>>

-----------------------------------------------------------------------------
IndexableFile == ~inTrash

(* index_file and index_document begin with a read of the file.            *)
WithRow == [Idle EXCEPT !.pc = "write row", !.live = ~inTrash]

WithDocument == [Idle EXCEPT !.pc = IF IndexableFile THEN "export" ELSE "forget",
                             !.live = IndexableFile]

StartsIndexTask(k) ==
    /\ runOf[k] = Idle /\ dueAt[k] # Never /\ dueAt[k] <= clock
    /\ dueAt' = [dueAt EXCEPT ![k] = Never]
    /\ runOf' = [runOf EXCEPT ![k] = IF k = "document" THEN WithDocument ELSE WithRow]
    /\ UNCHANGED <<clock, docVersion, inTrash, moves, lastSent, spawned, sweeps, rowF,
                   rowsD, overtaken>>

(* page_files lists the file, one of a page of them.                       *)
SweepLists ==
    /\ runOf["sweep"] = Idle /\ sweeps < MaxSweeps
    /\ sweeps' = sweeps + 1
    /\ runOf' = [runOf EXCEPT !["sweep"] = WithRow]
    /\ UNCHANGED <<clock, docVersion, inTrash, moves, lastSent, spawned, dueAt, rowF,
                   rowsD, overtaken>>

(* A run that has found the document live has yet to write its parts.      *)
AboutToWrite(q) == runOf[q].pc \in {"export", "write"}

(* The row is replaced, or removed and the deep ones with it.  The sweep   *)
(* goes on to the document.                                                *)
WritesRow(r) ==
    /\ runOf[r].pc = "write row"
    /\ rowF' = runOf[r].live
    /\ rowsD' = IF runOf[r].live THEN rowsD ELSE 0
    /\ overtaken' = \/ overtaken
                    \/ /\ ~runOf[r].live
                       /\ \E q \in Runners \ {r} : AboutToWrite(q)
                    \/ r = "sweep" /\ runOf[r].live = inTrash
    /\ runOf' = [runOf EXCEPT ![r] = IF r = "sweep" THEN WithDocument ELSE Idle]
    /\ UNCHANGED <<clock, docVersion, inTrash, moves, lastSent, spawned, dueAt, sweeps>>

(* The document task, and the sweep, wait for the one permit to export ... *)
ExportsDocument(r) ==
    /\ runOf[r].pc = "export"
    /\ runOf' = [runOf EXCEPT ![r] = [@ EXCEPT !.pc = "write", !.content = docVersion]]
    /\ UNCHANGED <<clock, docVersion, inTrash, moves, lastSent, spawned, dueAt, sweeps,
                   rowF, rowsD, overtaken>>

(* ... and replace its parts, or remove them.                              *)
WritesParts(r) ==
    /\ runOf[r].pc \in {"write", "forget"}
    /\ rowsD' = IF runOf[r].pc = "write" THEN runOf[r].content ELSE 0
    /\ overtaken' = \/ overtaken
                    \/ /\ runOf[r].pc = "forget"
                       /\ \E q \in Runners \ {r} : AboutToWrite(q)
    /\ runOf' = [runOf EXCEPT ![r] = Idle]
    /\ UNCHANGED <<clock, docVersion, inTrash, moves, lastSent, spawned, dueAt, sweeps, rowF>>

(* The clock, which is not seen to move between the last read of a run and *)
(* its write: a transaction waits for others, but for less than a second.  *)
SearchTicks ==
    /\ clock < MaxTime
    /\ \A r \in Runners : runOf[r].pc \notin {"write", "forget"}
    /\ \A k \in IndexTasks : runOf[k].pc # "write row"
    /\ clock' = clock + 1
    /\ UNCHANGED <<docVersion, inTrash, moves, lastSent, spawned, dueAt, runOf, sweeps,
                   rowF, rowsD, overtaken>>

SearchNext ==
    \/ CommitsEdit \/ MovesToTrash \/ RestoresFile \/ SearchTicks \/ SweepLists
    \/ \E k \in IndexTasks : SpawnedSchedules(k) \/ StartsIndexTask(k)
    \/ \E r \in Runners : WritesRow(r) \/ ExportsDocument(r) \/ WritesParts(r)

SearchSpec == SearchInit /\ [][SearchNext]_searchVars

-----------------------------------------------------------------------------
SearchTypeOK ==
    /\ dueAt \in [IndexTasks -> Never..(MaxTime + DEBOUNCE_SECS)]
    /\ rowsD \in 0..docVersion /\ spawned \subseteq IndexTasks

NothingToIndex ==
    /\ spawned = {} /\ \A k \in IndexTasks : dueAt[k] = Never
    /\ \A r \in Runners : runOf[r] = Idle

(* When nothing is left to run the index is what the file asks for: all of *)
(* the newest content when it is live, nothing when it is in the trash,    *)
(* though commits are throttled, tasks debounced and sweeps run beside     *)
(* them.  The exceptions are a removal that overtook a run which had found *)
(* the file live before, and a sweep that wrote from an old list.          *)
IndexAgrees ==
    NothingToIndex /\ ~overtaken =>
      /\ rowF = ~inTrash
      /\ rowsD = IF inTrash THEN 0 ELSE docVersion
=============================================================================
