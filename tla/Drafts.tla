------------------------------- MODULE Drafts -------------------------------
(* The life of a draft action: saved, edited, scheduled, cancelled and     *)
(* published by the handlers of the API, or by the task that a schedule    *)
(* leaves behind.  Each handler looks at the row first and writes it after *)
(* an await, and so does the task; nothing locks the row in between.       *)
EXTENDS Integers, Sequences, FiniteSets

CONSTANTS
    Calls,          \* calls of the API that are under way at one time
    MaxCalls,       \* bound: calls in all
    MaxHour,        \* bound: the clock
    MaxStops        \* bound: restarts

ASSUME DraftBounds == MaxCalls \in Nat /\ MaxHour \in Nat /\ MaxStops \in Nat

VARIABLES
    draft,          \* the row: status, content, created_at, and whether it is sealed
    callOf,         \* what each call is about to write
    calls,          \* calls so far
    publishTask,    \* DraftPublishTask, keyed by the row: "due" or "running",
                    \* when it is due, and the time its own row keeps of that
    publishRun,     \* what its body is about to do
    creatorTask,    \* ActionCreatorTask, keyed by the row
    sent,           \* the contents that were signed and sent
    hour,           \* the clock
    stops,          \* restarts so far
    intent,         \* history: what the user was last told of the draft
    timed,          \* history: the hour publish_draft promised, whether a restart
                    \* lost it, and the hour the task went to publish
    crossed         \* history: two actors have been past their look at one time

draftVars == <<draft, callOf, calls, publishTask, publishRun, creatorTask, sent, hour, stops,
               intent, timed, crossed>>

NoCall == [does |-> "nothing", at |-> 0, content |-> 0]
NoTask == [pc |-> "none", at |-> 0, content |-> 0]
NoSchedule == [pc |-> "none", at |-> 0, saved |-> 0]

(* create_action leaves a draft or a scheduled one; here the former.       *)
DraftsInit ==
    /\ draft = [st |-> "R", content |-> 0, at |-> 0, sealed |-> FALSE]
    /\ callOf = [c \in Calls |-> NoCall]
    /\ calls = 0
    /\ publishTask = NoSchedule /\ publishRun = NoTask /\ creatorTask = NoTask
    /\ sent = <<>> /\ hour = 0 /\ stops = 0
    /\ intent = [st |-> "R", content |-> 0]
    /\ timed = [told |-> 0, lost |-> FALSE, began |-> 0]
    /\ crossed = FALSE

InFlight(c) == callOf[c] # NoCall
TaskInFlight == publishRun # NoTask \/ creatorTask # NoTask

(* The checks of patch_action, publish_draft and cancel_scheduled.         *)
AllowedIn(does, st) == st \in IF does = "cancel" THEN {"S"} ELSE {"R", "S"}

Looks(c, does, at) ==
    /\ callOf[c] = NoCall /\ calls < MaxCalls
    /\ AllowedIn(does, draft.st)
    /\ calls' = calls + 1
    /\ callOf' = [callOf EXCEPT ![c] =
         [does |-> does, at |-> at,
          content |-> IF does = "patch" THEN calls + 1 ELSE draft.content]]
    /\ crossed' = (crossed \/ TaskInFlight \/ \E d \in Calls : InFlight(d))
    /\ UNCHANGED <<draft, publishTask, publishRun, creatorTask, sent, hour, stops, intent, timed>>

Answered(c) == callOf' = [callOf EXCEPT ![c] = NoCall]
Asked(c, does) == callOf[c].does = does /\ draft.st # "gone"

(* update_action_data writes whatever the status is now; with no row left  *)
(* it fails, and the call with it.                                         *)
CallFindsNoRow(c) ==
    /\ InFlight(c) /\ draft.st = "gone"
    /\ Answered(c)
    /\ UNCHANGED <<draft, calls, publishTask, publishRun, creatorTask, sent, hour, stops, intent, timed, crossed>>

(* patch_action: the content, or the time in created_at.                   *)
Patches(c) ==
    /\ Asked(c, "patch")
    /\ draft' = [draft EXCEPT !.content = callOf[c].content,
                              !.at = IF callOf[c].at = 0 THEN @ ELSE callOf[c].at]
    /\ intent' = [intent EXCEPT !.content = callOf[c].content]
    /\ Answered(c)
    /\ UNCHANGED <<calls, publishTask, publishRun, creatorTask, sent, hour, stops, timed, crossed>>

(* publish_draft with a time: the status, then the task, which replaces an *)
(* earlier one under its key.  Only the replacement of a pending task      *)
(* keeps the time in the task's row: the insertion of a new one leaves it  *)
(* out.  A task that is asked for while it runs runs again at once.        *)
MarksScheduled(c) ==
    /\ Asked(c, "schedule")
    /\ draft' = [draft EXCEPT !.st = "S", !.at = callOf[c].at]
    /\ callOf' = [callOf EXCEPT ![c].does = "schedule task"]
    /\ UNCHANGED <<calls, publishTask, publishRun, creatorTask, sent, hour, stops, intent, timed, crossed>>

SchedulesPublish(c) ==
    /\ Asked(c, "schedule task")
    /\ publishTask' = [pc |-> "due",
                       at |-> IF publishRun = NoTask THEN callOf[c].at ELSE 0,
                       saved |-> IF publishTask = NoSchedule THEN 0 ELSE callOf[c].at]
    /\ intent' = [intent EXCEPT !.st = "S"]
    /\ timed' = [timed EXCEPT !.told = callOf[c].at, !.lost = FALSE]
    /\ Answered(c)
    /\ UNCHANGED <<draft, calls, publishRun, creatorTask, sent, hour, stops, crossed>>

(* publish_draft without one.                                              *)
MarksPending(c) ==
    /\ Asked(c, "publish")
    /\ draft' = [draft EXCEPT !.st = "P", !.at = hour]
    /\ callOf' = [callOf EXCEPT ![c].does = "create task"]
    /\ UNCHANGED <<calls, publishTask, publishRun, creatorTask, sent, hour, stops, intent, timed, crossed>>

SchedulesCreator(c) ==
    /\ Asked(c, "create task")
    /\ creatorTask' = [pc |-> "run", at |-> 0, content |-> callOf[c].content]
    /\ intent' = [intent EXCEPT !.st = "P"]
    /\ Answered(c)
    /\ UNCHANGED <<draft, calls, publishTask, publishRun, sent, hour, stops, timed, crossed>>

CancelsSchedule(c) ==
    /\ Asked(c, "cancel")
    /\ draft' = [draft EXCEPT !.st = "R"]
    /\ intent' = [intent EXCEPT !.st = "R"]
    /\ Answered(c)
    /\ UNCHANGED <<calls, publishTask, publishRun, creatorTask, sent, hour, stops, timed, crossed>>

(* delete_action: a statement that looks at the status itself.             *)
DeletesDraft ==
    /\ draft.st = "R"
    /\ draft' = [draft EXCEPT !.st = "gone"] /\ intent' = [intent EXCEPT !.st = "gone"]
    /\ crossed' = (crossed \/ TaskInFlight \/ \E d \in Calls : InFlight(d))
    /\ UNCHANGED <<callOf, calls, publishTask, publishRun, creatorTask, sent, hour, stops, timed>>

-----------------------------------------------------------------------------
(* Faulty variant: a draft that was scheduled once is published.           *)
StillWanted(st) == st \in {"R", "S"}

StillScheduled(st) == st = "S"

(* The current content, to pick up the edits made after scheduling.        *)
ContentToPublish == draft.content

PublishTaskStarts ==
    /\ publishTask.pc = "due" /\ publishTask.at <= hour /\ publishRun = NoTask
    /\ IF StillScheduled(draft.st)
         THEN /\ publishTask' = [publishTask EXCEPT !.pc = "running"]
              /\ publishRun' = [NoTask EXCEPT !.pc = "mark", !.content = ContentToPublish]
              /\ timed' = [timed EXCEPT !.began = hour]
         ELSE publishTask' = NoSchedule /\ UNCHANGED <<publishRun, timed>>
    /\ crossed' = (crossed \/ \E c \in Calls : InFlight(c))
    /\ UNCHANGED <<draft, callOf, calls, creatorTask, sent, hour, stops, intent>>

(* The end of the task, unless it was asked for again while it ran.        *)
PublishTaskEnds ==
    /\ publishRun' = NoTask
    /\ publishTask' = IF publishTask.pc = "running" THEN NoSchedule ELSE publishTask

PublishTaskMarks ==
    /\ publishRun.pc = "mark"
    /\ IF draft.st = "gone" THEN PublishTaskEnds /\ UNCHANGED draft
       ELSE /\ draft' = [draft EXCEPT !.st = "P"]
            /\ publishRun' = [publishRun EXCEPT !.pc = "create"]
            /\ UNCHANGED publishTask
    /\ UNCHANGED <<callOf, calls, creatorTask, sent, hour, stops, intent, timed, crossed>>

PublishTaskCreates ==
    /\ publishRun.pc = "create"
    /\ creatorTask' = [pc |-> "run", at |-> 0, content |-> publishRun.content]
    /\ PublishTaskEnds
    /\ UNCHANGED <<draft, callOf, calls, sent, hour, stops, intent, timed, crossed>>

FinalizableDraft == draft.st = "P" /\ ~draft.sealed

(* ActionCreatorTask, as far as finalize_action: sign, seal, send.         *)
CreatorFinalizes ==
    /\ creatorTask.pc = "run"
    /\ creatorTask' = NoTask
    /\ IF FinalizableDraft
         THEN /\ draft' = [draft EXCEPT !.st = "A", !.sealed = TRUE]
              /\ sent' = Append(sent, creatorTask.content)
         ELSE UNCHANGED <<draft, sent>>
    /\ UNCHANGED <<callOf, calls, publishTask, publishRun, hour, stops, intent, timed, crossed>>

(* The calls end; the tasks start again from the beginning, the one that   *)
(* publishes when its row says, which without a time is at once.           *)
ForgetsTime == publishTask.saved < publishTask.at /\ hour < publishTask.at

ServerStops ==
    /\ stops < MaxStops
    /\ stops' = stops + 1
    /\ callOf' = [c \in Calls |-> NoCall]
    /\ publishTask' = IF publishTask.pc = "none" THEN NoSchedule
                      ELSE [publishTask EXCEPT !.pc = "due", !.at = publishTask.saved]
    /\ timed' = [timed EXCEPT !.lost = @ \/ ForgetsTime]
    /\ publishRun' = NoTask
    /\ crossed' = (crossed \/ \E c \in Calls : InFlight(c))
    /\ UNCHANGED <<draft, calls, creatorTask, sent, hour, intent>>

HourPasses ==
    /\ hour < MaxHour /\ hour' = hour + 1
    /\ UNCHANGED <<draft, callOf, calls, publishTask, publishRun, creatorTask, sent, stops, intent,
                   timed, crossed>>

DraftsNext ==
    \/ \E c \in Calls :
         \/ \E at \in 1..MaxHour : Looks(c, "schedule", at) \/ Looks(c, "patch", at)
         \/ \E does \in {"patch", "publish", "cancel"} : Looks(c, does, 0)
         \/ Patches(c) \/ MarksScheduled(c) \/ SchedulesPublish(c) \/ MarksPending(c)
         \/ SchedulesCreator(c) \/ CancelsSchedule(c) \/ CallFindsNoRow(c)
    \/ DeletesDraft
    \/ PublishTaskStarts \/ PublishTaskMarks \/ PublishTaskCreates \/ CreatorFinalizes
    \/ ServerStops \/ HourPasses

DraftsSpec == DraftsInit /\ [][DraftsNext]_draftVars

-----------------------------------------------------------------------------
DraftsTypeOK ==
    /\ draft.st \in {"R", "S", "P", "A", "gone"} /\ draft.sealed \in BOOLEAN
    /\ publishTask.pc \in {"none", "due", "running"}
    /\ publishRun.pc \in {"none", "mark", "create"}
    /\ creatorTask.pc \in {"none", "run"}

(* However the calls and the tasks interleave, a draft is sent once.  When *)
(* they do not overlap, what is sent is the draft as last edited, a        *)
(* cancelled or deleted one is not sent, though its task is still there    *)
(* and comes due, or a restart brings it back, and a scheduled one is not  *)
(* sent before the hour publish_draft promised.  The exception is a        *)
(* restart that lost the hour, which the scheduler had not stored.         *)
SentAsMeant ==
    /\ Len(sent) <= 1
    /\ ~crossed /\ sent # <<>> =>
         /\ sent[Len(sent)] = intent.content
         /\ intent.st \notin {"R", "gone"}
         /\ intent.st = "S" => timed.lost \/ timed.began >= timed.told
=============================================================================
