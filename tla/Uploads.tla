------------------------------ MODULE Uploads ------------------------------
(***************************************************************************)
(* From an uploaded blob to a file with an id, and to a post that attaches *)
(* it.  The handler makes a pending row, records the original, and leaves  *)
(* the variants to tasks, the id, which is the digest of the variants, to  *)
(* a task that depends on them.  A post that names a pending file depends  *)
(* on that one.  Uploads of one content, deletions and restarts meet at    *)
(* any of these steps.  So do a post and an upload with one number: both   *)
(* name their task by tenant and number, and the scheduler looks a name up *)
(* without the kind of the task.                                           *)
(***************************************************************************)
EXTENDS Naturals

CONSTANTS
    Uploads,             \* uploads under way; each is the f_id of its row
    Renditions,          \* variants left to tasks
    MaxUploadStops       \* bound: restarts

VARIABLES
    alike,           \* all uploads carry one content
    upFile,          \* the row of each upload, with its variants' rows
    upAt,            \* where each handler is
    rendering,       \* variant tasks that have not ended, per file
    idTask,          \* FileIdGeneratorTask of each file
    post,            \* an action with attachments, and its creator task: the
                     \* upload, if any, with the same number, and whether one
                     \* row holds the tasks of both
    uploadStops,     \* restarts so far
    clashed          \* history: files whose id a row had already

uploadVars == <<alike, upFile, upAt, rendering, idTask, post, uploadStops, clashed>>

NoId == <<>>
NoUpFile == [st |-> "none", id |-> NoId, variants |-> {}]
NoIdTask == [pc |-> "none", deps |-> {}, listed |-> {}]
NoPost == [pc |-> "none", files |-> {}, deps |-> {}, key |-> {}, shares |-> FALSE]

UploadsInit ==
    /\ alike \in BOOLEAN
    /\ upFile = [u \in Uploads |-> NoUpFile]
    /\ upAt = [u \in Uploads |-> "idle"]
    /\ rendering = [u \in Uploads |-> {}]
    /\ idTask = [u \in Uploads |-> NoIdTask]
    /\ post = NoPost /\ uploadStops = 0 /\ clashed = {}

(* get_file_descriptor and the hash over it.                               *)
Content(u) == IF alike THEN "same" ELSE u
Digest(u, variants) == <<Content(u), variants>>
UploadTo(u, pc) == upAt' = [upAt EXCEPT ![u] = pc]

-----------------------------------------------------------------------------
(* create_file: a live file with an id and this original answers at once.  *)
KnownContent(u) ==
    \E w \in Uploads : /\ upFile[w].st = "A" /\ "orig" \in upFile[w].variants
                       /\ Content(w) = Content(u)

CreatesRow(u) ==
    /\ upAt[u] = "idle"
    /\ IF KnownContent(u)
         THEN UploadTo(u, "known") /\ UNCHANGED upFile
         ELSE /\ upFile' = [upFile EXCEPT ![u].st = "P"]
              /\ UploadTo(u, "created")
    /\ UNCHANGED <<alike, rendering, idTask, post, uploadStops, clashed>>

(* create_variant, which fails unless the file is pending.                 *)
AddsVariant(u, v) ==
    upFile' = IF upFile[u].st = "P" THEN [upFile EXCEPT ![u].variants = @ \cup {v}] ELSE upFile

(* The original, which not every preset records, and the thumbnail.        *)
RecordsOrig(u) ==
    /\ upAt[u] = "created"
    /\ AddsVariant(u, "orig")
    /\ UploadTo(u, IF upFile[u].st = "P" THEN "recorded" ELSE "failed")
    /\ UNCHANGED <<alike, rendering, idTask, post, uploadStops, clashed>>

SkipsOrig(u) ==
    /\ upAt[u] = "created"
    /\ UploadTo(u, "recorded")
    /\ UNCHANGED <<alike, upFile, rendering, idTask, post, uploadStops, clashed>>

(* One task per variant the preset, the settings and the size call for;    *)
(* each is added with an await of its own.                                 *)
AddsRendition(u, v) ==
    /\ upAt[u] = "recorded" /\ v \notin idTask[u].deps
    /\ rendering' = [rendering EXCEPT ![u] = @ \cup {v}]
    /\ idTask' = [idTask EXCEPT ![u].deps = @ \cup {v}]
    /\ UNCHANGED <<alike, upFile, upAt, post, uploadStops, clashed>>

(* The row is that of a pending creator task, if that has the number; then *)
(* the id task takes its place.                                            *)
DropsPost(u) ==
    post' = IF post.pc = "waiting" /\ u \in post.key
              THEN [post EXCEPT !.pc = "lost", !.shares = TRUE] ELSE post

SchedulesIdTask(u) ==
    /\ upAt[u] = "recorded"
    /\ idTask' = [idTask EXCEPT ![u].pc = "due"]
    /\ DropsPost(u)
    /\ UploadTo(u, "answered")
    /\ UNCHANGED <<alike, upFile, rendering, uploadStops, clashed>>

UploadFails(u) ==
    /\ upAt[u] \in {"created", "recorded"}
    /\ UploadTo(u, "failed")
    /\ UNCHANGED <<alike, upFile, rendering, idTask, post, uploadStops, clashed>>

(* ImageResizerTask, VideoTranscoderTask and AudioExtractorTask: encoded,  *)
(* stored and recorded, or failed, which ends the task as well.            *)
Renders(u, v) ==
    /\ v \in rendering[u]
    /\ AddsVariant(u, v)
    /\ rendering' = [rendering EXCEPT ![u] = @ \ {v}]
    /\ UNCHANGED <<alike, upAt, idTask, post, uploadStops, clashed>>

RenderFails(u, v) ==
    /\ v \in rendering[u]
    /\ rendering' = [rendering EXCEPT ![u] = @ \ {v}]
    /\ UNCHANGED <<alike, upFile, upAt, idTask, post, uploadStops, clashed>>

-----------------------------------------------------------------------------
(* FileIdGeneratorTask lists the variants and then finalizes the file in   *)
(* several statements.  A run that fails forgets that its row was asked    *)
(* for again meanwhile.  AtOnce is the faulty variant.                     *)
AtOnce(u) == TRUE
DepsEnded(u) == idTask[u].deps \cap rendering[u] = {}

IdTaskAt(u, pc) == idTask[u].pc = pc
IdTaskTo(u, pc) == idTask' = [idTask EXCEPT ![u].pc = pc]
NewId(u) == Digest(u, idTask[u].listed)

ListsVariants(u) ==
    /\ IdTaskAt(u, "due") /\ DepsEnded(u)
    /\ idTask' = [idTask EXCEPT ![u].pc = "look", ![u].listed = upFile[u].variants]
    /\ UNCHANGED <<alike, upFile, upAt, rendering, post, uploadStops, clashed>>

(* finalize_file: the row may have its id from before a restart.           *)
FindsIt(u) ==
    /\ IdTaskAt(u, "look")
    /\ \/ /\ upFile[u].id = NewId(u) /\ upFile[u].st = "A"
          /\ IdTaskTo(u, "done") /\ UNCHANGED post
       \/ /\ upFile[u].st = "none" \/ upFile[u].id \notin {NoId, NewId(u)}
          /\ IdTaskTo(u, "failed") /\ DropsPost(u)
       \/ /\ upFile[u].st # "none"
          /\ upFile[u].id = NoId \/ (upFile[u].id = NewId(u) /\ upFile[u].st = "D")
          /\ IdTaskTo(u, "purge variants") /\ UNCHANGED post
    /\ UNCHANGED <<alike, upFile, upAt, rendering, uploadStops, clashed>>

(* A deleted file of the same id makes room, first with its variants.      *)
InTheWay(u, w) == upFile[w].id = NewId(u) /\ upFile[w].st = "D"

PurgesVariants(u) ==
    /\ IdTaskAt(u, "purge variants")
    /\ upFile' = [w \in Uploads |-> IF InTheWay(u, w) THEN [upFile[w] EXCEPT !.variants = {}]
                                                    ELSE upFile[w]]
    /\ IdTaskTo(u, "purge")
    /\ UNCHANGED <<alike, upAt, rendering, post, uploadStops, clashed>>

PurgesRow(u) ==
    /\ IdTaskAt(u, "purge")
    /\ upFile' = [w \in Uploads |-> IF InTheWay(u, w) THEN NoUpFile ELSE upFile[w]]
    /\ IdTaskTo(u, "update")
    /\ UNCHANGED <<alike, upAt, rendering, post, uploadStops, clashed>>

(* The unique index refuses an id that a row has, whatever its status; a   *)
(* file that is not pending any more is left alone.  Both fail the task.   *)
IdTaken(u) == \E w \in Uploads \ {u} : upFile[w].id = NewId(u)

SetsId(u) ==
    /\ IdTaskAt(u, "update") /\ upFile[u].st = "P" /\ ~IdTaken(u)
    /\ upFile' = [upFile EXCEPT ![u].st = "A", ![u].id = NewId(u)]
    /\ IdTaskTo(u, "done")
    /\ UNCHANGED <<alike, upAt, rendering, post, uploadStops, clashed>>

IdRefused(u) ==
    /\ IdTaskAt(u, "update") /\ (upFile[u].st = "P" => IdTaken(u))
    /\ clashed' = IF upFile[u].st = "P" THEN clashed \cup {u} ELSE clashed
    /\ IdTaskTo(u, "failed") /\ DropsPost(u)
    /\ UNCHANGED <<alike, upFile, upAt, rendering, uploadStops>>

(* delete_file takes a pending file by its row number.                     *)
DeletesFile(u) ==
    /\ upFile[u].st \in {"P", "A"}
    /\ upFile' = [upFile EXCEPT ![u].st = "D"]
    /\ UNCHANGED <<alike, upAt, rendering, idTask, post, uploadStops, clashed>>

-----------------------------------------------------------------------------
IdTaskEnded(u) == idTask[u].pc \in {"none", "done", "failed"}

(* create_action: collect_file_deps lists the id tasks that are pending,   *)
(* and the creator task is scheduled after them.                           *)
FileDeps(files) == {u \in files : ~IdTaskEnded(u)}

Posts(files, key) ==
    /\ post = NoPost /\ files # {} /\ \A u \in files : upAt[u] = "answered"
    /\ post' = [pc |-> "collected", files |-> files, deps |-> FileDeps(files), key |-> key,
                shares |-> FALSE]
    /\ UNCHANGED <<alike, upFile, upAt, rendering, idTask, uploadStops, clashed>>

(* A pending id task of that number gives its row away: one that was due   *)
(* is replaced and never runs, one that runs comes first.                  *)
IdTaskRuns(u) == idTask[u].pc \in {"look", "purge variants", "purge", "update"}

SchedulesPost ==
    /\ post.pc = "collected"
    /\ post' = [post EXCEPT !.pc = "waiting", !.shares = \E u \in post.key : ~IdTaskEnded(u)]
    /\ idTask' = [u \in Uploads |-> IF u \in post.key /\ IdTaskAt(u, "due")
                                     THEN [idTask[u] EXCEPT !.pc = "taken"] ELSE idTask[u]]
    /\ UNCHANGED <<alike, upFile, upAt, rendering, uploadStops, clashed>>

(* resolve_attachments: a file that is gone or has no id fails the task,   *)
(* which has no policy to retry with.  A post that names the file whose    *)
(* task it replaced waits for itself.                                      *)
ResolvesFiles ==
    /\ post.pc = "waiting" /\ \A u \in post.deps : IdTaskEnded(u)
    /\ \A u \in post.key : ~IdTaskRuns(u)
    /\ post' = [post EXCEPT !.pc = IF \A u \in post.files : upFile[u].id # NoId
                                     THEN "resolved" ELSE "failed"]
    /\ UNCHANGED <<alike, upFile, upAt, rendering, idTask, uploadStops, clashed>>

(* The handlers are lost; the tasks start again from the beginning, but    *)
(* for those in a shared row: it has the kind of the one and the input of  *)
(* the other, and is skipped.                                              *)
Displaced(u) == idTask[u].pc \in {"taken", "lost"}
InSharedRow(u) == post.shares /\ u \in post.key

UploadStops ==
    /\ uploadStops < MaxUploadStops /\ uploadStops' = uploadStops + 1
    /\ upAt' = [u \in Uploads |->
           IF upAt[u] \in {"created", "recorded"} THEN "failed" ELSE upAt[u]]
    /\ idTask' = [u \in Uploads |->
           IF IdTaskEnded(u) \/ Displaced(u) THEN idTask[u]
           ELSE [idTask[u] EXCEPT !.pc = IF InSharedRow(u) THEN "lost" ELSE "due",
                                  !.listed = {}]]
    /\ post' = IF post.pc = "collected" THEN NoPost
               ELSE IF post.pc = "waiting" /\ post.shares THEN [post EXCEPT !.pc = "lost"]
               ELSE post
    /\ UNCHANGED <<alike, upFile, rendering, clashed>>

UploadsNext ==
    \/ \E u \in Uploads :
         \/ CreatesRow(u) \/ RecordsOrig(u) \/ SkipsOrig(u)
         \/ SchedulesIdTask(u) \/ UploadFails(u) \/ DeletesFile(u)
         \/ \E v \in Renditions : AddsRendition(u, v) \/ Renders(u, v) \/ RenderFails(u, v)
         \/ ListsVariants(u) \/ FindsIt(u) \/ PurgesVariants(u) \/ PurgesRow(u)
         \/ SetsId(u) \/ IdRefused(u)
    \/ \E files \in SUBSET Uploads, u \in Uploads : Posts(files, {}) \/ Posts(files, {u})
    \/ SchedulesPost \/ ResolvesFiles \/ UploadStops

UploadsSpec == UploadsInit /\ [][UploadsNext]_uploadVars

-----------------------------------------------------------------------------
UploadsTypeOK ==
    /\ \A u \in Uploads : /\ upFile[u].st \in {"none", "P", "A", "D"}
                          /\ upFile[u].variants \subseteq Renditions \cup {"orig"}
                          /\ rendering[u] \subseteq idTask[u].deps
                          /\ upFile[u].st = "A" => upFile[u].id # NoId
    /\ post.deps \subseteq post.files /\ post.key \subseteq Uploads /\ clashed \subseteq Uploads

(* A pending file that was answered for gets its id: its task is still to  *)
(* end.  The exception is a file whose id another row of the same content  *)
(* had when it came to be written.                                         *)
OnItsWay(u) == upFile[u].st = "P" /\ upAt[u] = "answered" /\ u \notin clashed

(* The id of a live file is the digest of the variants it has, whatever    *)
(* order its tasks ended in, which of them failed, and whoever uploaded or *)
(* deleted the same content meanwhile; no file is left without; and a post *)
(* fails only when a file of it can get no id any more.  The exception is  *)
(* a file and a post that shared a row: the task of either may be lost.    *)
FilesIdentified ==
    /\ \A u \in Uploads :
         /\ upFile[u].st = "A" => upFile[u].id = Digest(u, upFile[u].variants)
         /\ OnItsWay(u) => ~IdTaskEnded(u)
         /\ Displaced(u) => InSharedRow(u)
    /\ post.pc = "failed" =>
         \E u \in post.files : upFile[u].id = NoId /\ IdTaskEnded(u)
    /\ post.pc = "lost" => post.shares
=============================================================================
