------------------------------- MODULE BlobGC -------------------------------
(* The garbage collection of files and blobs, beside the synchronization   *)
(* of a remote file that several tenants hold: each has a row for it, in   *)
(* the managed folder, and its variant's blob lies once in the shared      *)
(* store.  A file is referenced by an action that is stored before its     *)
(* attachments are fetched, or by a profile that names its picture after.  *)
EXTENDS Integers

CONSTANTS
    Tenants,
    SafetyWindow,       \* safety_window_secs
    MaxDays,            \* bound: the clock
    MaxSyncs,           \* bound: synchronizations in all
    MaxSweepsOfGc,      \* bound: runs of the collection
    MaxFetchErrors      \* bound: downloads, and writes of a variant, that fail

ASSUME GcBounds ==
    /\ SafetyWindow \in Nat \ {0} /\ MaxDays \in Nat /\ MaxSyncs \in Nat
    /\ MaxSweepsOfGc \in Nat /\ MaxFetchErrors \in Nat

VARIABLES
    day,            \* the clock
    blob,           \* the blob: in the store, and its modification time
    file,           \* each tenant's row: status, created_at, and its variant's row
    wanted,         \* some other row names the tenant's file
    sync,           \* where each tenant's synchronization is
    syncs,          \* synchronizations so far
    fetchErrors,    \* downloads, and writes of a variant, that failed so far
    gc,             \* where the collection is
    sweepsOfGc,     \* collections so far
    excepted        \* history: tenants whose file was collected under a run that
                    \* had looked before it was asked for, or found, again; or
                    \* which a synchronization left without a row

gcVars == <<day, blob, file, wanted, sync, syncs, fetchErrors, gc, sweepsOfGc, excepted>>

NoFile == [st |-> "none", created |-> 0, variant |-> FALSE]
NoSync == [pc |-> "idle", first |-> FALSE, isNew |-> FALSE]
NoGc == [pc |-> "idle", cutoff |-> 0, left |-> {}, tn |-> 0]
LongBefore == -SafetyWindow - 1

GcInit ==
    /\ day = 0
    /\ blob = [there |-> FALSE, mtime |-> 0]
    /\ file = [t \in Tenants |-> NoFile] /\ wanted = [t \in Tenants |-> FALSE]
    /\ sync = [t \in Tenants |-> NoSync] /\ syncs = 0 /\ fetchErrors = 0
    /\ gc = NoGc /\ sweepsOfGc = 0 /\ excepted = {}

AtSync(t, pc) == sync[t].pc = pc
SyncTo(t, pc) == sync' = [sync EXCEPT ![t].pc = pc]

(* The collection has found the tenant's file unreferenced.                *)
ToBeSwept(t) == gc.pc = "sweep" /\ gc.tn = t

-----------------------------------------------------------------------------
(* process_inbound stores an action and then fetches its attachments; a    *)
(* profile is refreshed the other way round.                               *)
StartsSync(t, first) ==
    /\ AtSync(t, "idle") /\ ~wanted[t] /\ syncs < MaxSyncs
    /\ syncs' = syncs + 1
    /\ wanted' = [wanted EXCEPT ![t] = first]
    /\ excepted' = IF first /\ ToBeSwept(t) THEN excepted \cup {t} ELSE excepted
    /\ sync' = [sync EXCEPT ![t] = [pc |-> "row", first |-> first, isNew |-> FALSE]]
    /\ UNCHANGED <<day, blob, file, fetchErrors, gc, sweepsOfGc>>

(* The row of the file, which gets the created_at of the remote one.       *)
FindsFile(t) ==
    /\ AtSync(t, "row") /\ file[t].st # "none"
    /\ SyncTo(t, IF file[t].variant THEN "refer" ELSE "probe")
    /\ UNCHANGED <<day, blob, file, wanted, syncs, fetchErrors, gc, sweepsOfGc, excepted>>

CreatesFile(t) ==
    /\ AtSync(t, "row") /\ file[t].st = "none"
    /\ \E created \in {LongBefore, day} :
         file' = [file EXCEPT ![t] = [st |-> "P", created |-> created, variant |-> FALSE]]
    /\ sync' = [sync EXCEPT ![t].pc = "probe", ![t].isNew = TRUE]
    /\ UNCHANGED <<day, blob, wanted, syncs, fetchErrors, gc, sweepsOfGc, excepted>>

(* create_file answers with another file of the tenant, which was made of  *)
(* the same original: the synchronization goes on without a row.           *)
MatchesOther(t) ==
    /\ AtSync(t, "row") /\ file[t].st = "none"
    /\ SyncTo(t, "probe")
    /\ excepted' = excepted \cup {t}
    /\ UNCHANGED <<day, blob, file, wanted, syncs, fetchErrors, gc, sweepsOfGc>>

(* stat_blob: one that is there is not downloaded, nor touched.            *)
ProbesBlob(t) ==
    /\ AtSync(t, "probe")
    /\ SyncTo(t, IF blob.there THEN "found" ELSE "fetch")
    /\ UNCHANGED <<day, blob, file, wanted, syncs, fetchErrors, gc, sweepsOfGc, excepted>>

FetchesBlob(t) ==
    /\ AtSync(t, "fetch")
    /\ blob' = [there |-> TRUE, mtime |-> day]
    /\ excepted' = IF gc.pc \in {"recheck", "delete"} THEN excepted \cup {t} ELSE excepted
    /\ SyncTo(t, "stored")
    /\ UNCHANGED <<day, file, wanted, syncs, fetchErrors, gc, sweepsOfGc>>

(* The verifier task tries again, and then finds the row that is there.    *)
FetchFails(t) ==
    /\ AtSync(t, "fetch") /\ fetchErrors < MaxFetchErrors
    /\ fetchErrors' = fetchErrors + 1
    /\ sync' = [sync EXCEPT ![t] = IF @.first THEN [@ EXCEPT !.pc = "row", !.isNew = FALSE]
                                   ELSE NoSync]
    /\ UNCHANGED <<day, blob, file, wanted, syncs, gc, sweepsOfGc, excepted>>

(* create_variant, for a pending file.                                     *)
CreatesVariant(t) ==
    /\ sync[t].pc \in {"found", "stored"}
    /\ file' = IF file[t].st = "P" THEN [file EXCEPT ![t].variant = TRUE] ELSE file
    /\ excepted' = IF gc.pc = "delete" THEN excepted \cup {t} ELSE excepted
    /\ SyncTo(t, "finalize")
    /\ UNCHANGED <<day, blob, wanted, syncs, fetchErrors, gc, sweepsOfGc>>

(* A write that fails is logged, and the synchronization goes on.          *)
VariantFails(t) ==
    /\ sync[t].pc \in {"found", "stored"} /\ fetchErrors < MaxFetchErrors
    /\ fetchErrors' = fetchErrors + 1
    /\ excepted' = excepted \cup {t}
    /\ SyncTo(t, "finalize")
    /\ UNCHANGED <<day, blob, file, wanted, syncs, gc, sweepsOfGc>>

FinalizesFile(t) ==
    /\ AtSync(t, "finalize")
    /\ file' = IF sync[t].isNew /\ file[t].st = "P" THEN [file EXCEPT ![t].st = "A"] ELSE file
    /\ SyncTo(t, "refer")
    /\ UNCHANGED <<day, blob, wanted, syncs, fetchErrors, gc, sweepsOfGc, excepted>>

Refers(t) ==
    /\ AtSync(t, "refer")
    /\ wanted' = [wanted EXCEPT ![t] = TRUE]
    /\ excepted' = IF ~sync[t].first /\ ToBeSwept(t) THEN excepted \cup {t} ELSE excepted
    /\ sync' = [sync EXCEPT ![t] = NoSync]
    /\ UNCHANGED <<day, blob, file, syncs, fetchErrors, gc, sweepsOfGc>>

(* The owning row drops its reference.                                     *)
DropsReference(t) ==
    /\ AtSync(t, "idle") /\ wanted[t]
    /\ wanted' = [wanted EXCEPT ![t] = FALSE]
    /\ UNCHANGED <<day, blob, file, sync, syncs, fetchErrors, gc, sweepsOfGc, excepted>>

-----------------------------------------------------------------------------
(* Faulty variant: a blob that was an orphan when it was listed still is.  *)
OrphanAsListed == TRUE

Cutoff == day - SafetyWindow

(* list_referenced_variant_ids and is_variant_referenced, over all tenants *)
(* for the shared store.                                                   *)
Orphan == \A t \in Tenants : ~file[t].variant
StillOrphan == Orphan

GcStarts ==
    /\ gc = NoGc /\ sweepsOfGc < MaxSweepsOfGc
    /\ sweepsOfGc' = sweepsOfGc + 1
    /\ gc' = [NoGc EXCEPT !.pc = "tenant", !.cutoff = Cutoff, !.left = Tenants]
    /\ UNCHANGED <<day, blob, file, wanted, sync, syncs, fetchErrors, excepted>>

NextTenant == gc' = [gc EXCEPT !.pc = "tenant", !.tn = 0]

(* list_files_by_parent, and then list_referenced_managed_fids.            *)
GcListsFiles(t) ==
    /\ gc.pc = "tenant" /\ t \in gc.left
    /\ gc' = [gc EXCEPT !.left = @ \ {t},
                        !.tn = IF file[t].st # "none" /\ file[t].created < gc.cutoff THEN t ELSE 0,
                        !.pc = IF file[t].st # "none" /\ file[t].created < gc.cutoff
                                 THEN "referenced" ELSE "tenant"]
    /\ UNCHANGED <<day, blob, file, wanted, sync, syncs, fetchErrors, sweepsOfGc, excepted>>

GcListsReferenced ==
    /\ gc.pc = "referenced"
    /\ IF wanted[gc.tn] THEN NextTenant ELSE gc' = [gc EXCEPT !.pc = "sweep"]
    /\ UNCHANGED <<day, blob, file, wanted, sync, syncs, fetchErrors, sweepsOfGc, excepted>>

(* A file whose synchronization has not come to its reference goes too.    *)
GcDeletesFile ==
    /\ gc.pc = "sweep"
    /\ file' = [file EXCEPT ![gc.tn] = NoFile]
    /\ excepted' = IF ~AtSync(gc.tn, "idle") THEN excepted \cup {gc.tn} ELSE excepted
    /\ NextTenant
    /\ UNCHANGED <<day, blob, wanted, sync, syncs, fetchErrors, sweepsOfGc>>

(* The shared store is the last.                                           *)
GcListsBlobs ==
    /\ gc.pc = "tenant" /\ gc.left = {}
    /\ gc' = IF blob.there /\ Orphan THEN [gc EXCEPT !.pc = "stat"] ELSE NoGc
    /\ UNCHANGED <<day, blob, file, wanted, sync, syncs, fetchErrors, sweepsOfGc, excepted>>

GcStatsBlob ==
    /\ gc.pc = "stat"
    /\ gc' = IF blob.there /\ blob.mtime <= gc.cutoff THEN [gc EXCEPT !.pc = "recheck"]
             ELSE NoGc
    /\ UNCHANGED <<day, blob, file, wanted, sync, syncs, fetchErrors, sweepsOfGc, excepted>>

GcRechecks ==
    /\ gc.pc = "recheck"
    /\ gc' = IF StillOrphan THEN [gc EXCEPT !.pc = "delete"] ELSE NoGc
    /\ UNCHANGED <<day, blob, file, wanted, sync, syncs, fetchErrors, sweepsOfGc, excepted>>

GcDeletesBlob ==
    /\ gc.pc = "delete"
    /\ blob' = [there |-> FALSE, mtime |-> 0]
    /\ excepted' = excepted \cup {t \in Tenants : AtSync(t, "found")}
    /\ gc' = NoGc
    /\ UNCHANGED <<day, file, wanted, sync, syncs, fetchErrors, sweepsOfGc>>

(* Less than the window passes between a download and the row it is for.   *)
DayPasses ==
    /\ day < MaxDays /\ \A t \in Tenants : ~AtSync(t, "stored")
    /\ day' = day + 1
    /\ UNCHANGED <<blob, file, wanted, sync, syncs, fetchErrors, gc, sweepsOfGc, excepted>>

GcNext ==
    \/ \E t \in Tenants :
         \/ \E first \in BOOLEAN : StartsSync(t, first)
         \/ FindsFile(t) \/ CreatesFile(t) \/ MatchesOther(t) \/ ProbesBlob(t)
         \/ FetchesBlob(t) \/ FetchFails(t) \/ CreatesVariant(t) \/ VariantFails(t)
         \/ FinalizesFile(t) \/ Refers(t) \/ DropsReference(t) \/ GcListsFiles(t)
    \/ GcStarts \/ GcListsReferenced \/ GcDeletesFile
    \/ GcListsBlobs \/ GcStatsBlob \/ GcRechecks \/ GcDeletesBlob
    \/ DayPasses

GcSpec == GcInit /\ [][GcNext]_gcVars

-----------------------------------------------------------------------------
GcTypeOK ==
    /\ blob.mtime \in 0..day /\ gc.cutoff \in -SafetyWindow..day /\ excepted \subseteq Tenants
    /\ \A t \in Tenants : file[t].variant => file[t].st \in {"P", "A"}

(* A file that is named by a row, and whose synchronization is over, has   *)
(* its own row, its variant's row and its blob, though other tenants drop  *)
(* theirs and the collection runs beside.  The exceptions are the races    *)
(* its checks leave (a file or a blob that is asked for, or found in the   *)
(* store, after the last look and before the removal) and the two ways a   *)
(* synchronization ends well without a row: the table takes the file for   *)
(* another one of the same original, or a variant's row was not written.   *)
FilesWhole ==
    \A t \in Tenants \ excepted :
      wanted[t] /\ AtSync(t, "idle") =>
        file[t].st # "none" /\ file[t].variant /\ blob.there
=============================================================================
