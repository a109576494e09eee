------------------------------- MODULE DavSync -------------------------------
(***************************************************************************)
(* A calendar or an address book as its DAV clients see it: resources are  *)
(* put and deleted, and a client follows with sync-collection.  A row's    *)
(* updated_at is stamped with the second in which its transaction wrote,   *)
(* the transaction commits later; the token is a second too.  An address   *)
(* book revives the row of a deleted resource, a calendar inserts a new    *)
(* row beside the one that is deleted.                                     *)
(*                                                                         *)
(* The database has one writer at a time.  Recurrence overrides are rows   *)
(* no listing shows: writing one touches the collection alone.             *)
(***************************************************************************)
EXTENDS Integers, Sequences, FiniteSets

CONSTANTS
    Uids,            \* resources
    Editors,         \* PUT, DELETE and REST requests that run at once
    MaxSecond,       \* the clock's last second
    MaxWrites,       \* transactions
    MAX_SYNC_PAGE    \* rows of one answer at the most; a client may ask for fewer

ASSUME DavAssumption == MAX_SYNC_PAGE \in Nat

VARIABLES
    revives,         \* an address book rather than a calendar
    second,          \* the wall clock
    rows,            \* the table, in the order of its ids
    touched,         \* updated_at of the collection
    writer,          \* the open transaction: who, and the tables it would commit
    writes,          \* transactions so far; etags are taken from it
    editorAt,        \* the requests that write
    client,          \* the client's copy, its token and its running sync
    shown            \* history: what the collection held when it was last listed

davVars == <<revives, second, rows, touched, writer, writes, editorAt, client, shown>>

NoWriter == [who |-> "nobody", rows |-> <<>>, touched |-> 0]
EditorIdle == [pc |-> "idle", uid |-> ""]
NoToken == -1
Absent == 0

DavInit ==
    /\ revives \in BOOLEAN
    /\ second = 1
    /\ rows = <<>>
    /\ touched = 0
    /\ writer = NoWriter
    /\ writes = 0
    /\ editorAt = [w \in Editors |-> EditorIdle]
    /\ client = [pc |-> "idle", copy |-> [u \in Uids |-> Absent], token |-> NoToken,
                 floor |-> 0, complete |-> FALSE]
    /\ shown = [u \in Uids |-> Absent]

Live(u) == {i \in DOMAIN rows : rows[i].uid = u /\ ~rows[i].deleted}
LiveEtag(u) == IF Live(u) = {} THEN Absent ELSE rows[CHOOSE i \in Live(u) : TRUE].etag
RowsOf(u) == {i \in DOMAIN rows : rows[i].uid = u}

-----------------------------------------------------------------------------
(* put_resource: the preconditions are judged on a row read before, and    *)
(* outside of, the transaction that writes.                                *)
Permitted(u, header) ==
    CASE header = "If-None-Match" -> LiveEtag(u) = Absent
      [] header = "If-Match"      -> LiveEtag(u) \in {Absent, client.copy[u]}
      [] OTHER                    -> TRUE

LooksUp(w, u, header) ==
    /\ editorAt[w].pc = "idle"
    /\ Permitted(u, header)
    /\ editorAt' = [editorAt EXCEPT ![w] = [EditorIdle EXCEPT !.pc = "put", !.uid = u]]
    /\ UNCHANGED <<revives, second, rows, touched, writer, writes, client, shown>>

(* A transaction takes the writer's lock, stamps what it writes and bumps  *)
(* the collection.                                                         *)
Opens(w, next) ==
    /\ writer = NoWriter /\ writes < MaxWrites
    /\ writer' = [who |-> w, rows |-> next, touched |-> second]
    /\ writes' = writes + 1
    /\ UNCHANGED <<revives, second, rows, touched, client, shown>>

(* Faulty variant: every PUT inserts a row.                                *)
RowInserted(table, u, etag) ==
    Append(table, [uid |-> u, etag |-> etag, deleted |-> FALSE, updated |-> second])

RowUpserted(table, u, etag) ==
    LET row == [uid |-> u, etag |-> etag, deleted |-> FALSE, updated |-> second]
        at == {i \in DOMAIN table : table[i].uid = u /\ (revives \/ ~table[i].deleted)}
    IN  IF at = {} THEN Append(table, row)
        ELSE [table EXCEPT ![CHOOSE i \in at : TRUE] = row]

PutsResource(w) ==
    /\ editorAt[w].pc = "put"
    /\ Opens(w, RowUpserted(rows, editorAt[w].uid, writes + 1))
    /\ editorAt' = [editorAt EXCEPT ![w].pc = "commit put"]

(* split_calendar_object_series: the master and its tail in one            *)
(* transaction.                                                            *)
SplitsSeries(w, u, tail) ==
    /\ editorAt[w].pc = "idle" /\ ~revives /\ u # tail /\ Live(u) # {} /\ Live(tail) = {}
    /\ Opens(w, RowUpserted(RowUpserted(rows, u, writes + 1), tail, writes + 1))
    /\ editorAt' = [editorAt EXCEPT ![w].pc = "commit"]

(* The second pass of a calendar's PUT writes its overrides.               *)
WritesOverride(w) ==
    /\ editorAt[w].pc = "overrides"
    /\ Opens(w, rows)
    /\ editorAt' = [editorAt EXCEPT ![w].pc = "commit"]

(* delete_resource                                                         *)
DeletesResource(w, u) ==
    /\ editorAt[w].pc = "idle" /\ Live(u) # {}
    /\ LET i == CHOOSE x \in Live(u) : TRUE
       IN  Opens(w, [rows EXCEPT ![i].deleted = TRUE, ![i].updated = second])
    /\ editorAt' = [editorAt EXCEPT ![w].pc = "commit"]

Commits(w) ==
    /\ editorAt[w].pc \in {"commit", "commit put"}
    /\ rows' = writer.rows
    /\ touched' = writer.touched
    /\ writer' = NoWriter
    /\ \E next \in {"idle"} \cup
           (IF editorAt[w].pc = "commit put" /\ ~revives THEN {"overrides"} ELSE {}) :
         editorAt' = [editorAt EXCEPT ![w] = [EditorIdle EXCEPT !.pc = next]]
    /\ UNCHANGED <<revives, second, writes, client, shown>>

-----------------------------------------------------------------------------
(* sync-collection: the collection's row is read, then the rows from the   *)
(* token's second on, or the live ones if there is no token, in the order  *)
(* they were written.                                                      *)
ReadsCollection ==
    /\ client.pc = "idle"
    /\ client' = [client EXCEPT !.pc = "list", !.floor = touched]
    /\ UNCHANGED <<revives, second, rows, touched, writer, writes, editorAt, shown>>

(* Faulty variant: what was written in the token's second is skipped.      *)
After(row) == row.updated > client.token
FromToken(row) == row.updated >= client.token

Matches ==
    {i \in DOMAIN rows : IF client.token = NoToken THEN ~rows[i].deleted
                         ELSE FromToken(rows[i])}

(* ORDER BY updated_at, id                                                 *)
Before(i, j) ==
    \/ rows[i].updated < rows[j].updated
    \/ rows[i].updated = rows[j].updated /\ i < j

(* The first rows of the answer, as many as LIMIT lets through.            *)
PageOf(matches, limit) ==
    {i \in matches : Cardinality({j \in matches : Before(j, i)}) < limit}

LatestOf(page) ==
    IF page = {} THEN 0
    ELSE rows[CHOOSE i \in page : \A j \in page : rows[j].updated <= rows[i].updated].updated

(* The token: the latest of the rows on the page, and on a page that is    *)
(* not full at least the collection's own second.                          *)
TokenOf(page, full) ==
    IF full \/ LatestOf(page) > client.floor THEN LatestOf(page) ELSE client.floor

(* The client follows the page from its first row to its last: of several  *)
(* rows of one resource the last one counts.                               *)
IsLast(i, page) ==
    i \in page /\ \A j \in page \ {i} : rows[j].uid = rows[i].uid => Before(j, i)

Merged(copy, page) ==
    [u \in Uids |->
       IF \A i \in page : rows[i].uid # u THEN copy[u]
       ELSE LET last == rows[CHOOSE i \in page : rows[i].uid = u /\ IsLast(i, page)]
            IN  IF last.deleted THEN Absent ELSE last.etag]

ListsChanges ==
    /\ client.pc = "list"
    /\ \E limit \in 1..MAX_SYNC_PAGE :
         LET full == Cardinality(Matches) >= limit
             page == PageOf(Matches, limit)
         IN  client' = [client EXCEPT !.pc = "idle", !.complete = ~full,
                                      !.copy = Merged(client.copy, page),
                                      !.token = TokenOf(page, full)]
    /\ shown' = [u \in Uids |-> LiveEtag(u)]
    /\ UNCHANGED <<revives, second, rows, touched, writer, writes, editorAt>>

SecondPasses ==
    /\ second < MaxSecond
    /\ second' = second + 1
    /\ UNCHANGED <<revives, rows, touched, writer, writes, editorAt, client, shown>>

-----------------------------------------------------------------------------
DavNext ==
    \/ \E w \in Editors :
         \/ \E u \in Uids :
              \/ \E header \in {"none", "If-None-Match", "If-Match"} : LooksUp(w, u, header)
              \/ DeletesResource(w, u)
              \/ \E tail \in Uids : SplitsSeries(w, u, tail)
         \/ PutsResource(w) \/ WritesOverride(w) \/ Commits(w)
    \/ ReadsCollection \/ ListsChanges
    \/ SecondPasses

DavSpec == DavInit /\ [][DavNext]_davVars

-----------------------------------------------------------------------------
DavTypeOK ==
    /\ \A u \in Uids : Cardinality(Live(u)) <= 1
    /\ revives => \A u \in Uids : Cardinality(RowsOf(u)) <= 1
    /\ \A i \in DOMAIN rows : rows[i].updated \in 1..second

(* No change is skipped: a client whose last answer was not a full page    *)
(* has what the collection held when that answer was listed, deletions     *)
(* and second lives of a resource included.                                *)
SyncComplete == client.pc = "idle" /\ client.complete => client.copy = shown
=============================================================================
