------------------------------ MODULE CrdtLog -------------------------------
(***************************************************************************)
(* The stored updates of one document, as crdt-adapter-redb keeps them: a   *)
(* table from sequence numbers to updates, and the counter of the cached   *)
(* DocumentInstance that hands the numbers out.  An update is the set of   *)
(* edits it carries; applying one is set union, whatever the order.        *)
(*                                                                         *)
(* log is the set of the table's <<seq, update>> pairs.                    *)
(***************************************************************************)
EXTENDS Integers, FiniteSets

NoCounter == -1      \* no DocumentInstance is cached for the document

Seqs(log) == {row[1] : row \in log}

(* What a fresh Y.Doc holds after all stored updates are applied to it.    *)
Contents(log) == UNION {row[2] : row \in log}

(* Faulty variant: the highest stored number itself.                       *)
LastSeq(log) ==
    IF log = {} THEN 0 ELSE CHOOSE s \in Seqs(log) : \A t \in Seqs(log) : s >= t

(* get_or_create_instance when no instance is cached: one past the highest *)
(* stored number.                                                          *)
NextSeq(log) ==
    IF log = {} THEN 0
    ELSE 1 + CHOOSE s \in Seqs(log) : \A t \in Seqs(log) : s >= t

(* An insert at a number in use overwrites that row.                       *)
Put(log, seq, update) == {row \in log : row[1] # seq} \cup {<<seq, update>>}

(* compact_updates, one transaction: the listed rows go, the merged update *)
(* comes.                                                                  *)
Compact(log, seqs, seq, update) ==
    Put({row \in log : row[1] \notin seqs}, seq, update)
=============================================================================
