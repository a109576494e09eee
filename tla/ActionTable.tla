----------------------------- MODULE ActionTable -----------------------------
(***************************************************************************)
(* The actions table of the meta adapter (action.rs), as operators on a    *)
(* sequence of rows: the index is a_id, tok stands for action_id, the hash *)
(* of the signed token, and key for the key column.  An action made here   *)
(* has no action_id until it is finalized; one that was received has it    *)
(* from the start.                                                         *)
(***************************************************************************)
EXTENDS Integers, Sequences

NoToken == <<>>

Sealed(row) == row.tok # NoToken

(* Faulty variant: the statement without its condition on the key.         *)
SupersedeAll(rows, key, kept) ==
    [i \in DOMAIN rows |->
       IF i # kept THEN [rows[i] EXCEPT !.st = "D"] ELSE rows[i]]

(* The statement both key rules end in: whatever else has the key is 'D'.  *)
Supersede(rows, key, kept) ==
    [i \in DOMAIN rows |->
       IF rows[i].key = key /\ i # kept THEN [rows[i] EXCEPT !.st = "D"]
       ELSE rows[i]]

CreatePending(rows, row) == Append(rows, row)

Find(rows, tok) == {i \in DOMAIN rows : rows[i].tok = tok}

(* create with an action_id: nothing when it is known already.  Its look,  *)
(* the supersession and the insertion are statements of their own, taken   *)
(* as one: what comes between them tells apart only the received rows of   *)
(* one key, which no property is about.                                    *)
CreateInbound(rows, row) ==
    IF Find(rows, row.tok) # {} THEN rows
    ELSE Append(Supersede(rows, row.key, 0), row)

Finalizable(rows, i) == rows[i].tok = NoToken /\ rows[i].st = "P"

(* Faulty variant: finalize leaves the older rows of the key alone.        *)
FinalizeBeside(rows, i, tok) ==
    [rows EXCEPT ![i].tok = tok, ![i].st = "A"]

Finalize(rows, i, tok) ==
    Supersede([rows EXCEPT ![i].tok = tok, ![i].st = "A"], rows[i].key, i)

(* get_action_by_key: the newest row that is not 'D'.  A pending one has   *)
(* no action_id to read, which is an error, and callers take it as none.   *)
ByKey(rows, key) ==
    LET live == {i \in DOMAIN rows : rows[i].key = key /\ rows[i].st # "D"}
    IN  {i \in live : Sealed(rows[i]) /\ \A j \in live : j <= i}

SetStatus(rows, tok, st) ==
    [i \in DOMAIN rows |->
       IF rows[i].tok = tok THEN [rows[i] EXCEPT !.st = st] ELSE rows[i]]
=============================================================================
