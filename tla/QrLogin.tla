------------------------------- MODULE QrLogin -------------------------------
(***************************************************************************)
(* QR-code login: one session in the in-memory store, which a browser      *)
(* polls and which signed-in phones approve or deny.  No lock is held over *)
(* an await: every handler looks the session up, lets go, and looks it up  *)
(* again.  The session expires, and a sweep may remove it then.            *)
(***************************************************************************)
EXTENDS FiniteSets

CONSTANTS
    Phones,          \* requests that respond to the session
    Polls            \* long-polls for its status, concurrent or in turn

VARIABLES
    session,         \* QrLoginStore.sessions[session_id]
    phoneAt,         \* the responses
    pollAt,          \* the polls
    deniedBefore     \* history: the polls that came after a denial was confirmed

qrVars == <<session, phoneAt, pollAt, deniedBefore>>

NoSession == [there |-> FALSE, expired |-> FALSE, status |-> "pending", login |-> FALSE]

(* create_session                                                          *)
QrInit ==
    /\ session = [NoSession EXCEPT !.there = TRUE]
    /\ phoneAt = [p \in Phones |-> "idle"]
    /\ pollAt = [q \in Polls |-> "idle"]
    /\ deniedBefore = {}

PhoneTo(p, pc) == phoneAt' = [phoneAt EXCEPT ![p] = pc]
PollTo(q, pc) == pollAt' = [pollAt EXCEPT ![q] = pc]
Usable == session.there /\ ~session.expired

-----------------------------------------------------------------------------
(* post_respond: first look at the session, under a short lock.            *)
Responds(p, verdict) ==
    /\ phoneAt[p] = "idle"
    /\ PhoneTo(p, IF Usable /\ session.status = "pending" THEN verdict ELSE "error")
    /\ UNCHANGED <<session, pollAt, deniedBefore>>

(* An approval creates the login before it looks at the session again:     *)
(* meanwhile another phone may have responded.                             *)
(* StillThere is the faulty variant.                                       *)
StillThere == session.there
StillPending == session.there /\ session.status = "pending"

LoginFails(p) ==
    /\ phoneAt[p] = "approve"
    /\ PhoneTo(p, "error")
    /\ UNCHANGED <<session, pollAt, deniedBefore>>

Approves(p) ==
    /\ phoneAt[p] = "approve"
    /\ IF StillPending
       THEN /\ session' = [session EXCEPT !.status = "approved", !.login = TRUE]
            /\ PhoneTo(p, "notify")
       ELSE PhoneTo(p, "error") /\ UNCHANGED session
    /\ UNCHANGED <<pollAt, deniedBefore>>

(* A denial does not look whether the session is still pending.            *)
Denies(p) ==
    /\ phoneAt[p] = "deny"
    /\ IF session.there
       THEN session' = [session EXCEPT !.status = "denied"] /\ PhoneTo(p, "notify denied")
       ELSE PhoneTo(p, "error") /\ UNCHANGED session
    /\ UNCHANGED <<pollAt, deniedBefore>>

(* notify_waiters wakes the polls that wait now, then the phone is told.   *)
Notifies(p) ==
    /\ phoneAt[p] \in {"notify", "notify denied"}
    /\ PhoneTo(p, IF phoneAt[p] = "notify" THEN "approved" ELSE "denied")
    /\ pollAt' = [q \in Polls |-> IF pollAt[q] = "wait" THEN "woken" ELSE pollAt[q]]
    /\ UNCHANGED <<session, deniedBefore>>

-----------------------------------------------------------------------------
(* get_status: a poll whose secret is not that of a session ends.          *)
BeginsPoll(q) ==
    /\ pollAt[q] = "idle"
    /\ PollTo(q, IF session.there THEN "first" ELSE "not found")
    /\ deniedBefore' = deniedBefore
         \cup (IF \E p \in Phones : phoneAt[p] = "denied" THEN {q} ELSE {})
    /\ UNCHANGED <<session, phoneAt>>

(* try_resolve_status: what it found it removes in a step of its own, an   *)
(* expired session only if it still is.                                    *)
Resolved(pending) ==
    IF ~Usable THEN (IF session.there THEN "drop expired" ELSE "expired")
    ELSE CASE session.status = "approved" ->
                (IF session.login THEN "drop login" ELSE "drop approved")
           [] session.status = "denied" -> "drop denied"
           [] OTHER -> pending

LooksFirst(q) ==
    /\ pollAt[q] = "first"
    /\ PollTo(q, Resolved("pending"))
    /\ UNCHANGED <<session, phoneAt, deniedBefore>>

(* A wake-up between the look and the wait is lost: the timeout ends it.   *)
Waits(q) ==
    /\ pollAt[q] = "pending"
    /\ PollTo(q, "wait")
    /\ UNCHANGED <<session, phoneAt, deniedBefore>>

LooksAgain(q) ==
    /\ pollAt[q] \in {"wait", "woken"}
    /\ PollTo(q, Resolved("still pending"))
    /\ UNCHANGED <<session, phoneAt, deniedBefore>>

Drops(q) ==
    /\ pollAt[q] \in {"drop expired", "drop login", "drop approved", "drop denied"}
    /\ session' = IF pollAt[q] # "drop expired" \/ session.expired
                  THEN [session EXCEPT !.there = FALSE] ELSE session
    /\ PollTo(q, CASE pollAt[q] = "drop expired" -> "expired"
                   [] pollAt[q] = "drop login" -> "login"
                   [] pollAt[q] = "drop approved" -> "approved"
                   [] pollAt[q] = "drop denied" -> "denied")
    /\ UNCHANGED <<phoneAt, deniedBefore>>

(* The five minutes end; at the next login or sweep the session goes.      *)
SessionExpires ==
    /\ session.there /\ ~session.expired
    /\ session' = [session EXCEPT !.expired = TRUE]
    /\ UNCHANGED <<phoneAt, pollAt, deniedBefore>>

CleanupExpired ==
    /\ session.there /\ session.expired
    /\ session' = [session EXCEPT !.there = FALSE]
    /\ UNCHANGED <<phoneAt, pollAt, deniedBefore>>

-----------------------------------------------------------------------------
QrNext ==
    \/ \E p \in Phones :
         \/ \E verdict \in {"approve", "deny"} : Responds(p, verdict)
         \/ LoginFails(p) \/ Approves(p) \/ Denies(p) \/ Notifies(p)
    \/ \E q \in Polls :
         BeginsPoll(q) \/ LooksFirst(q) \/ Waits(q) \/ LooksAgain(q) \/ Drops(q)
    \/ SessionExpires \/ CleanupExpired

QrSpec == QrInit /\ [][QrNext]_qrVars

-----------------------------------------------------------------------------
QrTypeOK ==
    /\ session.status \in {"pending", "approved", "denied"}
    /\ (session.status = "approved") => session.login
    /\ deniedBefore \subseteq Polls

(* A denial stands: no poll that begins after a phone was told that it     *)
(* denied the login hands it out, whatever another phone approved before   *)
(* or meanwhile; and a poll that says "approved" has the login with it.    *)
DenialStands ==
    \A q \in Polls :
      /\ q \in deniedBefore => pollAt[q] # "login"
      /\ pollAt[q] # "approved"
=============================================================================
