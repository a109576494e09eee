-------------------------- MODULE TokenVerification --------------------------
(* Verification of inbound action tokens against the keys of their issuer: *)
(* the cache of failed fetches, the key cache in the database, the fetch   *)
(* of the issuer's profile, and the penalties for a bad signature.  The    *)
(* verifier tasks run side by side, one for each token; a step ends where  *)
(* the code awaits.                                                        *)
EXTENDS Integers

CONSTANTS
    KeyIds,          \* names of keys, of one issuer
    FirstKey,        \* the one the issuer has from the start
    Mail,            \* the tokens that arrive
    Forged,          \* those the issuer has not signed
    MaxRotations,    \* bound: keys the issuer replaces or adds
    MaxOutages       \* bound: fetches that fail

ASSUME MailAssumption == FirstKey \in KeyIds /\ Forged \subseteq Mail
ASSUME VerificationBounds == MaxRotations \in Nat /\ MaxOutages \in Nat

VARIABLES
    published,       \* the issuer's keys: the bytes under each name, 0 for none
    keyCached,       \* key_cache: bytes, and whether they have not expired
    fetchFailure,    \* KeyFetchCache: a failure "kept", "expired", or "none"
    mailOf,          \* each token: its key, the bytes it is signed with
    verifying,       \* the verifier task of each token
    penalized,       \* the tokens that cost their sender a penalty
    outages          \* fetches that failed

verifyVars == <<published, keyCached, fetchFailure, mailOf, verifying, penalized, outages>>

NoKey == 0
Unreachable == -1
TurnedAway == -2
AtRest == [pc |-> "away", stale |-> NoKey, answer |-> NoKey]

VerificationInit ==
    /\ published = [k \in KeyIds |-> IF k = FirstKey THEN 1 ELSE NoKey]
    /\ keyCached = [k \in KeyIds |-> [bytes |-> NoKey, valid |-> FALSE]]
    /\ fetchFailure = [k \in KeyIds |-> "none"]
    /\ mailOf = [t \in Mail |-> [key |-> FirstKey, bytes |-> NoKey]]
    /\ verifying = [t \in Mail |-> AtRest]
    /\ penalized = {}
    /\ outages = 0

(* The issuer replaces a key, or publishes one more.                       *)
RotatesKey(k) ==
    /\ published[k] < MaxRotations
    /\ published' = [published EXCEPT ![k] = @ + 1]
    /\ UNCHANGED <<keyCached, fetchFailure, mailOf, verifying, penalized, outages>>

(* A token arrives; a forged one may name a key there is not.              *)
Arrives(t, k) ==
    /\ verifying[t].pc = "away"
    /\ t \in Forged \/ published[k] # NoKey
    /\ mailOf' = [mailOf EXCEPT ![t] =
         [key |-> k, bytes |-> IF t \in Forged THEN NoKey ELSE published[k]]]
    /\ verifying' = [verifying EXCEPT ![t].pc = "check"]
    /\ UNCHANGED <<published, keyCached, fetchFailure, penalized, outages>>

(* Faulty variant: whatever failed once is not tried again.                *)
BlocksForGood(failure) == failure # "none"

(* check_failure                                                           *)
Blocks(failure) == failure = "kept"

(* With a recent failure the verification is refused as unavailable, and   *)
(* the task is retried from here.                                          *)
ChecksFailure(t) ==
    LET k == mailOf[t].key
    IN  /\ verifying[t].pc = "check" /\ ~Blocks(fetchFailure[k])
        /\ fetchFailure' = [fetchFailure EXCEPT ![k] = "none"]
        /\ verifying' = [verifying EXCEPT ![t].pc = "look"]
        /\ UNCHANGED <<published, keyCached, mailOf, penalized, outages>>

Proceeds(t, pc) == verifying' = [verifying EXCEPT ![t].pc = pc]

(* try_cached_key_verify: the cached key decides when it verifies; when it *)
(* does not it may be stale, and the token is not to blame yet.            *)
TriesCachedKey(t) ==
    LET cached == keyCached[mailOf[t].key]
    IN  /\ verifying[t].pc = "look"
        /\ verifying' = [verifying EXCEPT ![t] =
             IF cached.valid /\ cached.bytes = mailOf[t].bytes
               THEN [AtRest EXCEPT !.pc = "accepted"]
               ELSE [@ EXCEPT !.pc = "fetch",
                              !.stale = IF cached.valid THEN cached.bytes ELSE NoKey]]
        /\ UNCHANGED <<published, keyCached, fetchFailure, mailOf, penalized, outages>>

(* A fetch that fails is one to try again (no connection, a timeout, any   *)
(* other status), or one the issuer has answered for good: 401, 403, 410,  *)
(* or a body that cannot be read.                                          *)
FetchesProfile(t) ==
    /\ verifying[t].pc = "fetch"
    /\ \E a \in {published[mailOf[t].key], Unreachable, TurnedAway} :
         /\ verifying' = [verifying EXCEPT ![t].pc = "answered", ![t].answer = a]
         /\ \/ a = published[mailOf[t].key] /\ UNCHANGED outages
            \/ /\ a \in {Unreachable, TurnedAway}
               /\ outages < MaxOutages /\ outages' = outages + 1
    /\ UNCHANGED <<published, keyCached, fetchFailure, mailOf, penalized>>

(* Faulty variant: any key that was fetched after a bad signature counts   *)
(* as the one that was cached.                                             *)
RefetchedAny(stale, bytes) == stale # NoKey

(* The refetched key is the one that has just failed.                      *)
RefetchedSame(stale, bytes) == stale = bytes

Refused == [AtRest EXCEPT !.pc = "refused"]

(* is_retryable: the task of a token that was turned away, or whose key is *)
(* not in the profile, fails for good.                                     *)
AfterFailure(answer) ==
    IF answer = Unreachable THEN [AtRest EXCEPT !.pc = "check"]
    ELSE [Refused EXCEPT !.answer = answer]

(* A failed fetch, or a profile without the key, is remembered, whichever  *)
(* it was.  A key that is the stale one condemns the token, any other is   *)
(* cached.                                                                 *)
TakesAnswer(t) ==
    LET k == mailOf[t].key
        bytes == verifying[t].answer
    IN  /\ verifying[t].pc = "answered"
        /\ IF bytes \in {NoKey, Unreachable, TurnedAway}
             THEN /\ fetchFailure' = [fetchFailure EXCEPT ![k] = "kept"]
                  /\ verifying' = [verifying EXCEPT ![t] = AfterFailure(bytes)]
                  /\ UNCHANGED <<keyCached, penalized>>
             ELSE IF RefetchedSame(verifying[t].stale, bytes)
             THEN /\ penalized' = penalized \cup {t}
                  /\ verifying' = [verifying EXCEPT ![t] = Refused]
                  /\ UNCHANGED <<keyCached, fetchFailure>>
             ELSE /\ keyCached' = [keyCached EXCEPT ![k] = [bytes |-> bytes, valid |-> TRUE]]
                  /\ Proceeds(t, "judge")
                  /\ UNCHANGED <<fetchFailure, penalized>>
        /\ UNCHANGED <<published, mailOf, outages>>

VerifiesFresh(t) ==
    LET genuine == verifying[t].answer = mailOf[t].bytes
    IN  /\ verifying[t].pc = "judge"
        /\ fetchFailure' = [fetchFailure EXCEPT ![mailOf[t].key] = "none"]
        /\ verifying' = [verifying EXCEPT ![t] =
             IF genuine THEN [AtRest EXCEPT !.pc = "accepted"] ELSE Refused]
        /\ penalized' = IF genuine THEN penalized ELSE penalized \cup {t}
        /\ UNCHANGED <<published, keyCached, mailOf, outages>>

(* The clock: an hour, or five minutes, for a failure; the date its owner  *)
(* set for a key.                                                          *)
FailureExpires(k) ==
    /\ fetchFailure[k] = "kept"
    /\ fetchFailure' = [fetchFailure EXCEPT ![k] = "expired"]
    /\ UNCHANGED <<published, keyCached, mailOf, verifying, penalized, outages>>

KeyExpires(k) ==
    /\ keyCached[k].valid
    /\ keyCached' = [keyCached EXCEPT ![k].valid = FALSE]
    /\ UNCHANGED <<published, fetchFailure, mailOf, verifying, penalized, outages>>

VerifierSteps(t) ==
    ChecksFailure(t) \/ TriesCachedKey(t) \/ FetchesProfile(t) \/ TakesAnswer(t)
    \/ VerifiesFresh(t)

VerificationNext ==
    \/ \E k \in KeyIds : RotatesKey(k) \/ FailureExpires(k) \/ KeyExpires(k)
    \/ \E t \in Mail : VerifierSteps(t) \/ \E k \in KeyIds : Arrives(t, k)

(* The scheduler retries the task, and time passes.  That ten attempts do  *)
(* is assumed: they outlast the longest wait several times.                *)
VerificationFairness ==
    /\ \A t \in Mail : WF_verifyVars(VerifierSteps(t))
    /\ \A k \in KeyIds : WF_verifyVars(FailureExpires(k))

VerificationSpec ==
    VerificationInit /\ [][VerificationNext]_verifyVars /\ VerificationFairness

-----------------------------------------------------------------------------
(* Nobody is penalized for a stale entry of our key cache: a token that    *)
(* cost its sender a penalty is not signed with the key its issuer has     *)
(* published.                                                              *)
PenaltyDeserved == \A t \in penalized : mailOf[t].bytes # published[mailOf[t].key]

(* A genuine token is accepted in the end, unless its key is rotated       *)
(* meanwhile or its own fetch got an answer that is not to be tried again: *)
(* neither an outage, nor such an answer to another token, nor a forged    *)
(* token that named its key before there was one keeps it out for good.    *)
GenuineAccepted ==
    \A t \in Mail \ Forged :
      verifying[t].pc = "check"
        ~> \/ verifying[t].pc = "accepted"
           \/ mailOf[t].bytes # published[mailOf[t].key]
           \/ verifying[t] = AfterFailure(TurnedAway)
=============================================================================
