----------------------------- MODULE Onboarding -----------------------------
(***************************************************************************)
(* The welcome mail of a new tenant and its first certificate, without     *)
(* which the mail's link leads nowhere.  The registration tries to get the *)
(* certificate and leaves early retries behind if that fails; it sends the *)
(* mail or leaves a marker, which the hook for the first certificate turns *)
(* into the mail.  The hourly renewal looks for tenants without one, too.  *)
(***************************************************************************)
EXTENDS Naturals

CONSTANTS
    EarlyRetries,           \* the delayed retries, each with a key of its own
    MaxRenewals,            \* bound: runs of CertRenewalTask
    MaxOnboardingStops      \* bound: restarts

ASSUME OnboardingBounds == MaxRenewals \in Nat

VARIABLES
    acme,            \* an ACME account is configured
    cert,            \* the tenant has a certificate
    registration,    \* where the registration is
    early,           \* where each retry is
    renewal,         \* where CertRenewalTask is
    renewals,        \* its runs so far
    marker,          \* internal.pending_welcome_email
    mailDue,         \* the e-mail task, keyed by the tenant
    mails,           \* e-mail tasks that ended, the mail sent or given up
    onboardingStops, \* restarts so far
    forgone,         \* history: the mail's moment passed without the hook
    doubled          \* history: two hooks have read the marker

onboardingVars == <<acme, cert, registration, early, renewal, renewals, marker, mailDue, mails,
                    onboardingStops, forgone, doubled>>

OnboardingInit ==
    /\ acme \in BOOLEAN /\ cert = FALSE
    /\ registration = "idle"
    /\ early = [r \in EarlyRetries |-> "none"]
    /\ renewal = "idle" /\ renewals = 0
    /\ marker = FALSE /\ mailDue = FALSE /\ mails = 0
    /\ onboardingStops = 0 /\ forgone = FALSE /\ doubled = FALSE

RegistrationTo(pc) == registration' = pc
EarlyTo(r, pc) == early' = [early EXCEPT ![r] = pc]

(* A hook that has read the marker and not yet left the mail.              *)
Flushing == registration = "flush" \/ \E r \in EarlyRetries : early[r] = "flush"

-----------------------------------------------------------------------------
(* The is_first_issuance that each caller of handle_renewal_success passes *)
(* on.  OnlyAtCreation is the faulty variant.                              *)
OnlyAtCreation(caller) == caller = "registration"
FirstIssuance(caller) == caller # "renewal"

AfterIssuing(caller, hook, end) == IF FirstIssuance(caller) THEN hook ELSE end

(* create_complete_tenant: the rows, and acme::init right away.            *)
CreatesTenant ==
    /\ registration = "idle"
    /\ RegistrationTo(IF acme THEN "issue" ELSE "queue")
    /\ UNCHANGED <<acme, cert, early, renewal, renewals, marker, mailDue, mails, onboardingStops,
                   forgone, doubled>>

IssuesAtCreation ==
    /\ registration = "issue"
    /\ cert' = TRUE
    /\ RegistrationTo(AfterIssuing("registration", "hook", "queue"))
    /\ UNCHANGED <<acme, early, renewal, renewals, marker, mailDue, mails, onboardingStops,
                   forgone, doubled>>

IssueFailsAtCreation ==
    /\ registration = "issue"
    /\ RegistrationTo("retries")
    /\ UNCHANGED <<acme, cert, early, renewal, renewals, marker, mailDue, mails, onboardingStops,
                   forgone, doubled>>

SchedulesRetry(r) ==
    /\ registration = "retries" /\ early[r] = "none"
    /\ EarlyTo(r, "due")
    /\ RegistrationTo(IF \A other \in EarlyRetries \ {r} : early[other] # "none"
                        THEN "queue" ELSE "retries")
    /\ UNCHANGED <<acme, cert, renewal, renewals, marker, mailDue, mails, onboardingStops, forgone,
                   doubled>>

(* queue_or_defer_welcome_email: now, or by the marker.                    *)
LooksForCert ==
    /\ registration = "queue"
    /\ RegistrationTo(IF cert THEN "send" ELSE "defer")
    /\ UNCHANGED <<acme, cert, early, renewal, renewals, marker, mailDue, mails, onboardingStops,
                   forgone, doubled>>

SendsNow ==
    /\ registration = "send"
    /\ mailDue' = TRUE /\ RegistrationTo("done")
    /\ UNCHANGED <<acme, cert, early, renewal, renewals, marker, mails, onboardingStops, forgone,
                   doubled>>

(* The certificate may have come since the look.                           *)
Defers ==
    /\ registration = "defer"
    /\ marker' = TRUE /\ forgone' = (forgone \/ cert) /\ RegistrationTo("done")
    /\ UNCHANGED <<acme, cert, early, renewal, renewals, mailDue, mails, onboardingStops, doubled>>

-----------------------------------------------------------------------------
(* AcmeEarlyRetryTask: nothing to do when there is a certificate.  It      *)
(* talks to the ACME server for long, and other retries may come due.      *)
RetryStarts(r) ==
    /\ early[r] = "due"
    /\ EarlyTo(r, IF cert THEN "ended" ELSE "issue")
    /\ UNCHANGED <<acme, cert, registration, renewal, renewals, marker, mailDue, mails,
                   onboardingStops, forgone, doubled>>

RetryIssues(r) ==
    /\ early[r] = "issue"
    /\ cert' = TRUE
    /\ EarlyTo(r, AfterIssuing("retry", "hook", "ended"))
    /\ UNCHANGED <<acme, registration, renewal, renewals, marker, mailDue, mails, onboardingStops,
                   forgone, doubled>>

RetryFails(r) ==
    /\ early[r] = "issue"
    /\ EarlyTo(r, "ended")
    /\ UNCHANGED <<acme, cert, registration, renewal, renewals, marker, mailDue, mails,
                   onboardingStops, forgone, doubled>>

(* CertRenewalTask lists the tenants without one.  It never calls the hook *)
(* and so misses the mail when it is the first to get a certificate.       *)
RenewalStarts ==
    /\ renewal = "idle" /\ acme /\ registration # "idle" /\ ~cert /\ renewals < MaxRenewals
    /\ renewal' = "issue" /\ renewals' = renewals + 1
    /\ UNCHANGED <<acme, cert, registration, early, marker, mailDue, mails, onboardingStops,
                   forgone, doubled>>

RenewalIssues ==
    /\ renewal = "issue"
    /\ cert' = TRUE /\ renewal' = "idle"
    /\ forgone' = (forgone \/ (marker /\ ~cert))
    /\ UNCHANGED <<acme, registration, early, renewals, marker, mailDue, mails, onboardingStops,
                   doubled>>

RenewalFails ==
    /\ renewal = "issue"
    /\ renewal' = "idle"
    /\ UNCHANGED <<acme, cert, registration, early, renewals, marker, mailDue, mails,
                   onboardingStops, forgone, doubled>>

-----------------------------------------------------------------------------
(* flush_deferred_welcome_email, as the registration or a retry calls it:  *)
(* the marker is read, the mail scheduled, the marker cleared.             *)
AfterLook(end) == IF marker THEN "flush" ELSE end

HookAtCreation ==
    /\ registration = "hook"
    /\ RegistrationTo("queue")       \* there is no marker yet
    /\ UNCHANGED <<acme, cert, early, renewal, renewals, marker, mailDue, mails, onboardingStops,
                   forgone, doubled>>

RetryReadsMarker(r) ==
    /\ early[r] = "hook"
    /\ EarlyTo(r, AfterLook("ended"))
    /\ doubled' = (doubled \/ (marker /\ (Flushing \/ mailDue \/ mails > 0)))
    /\ UNCHANGED <<acme, cert, registration, renewal, renewals, marker, mailDue, mails,
                   onboardingStops, forgone>>

(* The task's key keeps a second one away for as long as it is pending.    *)
RetryLeavesMail(r) ==
    /\ early[r] = "flush"
    /\ mailDue' = TRUE /\ EarlyTo(r, "clear")
    /\ UNCHANGED <<acme, cert, registration, renewal, renewals, marker, mails, onboardingStops,
                   forgone, doubled>>

RetryClearsMarker(r) ==
    /\ early[r] = "clear"
    /\ marker' = FALSE /\ EarlyTo(r, "ended")
    /\ UNCHANGED <<acme, cert, registration, renewal, renewals, mailDue, mails, onboardingStops,
                   forgone, doubled>>

(* EmailSenderTask, with its retries.                                      *)
SendsMail ==
    /\ mailDue
    /\ mailDue' = FALSE /\ mails' = mails + 1
    /\ UNCHANGED <<acme, cert, registration, early, renewal, renewals, marker, onboardingStops,
                   forgone, doubled>>

(* A retry that is started again finds the certificate it got before.      *)
OnboardingStop ==
    /\ onboardingStops < MaxOnboardingStops /\ onboardingStops' = onboardingStops + 1
    /\ registration' = IF registration \in {"idle", "done"} THEN registration ELSE "lost"
    /\ early' = [r \in EarlyRetries |->
           IF early[r] \in {"none", "ended"} THEN early[r] ELSE "due"]
    /\ renewal' = "idle"
    /\ forgone' = (forgone \/ (cert /\ marker /\
                   \E r \in EarlyRetries : early[r] \in {"hook", "flush"}))
    /\ UNCHANGED <<acme, cert, renewals, marker, mailDue, mails, doubled>>

OnboardingNext ==
    \/ CreatesTenant \/ IssuesAtCreation \/ IssueFailsAtCreation \/ HookAtCreation
    \/ LooksForCert \/ SendsNow \/ Defers
    \/ \E r \in EarlyRetries :
         \/ SchedulesRetry(r) \/ RetryStarts(r) \/ RetryIssues(r) \/ RetryFails(r)
         \/ RetryReadsMarker(r) \/ RetryLeavesMail(r) \/ RetryClearsMarker(r)
    \/ RenewalStarts \/ RenewalIssues \/ RenewalFails
    \/ SendsMail \/ OnboardingStop

OnboardingSpec == OnboardingInit /\ [][OnboardingNext]_onboardingVars

-----------------------------------------------------------------------------
OnboardingTypeOK ==
    /\ registration \in {"idle", "issue", "retries", "hook", "queue", "send", "defer", "done",
                         "lost"}
    /\ \A r \in EarlyRetries :
         early[r] \in {"none", "due", "issue", "hook", "flush", "clear", "ended"}
    /\ renewals <= MaxRenewals /\ (cert => acme)

(* A registration that came through leaves its mail: with the e-mail task, *)
(* waiting for a certificate, or in the hands of the hook, and to one task *)
(* only, though retries and the renewal race for the certificate.  The     *)
(* exceptions are a first certificate that comes without the hook, or      *)
(* before the marker, or just before a restart; and two hooks at once.     *)
WelcomeCared ==
    /\ registration = "done" /\ ~forgone =>
         \/ mails > 0 \/ mailDue
         \/ marker /\ ~cert
         \/ \E r \in EarlyRetries : early[r] \in {"hook", "flush"}
    /\ ~doubled => mails + (IF mailDue THEN 1 ELSE 0) <= 1
=============================================================================
