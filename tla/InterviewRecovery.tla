------------------------- MODULE InterviewRecovery -------------------------
(***************************************************************************)
(* Starting a video interview and recovering a failed start, for one       *)
(* candidate and one role.  The unit of concurrency in the code is the     *)
(* pair <<candidate, role>>: every claim takes an advisory lock on it, and *)
(* every other transition takes one on the authorization, so each database *)
(* function below is one atomic action.  What is not atomic is the HTTP    *)
(* handler around them: it claims, calls the video vendor, records the     *)
(* result, and can stop at any point in between.                           *)
(*                                                                         *)
(* Attempt 1 is the candidate's original interview and attempt 2 the one   *)
(* replacement an administrator may authorize.  A request is identified    *)
(* with the claim token it draws and with the vendor conversation its      *)
(* create call may produce: a request claims at most once and transmits at *)
(* most one create call.                                                   *)
(*                                                                         *)
(* Left out: a refused claim (it writes nothing and the request may try    *)
(* again), role and client activity (a reason to refuse), the audit log,   *)
(* and the recovery e-mail.                                                *)
(***************************************************************************)
EXTENDS Integers, FiniteSets

CONSTANTS
    Requests,   \* candidate requests to POST /create-tavus-interview
    Recons,     \* administrator runs of the read-only vendor reconciliation
    None        \* the SQL null: no conversation, no token, no record

ASSUME RequestsFinite == IsFiniteSet(Requests)
ASSUME NoneIsNoRequest == None \notin Requests /\ None \notin Recons

Attempts == {1, 2}
MaxStartAttempts == 3     \* start_attempt_count < 3 in the claim and failure paths
MaxScans == 20            \* vendor_reconciliation_attempt_count > 20 is refused

\* interviews.status; "absent" stands for no row
Statuses == {"absent", "authorized", "Starting", "Pending", "ending_requested",
             "Ended", "ReadyForAnalysis", "Incomplete", "Failed", "completed"}
\* the statuses sync_interview_attempt_active_state maps to is_active = true
ActiveStatuses == {"authorized", "Starting", "Pending", "ending_requested"}

StartStatuses == {"not_started", "starting", "started", "failed_retryable",
                  "failed_terminal", "reconciliation_required", "reconciling",
                  "binding_recovery_required", "manual_review"}
VendorStates == {"none", "claimed", "started", "definite_failure",
                 "reconciliation_required", "reconciling",
                 "binding_recovery_required", "manual_review"}

VARIABLES
    status,      \* interviews.status, per attempt
    conv,        \* interviews.tavus_conversation_id, per attempt
    completed,   \* candidates.status says the interview was completed
    auth,        \* interview_reset_events.authorization_status, or "none"
    linked,      \* ... replacement_interview_id is not null
    start,       \* ... start_status
    starts,      \* ... start_attempt_count
    vendorState, \* interviews.vendor_start_state of attempt 2
    claimToken,  \* ... vendor_create_claim_token
    reconToken,  \* ... vendor_reconciliation_claim_token
    scans,       \* ... vendor_reconciliation_attempt_count
    review,      \* ... vendor_manual_review
    bindFlag,    \* ... vendor_binding_recovery_required
    bindRecord,  \* interview_vendor_binding_recovery: its conversation
    pc,          \* where each candidate request stands
    target,      \* the attempt each request claimed
    inflight,    \* create calls transmitted and not yet decided by the vendor
    late,        \* success records given up on by their request, still in transit
    created,     \* conversations that exist at the vendor
    rpc,         \* where each reconciliation run stands
    found        \* the conversation a finished scan matched, if exactly one

rowVars    == <<status, conv>>
authVars   == <<auth, linked, start, starts>>
vendorVars == <<vendorState, claimToken, reconToken, scans, review, bindFlag, bindRecord>>
reqVars    == <<pc, target>>
netVars    == <<inflight, created, late>>
reconVars  == <<rpc, found>>
vars == <<rowVars, completed, authVars, vendorVars, reqVars, netVars, reconVars>>

Active(i) == status[i] \in ActiveStatuses
NoActiveAttempt == \A i \in Attempts : ~Active(i)

NoIndex(i, s) == TRUE

\* A status write that would make attempt i active while the other one is
\* active violates interviews_one_active_attempt_uidx and is rolled back.
MayBecome(i, s) == s \in ActiveStatuses => \A j \in Attempts \ {i} : ~Active(j)

\* completed_interview_retake_blocked, where the prior attempt is attempt 1
RetakeBlocked == completed \/ status[1] = "completed"

----------------------------------------------------------------------------
(* Initial states: nothing yet, or a Phase B authorization that created    *)
(* its replacement row when the administrator approved it.                 *)

FreshInit ==
    /\ status = [i \in Attempts |-> "absent"]
    /\ auth = "none" /\ linked = FALSE

GrandfatheredInit ==
    /\ status = [i \in Attempts |-> IF i = 1 THEN "Failed" ELSE "authorized"]
    /\ auth = "authorized" /\ linked = TRUE

Init ==
    /\ FreshInit \/ GrandfatheredInit
    /\ conv = [i \in Attempts |-> None]
    /\ completed = FALSE
    /\ start = "not_started" /\ starts = 0
    /\ vendorState = "none"
    /\ claimToken = None /\ reconToken = None /\ scans = 0
    /\ review = FALSE /\ bindFlag = FALSE /\ bindRecord = None
    /\ pc = [r \in Requests |-> "idle"]
    /\ target = [r \in Requests |-> 1]
    /\ inflight = {} /\ created = {} /\ late = {}
    /\ rpc = [k \in Recons |-> "idle"]
    /\ found = [k \in Recons |-> None]

----------------------------------------------------------------------------
(* claim_candidate_interview_attempt_core: its four successful outcomes.   *)

\* The request owns attempt i and goes on to call the vendor.
Claimed(r, i) ==
    /\ pc' = [pc EXCEPT ![r] = "claimed"]
    /\ target' = [target EXCEPT ![r] = i]

\* The columns every replacement claim writes on attempt 2.
ReplacementClaimed(r) ==
    /\ Claimed(r, 2)
    /\ status' = [status EXCEPT ![2] = "Starting"]
    /\ vendorState' = "claimed"
    /\ claimToken' = r
    /\ auth' = "consumed" /\ linked' = TRUE
    /\ start' = "starting"

ClaimFirstAttempt(r) ==
    /\ pc[r] = "idle"
    /\ \A i \in Attempts : status[i] = "absent"
    /\ Claimed(r, 1)
    /\ status' = [status EXCEPT ![1] = "Starting"]
    /\ UNCHANGED <<conv, completed, authVars, vendorVars, netVars, reconVars>>

\* The Phase B row is active with status 'authorized'; this branch comes
\* before the completion check of the others.
ClaimGrandfathered(r) ==
    /\ pc[r] = "idle"
    /\ status[2] = "authorized"
    /\ auth = "authorized" /\ linked
    /\ ReplacementClaimed(r)
    /\ starts' = 1
    /\ UNCHANGED <<conv, completed, reconToken, scans, review, bindFlag,
                   bindRecord, netVars, reconVars>>

ClaimReplacement(r) ==
    /\ pc[r] = "idle"
    /\ NoActiveAttempt
    /\ status[1] # "absent" /\ status[2] = "absent"
    /\ ~RetakeBlocked
    /\ auth = "authorized" /\ ~linked /\ start = "not_started"
    /\ ReplacementClaimed(r)
    /\ starts' = 1
    /\ UNCHANGED <<conv, completed, reconToken, scans, review, bindFlag,
                   bindRecord, netVars, reconVars>>

RetryOnceConsumed == auth = "consumed" /\ linked

RetryAllowed ==
    /\ auth = "consumed" /\ linked
    /\ start = "failed_retryable" /\ conv[2] = None

StartNotCounted == starts
NextStart == starts + 1

ClaimRetry(r) ==
    /\ pc[r] = "idle"
    /\ NoActiveAttempt
    /\ ~RetakeBlocked
    /\ RetryAllowed
    /\ starts < MaxStartAttempts
    /\ ReplacementClaimed(r)
    /\ starts' = NextStart
    /\ reconToken' = None
    /\ UNCHANGED <<conv, completed, scans, review, bindFlag, bindRecord,
                   netVars, reconVars>>

----------------------------------------------------------------------------
(* createTavusInterviewHandler and the vendor.                             *)

\* A missing key, or a document that cannot be synced: nothing was sent.
FailBeforeSend(r) ==
    /\ pc[r] = "claimed"
    /\ pc' = [pc EXCEPT ![r] = "definite"]
    /\ UNCHANGED <<rowVars, completed, authVars, vendorVars, target, netVars, reconVars>>

SendCreate(r) ==
    /\ pc[r] = "claimed"
    /\ pc' = [pc EXCEPT ![r] = "sent"]
    /\ inflight' = inflight \cup {r}
    /\ UNCHANGED <<rowVars, completed, authVars, vendorVars, target, created, late, reconVars>>

VendorCreates(r) ==
    /\ r \in inflight
    /\ inflight' = inflight \ {r}
    /\ created' = created \cup {r}
    /\ UNCHANGED <<rowVars, completed, authVars, vendorVars, reqVars, late, reconVars>>

VendorRejects(r) ==
    /\ r \in inflight
    /\ inflight' = inflight \ {r}
    /\ UNCHANGED <<rowVars, completed, authVars, vendorVars, reqVars, created, late, reconVars>>

CreateReturns(r) ==
    /\ pc[r] = "sent" /\ r \in created
    /\ pc' = [pc EXCEPT ![r] = "created"]
    /\ UNCHANGED <<rowVars, completed, authVars, vendorVars, target, netVars, reconVars>>

\* classifyTavusCreateError: any error after transmission, a rejection or a
\* timeout or an incomplete response, is ambiguous.
CreateFails(r) ==
    /\ pc[r] = "sent"
    /\ pc' = [pc EXCEPT ![r] = "ambiguous"]
    /\ UNCHANGED <<rowVars, completed, authVars, vendorVars, target, netVars, reconVars>>

----------------------------------------------------------------------------
(* Recording the result.                                                   *)

Finish(r) == pc' = [pc EXCEPT ![r] = "done"]

\* Attempt 1: one unconditional update of the row, whatever the failure.
FailFirstAttempt(r) ==
    /\ pc[r] \in {"definite", "ambiguous"} /\ target[r] = 1
    /\ status' = [status EXCEPT ![1] = "Failed"]
    /\ Finish(r)
    /\ UNCHANGED <<conv, completed, authVars, vendorVars, target, netVars, reconVars>>

LinkFirstAttempt(r) ==
    /\ pc[r] = "created" /\ target[r] = 1
    /\ MayBecome(1, "Pending")
    /\ status' = [status EXCEPT ![1] = "Pending"]
    /\ conv' = [conv EXCEPT ![1] = r]
    /\ Finish(r)
    /\ UNCHANGED <<completed, authVars, vendorVars, target, netVars, reconVars>>

AllFailuresDefinite(r) == FALSE

Ambiguous(r) == pc[r] = "ambiguous"

FailedStart == IF starts < MaxStartAttempts THEN "failed_retryable" ELSE "failed_terminal"

\* Only the request that holds the claim may record its result.
AwaitsResult(r) == start = "starting" /\ conv[2] = None /\ claimToken = r

\* complete_interview_recovery_start_core with p_success = false.
StartFailed(r) ==
    /\ pc[r] \in {"definite", "ambiguous"} /\ target[r] = 2
    /\ Finish(r)
    /\ IF AwaitsResult(r)
       THEN IF Ambiguous(r)
            THEN /\ status' = [status EXCEPT ![2] = "Starting"]
                 /\ vendorState' = "reconciliation_required"
                 /\ start' = "reconciliation_required"
                 /\ reconToken' = None /\ review' = FALSE
            ELSE /\ status' = [status EXCEPT ![2] = "Failed"]
                 /\ vendorState' = "definite_failure"
                 /\ start' = FailedStart
                 /\ UNCHANGED <<reconToken, review>>
       ELSE UNCHANGED <<status, vendorState, start, reconToken, review>>
    /\ UNCHANGED <<conv, completed, auth, linked, starts, claimToken, scans,
                   bindFlag, bindRecord, target, netVars, reconVars>>

BindKeepsRecoveryFlag(c) ==
    /\ conv' = [conv EXCEPT ![2] = c]
    /\ status' = [status EXCEPT ![2] = "Pending"]
    /\ vendorState' = "started" /\ start' = "started"
    /\ review' = FALSE /\ UNCHANGED bindFlag

\* What binding conversation c to attempt 2 writes, by any of its three paths.
BindReplacement(c) ==
    /\ conv' = [conv EXCEPT ![2] = c]
    /\ status' = [status EXCEPT ![2] = "Pending"]
    /\ vendorState' = "started" /\ start' = "started"
    /\ review' = FALSE /\ bindFlag' = FALSE

\* complete_interview_recovery_start_core with p_success = true.  The commit
\* may be reported, or its response lost: then the handler goes on to record
\* a binding failure.
StartSucceeded(r) ==
    /\ pc[r] = "created" /\ target[r] = 2
    /\ AwaitsResult(r)
    /\ BindReplacement(r)
    /\ \E next \in {"done", "bindfail"} : pc' = [pc EXCEPT ![r] = next]
    /\ UNCHANGED <<completed, auth, linked, starts, claimToken, reconToken,
                   scans, bindRecord, target, netVars, reconVars>>

\* The same call given up on before it committed.  It may still be on its way.
StartRecordLost(r) ==
    /\ pc[r] = "created" /\ target[r] = 2
    /\ pc' = [pc EXCEPT ![r] = "bindfail"]
    /\ late' \in {late, late \cup {r}}
    /\ UNCHANGED <<rowVars, completed, authVars, vendorVars, target, inflight,
                   created, reconVars>>

LateSuccess(r) ==
    /\ r \in late
    /\ late' = late \ {r}
    /\ IF AwaitsResult(r)
       THEN BindReplacement(r)
       ELSE UNCHANGED <<conv, status, vendorState, start, review, bindFlag>>
    /\ UNCHANGED <<completed, auth, linked, starts, claimToken, reconToken, scans,
                   bindRecord, reqVars, inflight, created, reconVars>>

----------------------------------------------------------------------------
(* record_interview_recovery_binding_failure_core, by what it finds.       *)

BindingIdentityHolds(r) ==
    pc[r] = "bindfail" /\ target[r] = 2 /\ linked /\ claimToken = r

\* Already bound: to this conversation (nothing to do) or to another one.
BindingAlreadyDecided(r) ==
    /\ BindingIdentityHolds(r) /\ conv[2] # None
    /\ IF conv[2] = r THEN UNCHANGED <<review, bindFlag>>
                      ELSE review' = TRUE /\ bindFlag' = FALSE
    /\ Finish(r)
    /\ UNCHANGED <<rowVars, completed, authVars, vendorState, claimToken,
                   reconToken, scans, bindRecord, target, netVars, reconVars>>

BindingFailureRecorded(r) ==
    /\ BindingIdentityHolds(r) /\ conv[2] = None
    /\ start \in {"starting", "binding_recovery_required"}
    /\ vendorState \in {"claimed", "binding_recovery_required"}
    /\ Finish(r)
    /\ IF bindRecord \notin {None, r}
       THEN /\ vendorState' = "manual_review" /\ start' = "manual_review"
            /\ review' = TRUE /\ bindFlag' = FALSE
            /\ UNCHANGED <<status, bindRecord>>
       ELSE /\ bindRecord' = r
            /\ status' = [status EXCEPT ![2] = "Starting"]
            /\ vendorState' = "binding_recovery_required"
            /\ start' = "binding_recovery_required"
            /\ bindFlag' = TRUE /\ review' = FALSE
    /\ UNCHANGED <<conv, completed, auth, linked, starts, claimToken, reconToken,
                   scans, target, netVars, reconVars>>

\* The process stops, or the call that would record the outcome never
\* reaches the database (the handler logs that and answers).
Crash(r) ==
    /\ pc[r] \notin {"idle", "done", "stopped"}
    /\ pc' = [pc EXCEPT ![r] = "stopped"]
    /\ UNCHANGED <<rowVars, completed, authVars, vendorVars, target, netVars, reconVars>>

----------------------------------------------------------------------------
(* Support: authorize_interview_replacement_core, the read-only vendor     *)
(* reconciliation and the recovery of a recorded binding.                  *)

\* One authorization per prior attempt, and attempt 2 resolves to the one it
\* came from, so a second authorization of any kind is refused.
Authorize ==
    /\ auth = "none"
    /\ status[1] # "absent"
    /\ NoActiveAttempt
    /\ ~RetakeBlocked
    /\ auth' = "authorized" /\ linked' = FALSE
    /\ start' = "not_started" /\ starts' = 0
    /\ UNCHANGED <<rowVars, completed, vendorVars, reqVars, netVars, reconVars>>

ClaimReconciliation(k) ==
    /\ rpc[k] = "idle"
    /\ start = "reconciliation_required" /\ vendorState = "reconciliation_required"
    /\ conv[2] = None /\ ~review
    /\ scans < MaxScans
    /\ start' = "reconciling" /\ vendorState' = "reconciling"
    /\ reconToken' = k
    /\ scans' = scans + 1
    /\ rpc' = [rpc EXCEPT ![k] = "claimed"]
    /\ UNCHANGED <<rowVars, completed, auth, linked, starts, claimToken, review,
                   bindFlag, bindRecord, reqVars, netVars, found>>

AllListed == created

\* Conversations the vendor lists under attempt 2's deterministic name.
NamedForReplacement == {c \in created : target[c] = 2}

\* A complete scan reports what it read; any other scan is "unavailable".
Scan(k) ==
    /\ rpc[k] = "claimed"
    /\ rpc' = [rpc EXCEPT ![k] = "scanned"]
    /\ \/ \E c \in NamedForReplacement :
            /\ NamedForReplacement = {c}
            /\ found' = [found EXCEPT ![k] = c]
       \/ UNCHANGED found
    /\ UNCHANGED <<rowVars, completed, authVars, vendorVars, reqVars, netVars>>

HoldsClaimToken(k) ==
    /\ start = "reconciling" /\ vendorState = "reconciling"
    /\ claimToken = k /\ conv[2] = None

HoldsReconciliation(k) ==
    /\ start = "reconciling" /\ vendorState = "reconciling"
    /\ reconToken = k /\ conv[2] = None

CompleteReconciliation(k) ==
    /\ rpc[k] = "scanned"
    /\ rpc' = [rpc EXCEPT ![k] = "done"]
    /\ HoldsReconciliation(k)
    /\ reconToken' = None
    /\ IF found[k] # None
       THEN BindReplacement(found[k])
       ELSE /\ status' = [status EXCEPT ![2] = "Starting"]
            /\ vendorState' = "manual_review" /\ start' = "manual_review"
            /\ review' = TRUE
            /\ UNCHANGED <<conv, bindFlag>>
    /\ UNCHANGED <<completed, auth, linked, starts, claimToken, scans, bindRecord,
                   reqVars, netVars, found>>

\* The run stops, or its completion is refused or never arrives.
CrashReconciliation(k) ==
    /\ rpc[k] \in {"claimed", "scanned"}
    /\ rpc' = [rpc EXCEPT ![k] = "stopped"]
    /\ UNCHANGED <<rowVars, completed, authVars, vendorVars, reqVars, netVars, found>>

\* recover_interview_vendor_binding_core
RecoverBinding ==
    /\ linked /\ bindRecord # None /\ bindRecord = claimToken
    /\ IF conv[2] # None
       THEN /\ conv[2] # bindRecord
            /\ review' = TRUE /\ bindFlag' = FALSE
            /\ UNCHANGED <<status, conv, vendorState, start>>
       ELSE /\ vendorState = "binding_recovery_required"
            /\ start = "binding_recovery_required" /\ bindFlag
            /\ BindReplacement(bindRecord)
    /\ UNCHANGED <<completed, auth, linked, starts, claimToken, reconToken, scans,
                   bindRecord, reqVars, netVars, reconVars>>

----------------------------------------------------------------------------
(* What happens to an attempt afterwards.  Vendor events and end requests  *)
(* find the row by its conversation and write its status whatever it is,   *)
(* in any order; interviews are also completed in writing.                 *)

LifecycleEvent(i, s) ==
    /\ conv[i] # None
    /\ s \in {"ending_requested", "Ended", "ReadyForAnalysis", "Incomplete"}
    /\ MayBecome(i, s)
    /\ status' = [status EXCEPT ![i] = s]
    /\ UNCHANGED <<conv, completed, authVars, vendorVars, reqVars, netVars, reconVars>>

\* The text interview inserts a row with the default attempt number 1; the
\* unique index lets it in only when there is no attempt.
InsertTextInterview ==
    /\ status[1] = "absent"
    /\ status' = [status EXCEPT ![1] = "completed"]
    /\ UNCHANGED <<conv, completed, authVars, vendorVars, reqVars, netVars, reconVars>>

\* ... and goes on to mark the candidate even when that insert failed.
MarkTextCompleted ==
    /\ status[1] # "absent" /\ ~completed
    /\ completed' = TRUE
    /\ UNCHANGED <<rowVars, authVars, vendorVars, reqVars, netVars, reconVars>>

----------------------------------------------------------------------------
Claim(r) ==
    ClaimFirstAttempt(r) \/ ClaimGrandfathered(r) \/ ClaimReplacement(r) \/ ClaimRetry(r)

\* The handler's own steps, up to the answer of its vendor call.
Launch(r) ==
    FailBeforeSend(r) \/ SendCreate(r) \/ CreateReturns(r) \/ CreateFails(r)

Record(r) ==
    \/ FailFirstAttempt(r) \/ LinkFirstAttempt(r)
    \/ StartFailed(r) \/ StartSucceeded(r) \/ StartRecordLost(r)
    \/ BindingAlreadyDecided(r) \/ BindingFailureRecorded(r)

Vendor(r) == VendorCreates(r) \/ VendorRejects(r)

Reconcile(k) == Scan(k) \/ CompleteReconciliation(k)

\* What goes wrong: a process stops, or a call arrives after it was given up.
Mishap == (\E r \in Requests : Crash(r) \/ LateSuccess(r)) \/ (\E k \in Recons : CrashReconciliation(k))

Work ==
    \/ \E r \in Requests : Claim(r) \/ Launch(r) \/ Record(r) \/ Vendor(r)
    \/ \E k \in Recons : ClaimReconciliation(k) \/ Reconcile(k)
    \/ Authorize \/ RecoverBinding
    \/ \E i \in Attempts, s \in Statuses : LifecycleEvent(i, s)
    \/ InsertTextInterview \/ MarkTextCompleted

Next == Work \/ Mishap

Spec == Init /\ [][Next]_vars

\* A handler and a reconciliation run that have started finish unless they
\* stop: the vendor client gives up after its timeout, so a sent call always
\* returns or fails.  Nobody has to click anything.
Fairness ==
    /\ \A r \in Requests : WF_vars(Launch(r)) /\ WF_vars(Record(r))
    /\ \A k \in Recons : WF_vars(Reconcile(k))

FairSpec == Spec /\ Fairness

----------------------------------------------------------------------------
(* Properties.                                                             *)

\* Every column, register and message has one of its values.
TypeOK ==
    /\ status \in [Attempts -> Statuses]
    /\ conv \in [Attempts -> Requests \cup {None}]
    /\ completed \in BOOLEAN
    /\ auth \in {"none", "authorized", "consumed"}
    /\ linked \in BOOLEAN
    /\ start \in StartStatuses
    /\ starts \in 0..MaxStartAttempts
    /\ vendorState \in VendorStates
    /\ claimToken \in Requests \cup {None}
    /\ reconToken \in Recons \cup {None}
    /\ scans \in 0..MaxScans
    /\ review \in BOOLEAN /\ bindFlag \in BOOLEAN
    /\ bindRecord \in Requests \cup {None}
    /\ pc \in [Requests -> {"idle", "claimed", "sent", "definite", "ambiguous",
                            "created", "bindfail", "done", "stopped"}]
    /\ target \in [Requests -> Attempts]
    /\ inflight \subseteq Requests /\ created \subseteq Requests
    /\ late \subseteq Requests
    /\ rpc \in [Recons -> {"idle", "claimed", "scanned", "done", "stopped"}]
    /\ found \in [Recons -> Requests \cup {None}]

\* A candidate has at most one active attempt per role, although vendor
\* events for the first attempt go on arriving while the second one starts.
OneActiveAttempt == ~(Active(1) /\ Active(2))

ForReplacement(c) == target[c] = 2

\* The vendor never holds two conversations for the replacement: neither a
\* retry, nor a scan, nor a binding recovery creates a second one.
OneReplacementConversation ==
    \A c, d \in created : ForReplacement(c) /\ ForReplacement(d) => c = d

\* A start recorded as failed, which a candidate may retry, is one the vendor
\* has not accepted and cannot accept any more.
FailedMeansNothingAccepted ==
    start \in {"failed_retryable", "failed_terminal"} =>
        \A c \in created \cup inflight : ~ForReplacement(c)

\* An attempt is bound to a conversation that exists and that was created
\* for that very attempt.
BoundIsOwn ==
    \A i \in Attempts : conv[i] # None => conv[i] \in created /\ target[conv[i]] = i

\* interviews.vendor_start_state for each interview_reset_events.start_status
VendorStateOf ==
    [s \in StartStatuses |->
        CASE s = "not_started" -> "none"
          [] s = "starting" -> "claimed"
          [] s \in {"failed_retryable", "failed_terminal"} -> "definite_failure"
          [] OTHER -> s]

\* The two tables tell one story: the authorization's start status, and the
\* replacement row's vendor state, conversation, token, review and recovery
\* flags, which different functions update in different transactions.
StartCoupling ==
    /\ vendorState = VendorStateOf[start]
    /\ (start = "started") <=> (conv[2] # None)
    /\ (start = "reconciling") <=> (reconToken # None)
    /\ (start = "manual_review") <=> review
    /\ (start = "binding_recovery_required") <=> bindFlag

\* The start counter, which ends the retries at three, is the number of
\* requests that were ever allowed to call the vendor for the replacement.
StartsCountClaims ==
    /\ starts = Cardinality({r \in Requests : pc[r] # "idle" /\ ForReplacement(r)})
    /\ starts <= 3

\* Once started, under review or exhausted, a replacement stays so: no late
\* request, record or reconciliation moves it, and its conversation is kept.
Settled == start \in {"started", "manual_review", "failed_terminal"}
SettledIsFinal == [][Settled => start' = start /\ conv'[2] = conv[2]]_vars

\* A claimed start is decided, unless the request that claimed it stopped:
\* it is started, failed, or handed to support.
StartSettles ==
    start = "starting" ~>
        start # "starting" \/ (claimToken # None /\ pc[claimToken] = "stopped")

\* A claimed reconciliation ends in a started interview or in manual review,
\* unless its run stopped.
ReconciliationSettles ==
    start = "reconciling" ~>
        \/ start \in {"started", "manual_review"}
        \/ reconToken # None /\ rpc[reconToken] = "stopped"

\* Nobody is left waiting for a claim: of a start, or of a reconciliation,
\* which then also ends a start whose own request could not tell.
ClaimsSettle == StartSettles /\ ReconciliationSettles
=============================================================================
