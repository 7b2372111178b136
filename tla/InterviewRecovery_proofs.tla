----------------------- MODULE InterviewRecovery_proofs -----------------------
(***************************************************************************)
(* Proofs about InterviewRecovery, for any finite set of requests and any  *)
(* set of reconciliation runs.  The argument rests on one fact about the   *)
(* claim token: a replacement request that is still working, or that has   *)
(* transmitted a create call, is the one whose token the row carries.      *)
(***************************************************************************)
EXTENDS InterviewRecovery, FiniteSetTheorems, TLAPS

----------------------------------------------------------------------------
(* The inductive invariant.                                                *)

Transmitted == inflight \cup created

\* What a request's program counter says about its create call.
CallsInv ==
    /\ \A r \in Requests : pc[r] = "idle" => target[r] = 1
    /\ \A r \in Requests : pc[r] \in {"idle", "claimed", "definite"} => r \notin Transmitted
    /\ \A r \in Requests : pc[r] \in {"created", "bindfail"} => r \in created
    /\ late \subseteq created

\* The holder of the claim token, and what is not yet decided about others.
HolderInv ==
    /\ claimToken # None => claimToken \in Requests /\ target[claimToken] = 2
    /\ \A r \in Requests :
          target[r] = 2 /\ (pc[r] # "done" \/ r \in Transmitted) => claimToken = r
    /\ start \in {"not_started", "failed_retryable", "failed_terminal"} =>
          \A r \in Requests : target[r] = 2 => pc[r] = "done" /\ r \notin Transmitted

\* Every conversation written down anywhere is one of the right attempt.
RecordsInv ==
    /\ BoundIsOwn
    /\ \A k \in Recons : found[k] # None => found[k] \in created /\ target[found[k]] = 2
    /\ bindRecord # None => bindRecord \in created /\ target[bindRecord] = 2

\* The authorization, and the status of a replacement that is being started.
StartInv ==
    /\ (auth = "consumed") <=> (start # "not_started")
    /\ start \in {"starting", "reconciliation_required", "reconciling",
                  "binding_recovery_required", "manual_review"} => status[2] = "Starting"

IInv ==
    /\ TypeOK
    /\ CallsInv /\ HolderInv /\ RecordsInv /\ StartInv
    /\ StartCoupling /\ OneActiveAttempt

----------------------------------------------------------------------------
(* The steps, one lemma per part of the invariant.                         *)

\* Every step keeps the types.
LEMMA TypeStep == TypeOK /\ [Next]_vars => TypeOK'
<1> SUFFICES ASSUME TypeOK, [Next]_vars PROVE TypeOK'
  OBVIOUS
<1> USE NoneIsNoRequest DEF TypeOK, Statuses, StartStatuses, VendorStates,
   MaxStartAttempts, MaxScans, rowVars, authVars, vendorVars, reqVars, netVars,
   reconVars, Attempts
<1>1. ASSUME NEW r \in Requests, Claim(r) PROVE TypeOK'    \* a candidate's claim
  <2>1. CASE ClaimFirstAttempt(r)
    BY <2>1 DEF ClaimFirstAttempt, Claimed
  <2>2. CASE ClaimGrandfathered(r)
    BY <2>2 DEF ClaimGrandfathered, ReplacementClaimed, Claimed
  <2>3. CASE ClaimReplacement(r)
    BY <2>3 DEF ClaimReplacement, ReplacementClaimed, Claimed
  <2>4. CASE ClaimRetry(r)
    BY <2>4 DEF ClaimRetry, ReplacementClaimed, Claimed, RetryAllowed,
       NextStart
  <2> QED BY <1>1, <2>1, <2>2, <2>3, <2>4 DEF Claim
<1>2. ASSUME NEW r \in Requests, Launch(r) \/ Vendor(r) PROVE TypeOK'    \* the vendor call
  <2>1. CASE FailBeforeSend(r)
    BY <2>1 DEF FailBeforeSend
  <2>2. CASE SendCreate(r)
    BY <2>2 DEF SendCreate
  <2>3. CASE CreateReturns(r)
    BY <2>3 DEF CreateReturns
  <2>4. CASE CreateFails(r)
    BY <2>4 DEF CreateFails
  <2>5. CASE VendorCreates(r)
    BY <2>5 DEF VendorCreates
  <2>6. CASE VendorRejects(r)
    BY <2>6 DEF VendorRejects
  <2> QED BY <1>2, <2>1, <2>2, <2>3, <2>4, <2>5, <2>6 DEF Launch, Vendor
<1>3. ASSUME NEW r \in Requests, Record(r) PROVE TypeOK'    \* the record of its result
  <2>1. CASE FailFirstAttempt(r)
    BY <2>1 DEF FailFirstAttempt, Finish
  <2>2. CASE LinkFirstAttempt(r)
    BY <2>2 DEF LinkFirstAttempt, Finish, MayBecome
  <2>3. CASE StartFailed(r)
    <3>1. CASE AwaitsResult(r) /\ Ambiguous(r)
      BY <2>3, <3>1 DEF StartFailed, Finish
    <3>2. CASE AwaitsResult(r) /\ ~Ambiguous(r)
      BY <2>3, <3>2 DEF StartFailed, Finish, FailedStart
    <3>3. CASE ~AwaitsResult(r)
      BY <2>3, <3>3 DEF StartFailed, Finish
    <3> QED BY <3>1, <3>2, <3>3
  <2>4. CASE StartSucceeded(r)
    <3>1. review' \in BOOLEAN /\ bindFlag' \in BOOLEAN
      BY <2>4, Zenon DEF StartSucceeded, BindReplacement
    <3> QED BY <2>4, <3>1 DEF StartSucceeded, AwaitsResult, BindReplacement
  <2>5. CASE StartRecordLost(r)
    BY <2>5 DEF StartRecordLost
  <2>6. CASE BindingAlreadyDecided(r)
    <3>1. review' \in BOOLEAN /\ bindFlag' \in BOOLEAN
      BY <2>6, Zenon DEF BindingAlreadyDecided
    <3> QED BY <2>6, <3>1 DEF BindingAlreadyDecided, BindingIdentityHolds,
       Finish
  <2>7. CASE BindingFailureRecorded(r)
    <3>1. review' \in BOOLEAN /\ bindFlag' \in BOOLEAN
      BY <2>7, Zenon DEF BindingFailureRecorded
    <3> QED BY <2>7, <3>1 DEF BindingFailureRecorded, BindingIdentityHolds,
       Finish
  <2> QED BY <1>3, <2>1, <2>2, <2>3, <2>4, <2>5, <2>6, <2>7 DEF Record
<1>4. ASSUME NEW r \in Requests, Crash(r) \/ LateSuccess(r) PROVE TypeOK'    \* a stop, or a late record
  <2>1. CASE Crash(r)
    BY <2>1 DEF Crash, Finish
  <2>2. CASE LateSuccess(r)
    <3>1. review' \in BOOLEAN /\ bindFlag' \in BOOLEAN
      BY <2>2, Zenon DEF LateSuccess, BindReplacement
    <3> QED BY <2>2, <3>1 DEF LateSuccess, AwaitsResult, BindReplacement
  <2> QED BY <1>4, <2>1, <2>2
<1>5. ASSUME NEW k \in Recons, ClaimReconciliation(k) \/ Reconcile(k) \/ CrashReconciliation(k) PROVE TypeOK'    \* a reconciliation run
  <2>1. CASE ClaimReconciliation(k)
    BY <2>1 DEF ClaimReconciliation
  <2>2. CASE Scan(k)
    BY <2>2 DEF Scan, NamedForReplacement
  <2>3. CASE CompleteReconciliation(k)
    <3>1. review' \in BOOLEAN /\ bindFlag' \in BOOLEAN
      BY <2>3, Zenon DEF CompleteReconciliation, BindReplacement
    <3> QED BY <2>3, <3>1 DEF CompleteReconciliation, HoldsReconciliation,
       BindReplacement
  <2>4. CASE CrashReconciliation(k)
    BY <2>4 DEF CrashReconciliation
  <2> QED BY <1>5, <2>1, <2>2, <2>3, <2>4 DEF Reconcile
<1>6. ASSUME Authorize \/ RecoverBinding PROVE TypeOK'    \* support
  <2>1. CASE Authorize
    <3>1. linked' \in BOOLEAN
      BY <2>1, Zenon DEF Authorize
    <3> QED BY <2>1, <3>1 DEF Authorize
  <2>2. CASE RecoverBinding
    <3>1. review' \in BOOLEAN /\ bindFlag' \in BOOLEAN
      BY <2>2, Zenon DEF RecoverBinding, BindReplacement
    <3> QED BY <2>2, <3>1 DEF RecoverBinding, BindReplacement
  <2> QED BY <1>6, <2>1, <2>2
<1>7. ASSUME NEW i \in Attempts, NEW s \in Statuses, LifecycleEvent(i, s) PROVE TypeOK'    \* what happens to an attempt afterwards
  BY <1>7 DEF LifecycleEvent, MayBecome
<1>8. ASSUME InsertTextInterview \/ MarkTextCompleted PROVE TypeOK'    \* a text interview
  <2>1. CASE InsertTextInterview
    BY <2>1 DEF InsertTextInterview
  <2>2. CASE MarkTextCompleted
    BY <2>2 DEF MarkTextCompleted
  <2> QED BY <1>8, <2>1, <2>2
<1>9. CASE UNCHANGED vars
  BY <1>9 DEF vars
<1> QED BY <1>1, <1>2, <1>3, <1>4, <1>5, <1>6, <1>7, <1>8, <1>9 DEF Next,
   Work, Mishap, Reconcile

\* Every step keeps what a program counter says about its create call.
LEMMA CallsStep == IInv /\ [Next]_vars => CallsInv'
<1> SUFFICES ASSUME IInv, [Next]_vars PROVE CallsInv'
  OBVIOUS
<1> USE NoneIsNoRequest DEF IInv, TypeOK, CallsInv, Transmitted, rowVars,
   authVars, vendorVars, reqVars, netVars, reconVars, Attempts
<1>1. ASSUME NEW r \in Requests, Claim(r) PROVE CallsInv'    \* a candidate's claim
  BY <1>1 DEF Claim, ClaimFirstAttempt, Claimed, ClaimGrandfathered,
     ReplacementClaimed, ClaimReplacement, ClaimRetry, RetryAllowed, NextStart
<1>2. ASSUME NEW r \in Requests, Launch(r) \/ Vendor(r) PROVE CallsInv'    \* the vendor call
  BY <1>2 DEF Launch, Vendor, FailBeforeSend, SendCreate, CreateReturns,
     CreateFails, VendorCreates, VendorRejects
<1>3. ASSUME NEW r \in Requests, Record(r) PROVE CallsInv'    \* the record of its result
  BY <1>3 DEF Record, FailFirstAttempt, Finish, LinkFirstAttempt, MayBecome,
     StartFailed, AwaitsResult, Ambiguous, FailedStart, StartSucceeded,
     BindReplacement, StartRecordLost, BindingAlreadyDecided,
     BindingIdentityHolds, BindingFailureRecorded
<1>4. ASSUME NEW r \in Requests, Crash(r) \/ LateSuccess(r) PROVE CallsInv'    \* a stop, or a late record
  BY <1>4 DEF Crash, Finish, LateSuccess, AwaitsResult, BindReplacement
<1>5. ASSUME NEW k \in Recons, ClaimReconciliation(k) \/ Reconcile(k) \/ CrashReconciliation(k) PROVE CallsInv'    \* a reconciliation run
  BY <1>5 DEF Reconcile, ClaimReconciliation, Scan, NamedForReplacement,
     CompleteReconciliation, HoldsReconciliation, BindReplacement,
     CrashReconciliation
<1>6. ASSUME Authorize \/ RecoverBinding PROVE CallsInv'    \* support
  BY <1>6 DEF Authorize, RecoverBinding, BindReplacement
<1>7. ASSUME NEW i \in Attempts, NEW s \in Statuses, LifecycleEvent(i, s) PROVE CallsInv'    \* what happens to an attempt afterwards
  BY <1>7 DEF LifecycleEvent, MayBecome
<1>8. ASSUME InsertTextInterview \/ MarkTextCompleted PROVE CallsInv'    \* a text interview
  BY <1>8 DEF InsertTextInterview, MarkTextCompleted
<1>9. CASE UNCHANGED vars
  BY <1>9 DEF vars
<1> QED BY <1>1, <1>2, <1>3, <1>4, <1>5, <1>6, <1>7, <1>8, <1>9 DEF Next,
   Work, Mishap, Reconcile

\* Every step keeps the holder of the claim token the only replacement
\* request that works or has transmitted.
LEMMA HolderStep == IInv /\ [Next]_vars => HolderInv'
<1> SUFFICES ASSUME IInv, [Next]_vars PROVE HolderInv'
  OBVIOUS
<1> USE NoneIsNoRequest DEF IInv, TypeOK, CallsInv, HolderInv, StartInv,
   StartCoupling, VendorStateOf, StartStatuses, Transmitted, rowVars, authVars,
   vendorVars, reqVars, netVars, reconVars, Attempts
<1>1. ASSUME NEW r \in Requests, Claim(r) PROVE HolderInv'    \* a candidate's claim
  BY <1>1 DEF Claim, ClaimFirstAttempt, Claimed, ClaimGrandfathered,
     ReplacementClaimed, ClaimReplacement, ClaimRetry, RetryAllowed, NextStart
<1>2. ASSUME NEW r \in Requests, Launch(r) \/ Vendor(r) PROVE HolderInv'    \* the vendor call
  BY <1>2 DEF Launch, Vendor, FailBeforeSend, SendCreate, CreateReturns,
     CreateFails, VendorCreates, VendorRejects
<1>3. ASSUME NEW r \in Requests, Record(r) PROVE HolderInv'    \* the record of its result
  BY <1>3 DEF Record, FailFirstAttempt, Finish, LinkFirstAttempt, MayBecome,
     StartFailed, AwaitsResult, Ambiguous, FailedStart, StartSucceeded,
     BindReplacement, StartRecordLost, BindingAlreadyDecided,
     BindingIdentityHolds, BindingFailureRecorded
<1>4. ASSUME NEW r \in Requests, Crash(r) \/ LateSuccess(r) PROVE HolderInv'    \* a stop, or a late record
  BY <1>4 DEF Crash, Finish, LateSuccess, AwaitsResult, BindReplacement
<1>5. ASSUME NEW k \in Recons, ClaimReconciliation(k) \/ Reconcile(k) \/ CrashReconciliation(k) PROVE HolderInv'    \* a reconciliation run
  BY <1>5 DEF Reconcile, ClaimReconciliation, Scan, NamedForReplacement,
     CompleteReconciliation, HoldsReconciliation, BindReplacement,
     CrashReconciliation
<1>6. ASSUME Authorize \/ RecoverBinding PROVE HolderInv'    \* support
  BY <1>6 DEF Authorize, RecoverBinding, BindReplacement
<1>7. ASSUME NEW i \in Attempts, NEW s \in Statuses, LifecycleEvent(i, s) PROVE HolderInv'    \* what happens to an attempt afterwards
  BY <1>7 DEF LifecycleEvent, MayBecome
<1>8. ASSUME InsertTextInterview \/ MarkTextCompleted PROVE HolderInv'    \* a text interview
  BY <1>8 DEF InsertTextInterview, MarkTextCompleted
<1>9. CASE UNCHANGED vars
  BY <1>9 DEF vars
<1> QED BY <1>1, <1>2, <1>3, <1>4, <1>5, <1>6, <1>7, <1>8, <1>9 DEF Next,
   Work, Mishap, Reconcile

\* Every step writes down only conversations of the right attempt.
LEMMA RecordsStep == IInv /\ [Next]_vars => RecordsInv'
<1> SUFFICES ASSUME IInv, [Next]_vars PROVE RecordsInv'
  OBVIOUS
<1> USE NoneIsNoRequest DEF IInv, TypeOK, CallsInv, HolderInv, RecordsInv,
   BoundIsOwn, Transmitted, rowVars, authVars, vendorVars, reqVars, netVars,
   reconVars, Attempts
<1>1. ASSUME NEW r \in Requests, Claim(r) PROVE RecordsInv'    \* a candidate's claim
  BY <1>1 DEF Claim, ClaimFirstAttempt, Claimed, ClaimGrandfathered,
     ReplacementClaimed, ClaimReplacement, ClaimRetry, RetryAllowed, NextStart
<1>2. ASSUME NEW r \in Requests, Launch(r) \/ Vendor(r) PROVE RecordsInv'    \* the vendor call
  BY <1>2 DEF Launch, Vendor, FailBeforeSend, SendCreate, CreateReturns,
     CreateFails, VendorCreates, VendorRejects
<1>3. ASSUME NEW r \in Requests, Record(r) PROVE RecordsInv'    \* the record of its result
  BY <1>3 DEF Record, FailFirstAttempt, Finish, LinkFirstAttempt, MayBecome,
     StartFailed, AwaitsResult, Ambiguous, FailedStart, StartSucceeded,
     BindReplacement, StartRecordLost, BindingAlreadyDecided,
     BindingIdentityHolds, BindingFailureRecorded
<1>4. ASSUME NEW r \in Requests, Crash(r) \/ LateSuccess(r) PROVE RecordsInv'    \* a stop, or a late record
  BY <1>4 DEF Crash, Finish, LateSuccess, AwaitsResult, BindReplacement
<1>5. ASSUME NEW k \in Recons, ClaimReconciliation(k) \/ Reconcile(k) \/ CrashReconciliation(k) PROVE RecordsInv'    \* a reconciliation run
  BY <1>5 DEF Reconcile, ClaimReconciliation, Scan, NamedForReplacement,
     CompleteReconciliation, HoldsReconciliation, BindReplacement,
     CrashReconciliation
<1>6. ASSUME Authorize \/ RecoverBinding PROVE RecordsInv'    \* support
  BY <1>6 DEF Authorize, RecoverBinding, BindReplacement
<1>7. ASSUME NEW i \in Attempts, NEW s \in Statuses, LifecycleEvent(i, s) PROVE RecordsInv'    \* what happens to an attempt afterwards
  BY <1>7 DEF LifecycleEvent, MayBecome
<1>8. ASSUME InsertTextInterview \/ MarkTextCompleted PROVE RecordsInv'    \* a text interview
  BY <1>8 DEF InsertTextInterview, MarkTextCompleted
<1>9. CASE UNCHANGED vars
  BY <1>9 DEF vars
<1> QED BY <1>1, <1>2, <1>3, <1>4, <1>5, <1>6, <1>7, <1>8, <1>9 DEF Next,
   Work, Mishap, Reconcile

\* Every step keeps the authorization in step with its start status, and a
\* starting replacement in status Starting.
LEMMA StartStep == IInv /\ [Next]_vars => StartInv'
<1> SUFFICES ASSUME IInv, [Next]_vars PROVE StartInv'
  OBVIOUS
<1> USE DEF IInv, TypeOK, StartInv, StartCoupling, VendorStateOf, rowVars,
   authVars, vendorVars, reqVars, netVars, reconVars, Attempts
<1>1. ASSUME NEW r \in Requests, Claim(r) PROVE StartInv'    \* a candidate's claim
  BY <1>1 DEF Claim, ClaimFirstAttempt, Claimed, ClaimGrandfathered,
     ReplacementClaimed, ClaimReplacement, ClaimRetry, RetryAllowed, NextStart
<1>2. ASSUME NEW r \in Requests, Launch(r) \/ Vendor(r) PROVE StartInv'    \* the vendor call
  BY <1>2 DEF Launch, Vendor, FailBeforeSend, SendCreate, CreateReturns,
     CreateFails, VendorCreates, VendorRejects
<1>3. ASSUME NEW r \in Requests, Record(r) PROVE StartInv'    \* the record of its result
  BY <1>3 DEF Record, FailFirstAttempt, Finish, LinkFirstAttempt, MayBecome,
     StartFailed, AwaitsResult, Ambiguous, FailedStart, StartSucceeded,
     BindReplacement, StartRecordLost, BindingAlreadyDecided,
     BindingIdentityHolds, BindingFailureRecorded
<1>4. ASSUME NEW r \in Requests, Crash(r) \/ LateSuccess(r) PROVE StartInv'    \* a stop, or a late record
  BY <1>4 DEF Crash, Finish, LateSuccess, AwaitsResult, BindReplacement
<1>5. ASSUME NEW k \in Recons, ClaimReconciliation(k) \/ Reconcile(k) \/ CrashReconciliation(k) PROVE StartInv'    \* a reconciliation run
  BY <1>5 DEF Reconcile, ClaimReconciliation, Scan, NamedForReplacement,
     CompleteReconciliation, HoldsReconciliation, BindReplacement,
     CrashReconciliation
<1>6. ASSUME Authorize \/ RecoverBinding PROVE StartInv'    \* support
  BY <1>6 DEF Authorize, RecoverBinding, BindReplacement
<1>7. ASSUME NEW i \in Attempts, NEW s \in Statuses, LifecycleEvent(i, s) PROVE StartInv'    \* what happens to an attempt afterwards
  BY <1>7 DEF LifecycleEvent, MayBecome
<1>8. ASSUME InsertTextInterview \/ MarkTextCompleted PROVE StartInv'    \* a text interview
  BY <1>8 DEF InsertTextInterview, MarkTextCompleted
<1>9. CASE UNCHANGED vars
  BY <1>9 DEF vars
<1> QED BY <1>1, <1>2, <1>3, <1>4, <1>5, <1>6, <1>7, <1>8, <1>9 DEF Next,
   Work, Mishap, Reconcile

\* Every step keeps the two tables in step.
LEMMA CouplingStep == IInv /\ [Next]_vars => StartCoupling'
<1> SUFFICES ASSUME IInv, [Next]_vars PROVE StartCoupling'
  OBVIOUS
<1> USE NoneIsNoRequest DEF IInv, TypeOK, CallsInv, HolderInv, RecordsInv,
   BoundIsOwn, StartInv, StartCoupling, VendorStateOf, StartStatuses,
   Transmitted, rowVars, authVars, vendorVars, reqVars, netVars, reconVars,
   Attempts
<1>1. ASSUME NEW r \in Requests, Claim(r) PROVE StartCoupling'    \* a candidate's claim
  BY <1>1 DEF Claim, ClaimFirstAttempt, Claimed, ClaimGrandfathered,
     ReplacementClaimed, ClaimReplacement, ClaimRetry, RetryAllowed, NextStart
<1>2. ASSUME NEW r \in Requests, Launch(r) \/ Vendor(r) PROVE StartCoupling'    \* the vendor call
  BY <1>2 DEF Launch, Vendor, FailBeforeSend, SendCreate, CreateReturns,
     CreateFails, VendorCreates, VendorRejects
<1>3. ASSUME NEW r \in Requests, Record(r) PROVE StartCoupling'    \* the record of its result
  BY <1>3 DEF Record, FailFirstAttempt, Finish, LinkFirstAttempt, MayBecome,
     StartFailed, AwaitsResult, Ambiguous, FailedStart, StartSucceeded,
     BindReplacement, StartRecordLost, BindingAlreadyDecided,
     BindingIdentityHolds, BindingFailureRecorded
<1>4. ASSUME NEW r \in Requests, Crash(r) \/ LateSuccess(r) PROVE StartCoupling'    \* a stop, or a late record
  BY <1>4 DEF Crash, Finish, LateSuccess, AwaitsResult, BindReplacement
<1>5. ASSUME NEW k \in Recons, ClaimReconciliation(k) \/ Reconcile(k) \/ CrashReconciliation(k) PROVE StartCoupling'    \* a reconciliation run
  BY <1>5 DEF Reconcile, ClaimReconciliation, Scan, NamedForReplacement,
     CompleteReconciliation, HoldsReconciliation, BindReplacement,
     CrashReconciliation
<1>6. ASSUME Authorize \/ RecoverBinding PROVE StartCoupling'    \* support
  BY <1>6 DEF Authorize, RecoverBinding, BindReplacement
<1>7. ASSUME NEW i \in Attempts, NEW s \in Statuses, LifecycleEvent(i, s) PROVE StartCoupling'    \* what happens to an attempt afterwards
  BY <1>7 DEF LifecycleEvent, MayBecome
<1>8. ASSUME InsertTextInterview \/ MarkTextCompleted PROVE StartCoupling'    \* a text interview
  BY <1>8 DEF InsertTextInterview, MarkTextCompleted
<1>9. CASE UNCHANGED vars
  BY <1>9 DEF vars
<1> QED BY <1>1, <1>2, <1>3, <1>4, <1>5, <1>6, <1>7, <1>8, <1>9 DEF Next,
   Work, Mishap, Reconcile

\* Every step keeps at most one attempt active.
LEMMA ActiveStep == IInv /\ [Next]_vars => OneActiveAttempt'
<1> SUFFICES ASSUME IInv, [Next]_vars PROVE OneActiveAttempt'
  OBVIOUS
<1> USE DEF IInv, TypeOK, OneActiveAttempt, Active, ActiveStatuses,
   NoActiveAttempt, StartInv, StartCoupling, VendorStateOf, StartStatuses,
   rowVars, authVars, vendorVars, reqVars, netVars, reconVars, Attempts
<1>1. ASSUME NEW r \in Requests, Claim(r) PROVE OneActiveAttempt'    \* a candidate's claim
  BY <1>1 DEF Claim, ClaimFirstAttempt, Claimed, ClaimGrandfathered,
     ReplacementClaimed, ClaimReplacement, ClaimRetry, RetryAllowed, NextStart
<1>2. ASSUME NEW r \in Requests, Launch(r) \/ Vendor(r) PROVE OneActiveAttempt'    \* the vendor call
  BY <1>2 DEF Launch, Vendor, FailBeforeSend, SendCreate, CreateReturns,
     CreateFails, VendorCreates, VendorRejects
<1>3. ASSUME NEW r \in Requests, Record(r) PROVE OneActiveAttempt'    \* the record of its result
  BY <1>3 DEF Record, FailFirstAttempt, Finish, LinkFirstAttempt, MayBecome,
     StartFailed, AwaitsResult, Ambiguous, FailedStart, StartSucceeded,
     BindReplacement, StartRecordLost, BindingAlreadyDecided,
     BindingIdentityHolds, BindingFailureRecorded
<1>4. ASSUME NEW r \in Requests, Crash(r) \/ LateSuccess(r) PROVE OneActiveAttempt'    \* a stop, or a late record
  BY <1>4 DEF Crash, Finish, LateSuccess, AwaitsResult, BindReplacement
<1>5. ASSUME NEW k \in Recons, ClaimReconciliation(k) \/ Reconcile(k) \/ CrashReconciliation(k) PROVE OneActiveAttempt'    \* a reconciliation run
  BY <1>5 DEF Reconcile, ClaimReconciliation, Scan, NamedForReplacement,
     CompleteReconciliation, HoldsReconciliation, BindReplacement,
     CrashReconciliation
<1>6. ASSUME Authorize \/ RecoverBinding PROVE OneActiveAttempt'    \* support
  BY <1>6 DEF Authorize, RecoverBinding, BindReplacement
<1>7. ASSUME NEW i \in Attempts, NEW s \in Statuses, LifecycleEvent(i, s) PROVE OneActiveAttempt'    \* what happens to an attempt afterwards
  BY <1>7 DEF LifecycleEvent, MayBecome
<1>8. ASSUME InsertTextInterview \/ MarkTextCompleted PROVE OneActiveAttempt'    \* a text interview
  BY <1>8 DEF InsertTextInterview, MarkTextCompleted
<1>9. CASE UNCHANGED vars
  BY <1>9 DEF vars
<1> QED BY <1>1, <1>2, <1>3, <1>4, <1>5, <1>6, <1>7, <1>8, <1>9 DEF Next,
   Work, Mishap, Reconcile
----------------------------------------------------------------------------
(* The counter of claims.                                                  *)

Claims == {r \in Requests : pc[r] # "idle" /\ ForReplacement(r)}

CountInv ==
    /\ starts = Cardinality(Claims)
    /\ auth # "consumed" => starts = 0

\* A request that claims the replacement is one more claim, and is counted.
LEMMA ClaimCounted ==
  ASSUME TypeOK, CountInv, NEW r \in Requests,
         ClaimGrandfathered(r) \/ ClaimReplacement(r) \/ ClaimRetry(r)
  PROVE  CountInv'
<1> USE DEF ClaimGrandfathered, ClaimReplacement, ClaimRetry, RetryAllowed, NextStart
<1>1. /\ pc[r] = "idle" /\ starts' = starts + 1 /\ auth' = "consumed"
      /\ pc' = [pc EXCEPT ![r] = "claimed"] /\ target' = [target EXCEPT ![r] = 2]
  BY DEF CountInv, TypeOK, ReplacementClaimed, Claimed, MaxStartAttempts
<1>2. Claims' = Claims \cup {r} /\ r \notin Claims
  BY <1>1 DEF TypeOK, Claims, ForReplacement, Attempts
<1>3. IsFiniteSet(Claims)
  BY RequestsFinite, FS_Subset DEF Claims
<1>4. Cardinality(Claims') = Cardinality(Claims) + 1
  BY <1>2, <1>3, FS_AddElement
<1> QED BY <1>1, <1>4 DEF CountInv

\* Every other step leaves the counter and the set of claims alone.
LEMMA OthersNotCounted ==
  ASSUME TypeOK, CountInv, CallsInv, starts' = starts, auth' \in {auth, "authorized"},
         auth = "consumed" => auth' = "consumed", Claims' = Claims
  PROVE  CountInv'
BY DEF CountInv

\* Every step keeps the counter equal to the number of claims.
LEMMA CountStep == IInv /\ CountInv /\ [Next]_vars => CountInv'
<1> SUFFICES ASSUME IInv, CountInv, [Next]_vars PROVE CountInv'
  OBVIOUS
<1> USE DEF IInv, TypeOK, Attempts, Claims, ForReplacement, rowVars, authVars,
   vendorVars, reqVars, netVars, reconVars
<1>1. ASSUME NEW r \in Requests, Claim(r) PROVE CountInv'
  <2>1. CASE ClaimFirstAttempt(r)
    BY <2>1, OthersNotCounted DEF ClaimFirstAttempt, Claimed
  <2> QED BY <1>1, <2>1, ClaimCounted DEF Claim
<1>2. ASSUME NEW r \in Requests, Launch(r) \/ Vendor(r) PROVE CountInv'
  BY <1>2, OthersNotCounted DEF Launch, Vendor, FailBeforeSend, SendCreate, CreateReturns,
     CreateFails, VendorCreates, VendorRejects
<1>3. ASSUME NEW r \in Requests, Record(r) PROVE CountInv'
  BY <1>3, OthersNotCounted DEF Record, FailFirstAttempt, LinkFirstAttempt, StartFailed,
     StartSucceeded, StartRecordLost, BindingAlreadyDecided, BindingFailureRecorded,
     BindingIdentityHolds, Finish
<1>4. ASSUME NEW r \in Requests, Crash(r) \/ LateSuccess(r) PROVE CountInv'
  BY <1>4, OthersNotCounted DEF Crash, LateSuccess, Finish
<1>5. ASSUME NEW k \in Recons,
             ClaimReconciliation(k) \/ Reconcile(k) \/ CrashReconciliation(k)
      PROVE CountInv'
  BY <1>5, OthersNotCounted DEF ClaimReconciliation, Reconcile, Scan,
     CompleteReconciliation, CrashReconciliation
<1>6. CASE Authorize
  BY <1>6 DEF Authorize, CountInv
<1>7. CASE RecoverBinding
  BY <1>7, OthersNotCounted DEF RecoverBinding
<1>8. ASSUME NEW i \in Attempts, NEW s \in Statuses, LifecycleEvent(i, s) PROVE CountInv'
  BY <1>8, OthersNotCounted DEF LifecycleEvent
<1>9. CASE InsertTextInterview \/ MarkTextCompleted
  BY <1>9, OthersNotCounted DEF InsertTextInterview, MarkTextCompleted
<1>10. CASE UNCHANGED vars
  BY <1>10, OthersNotCounted DEF vars
<1> QED BY <1>1, <1>2, <1>3, <1>4, <1>5, <1>6, <1>7, <1>8, <1>9, <1>10
        DEF Next, Work, Mishap

----------------------------------------------------------------------------
(* The theorems.                                                           *)

LEMMA InitInv == Init => IInv /\ CountInv
<1> SUFFICES ASSUME Init PROVE IInv /\ CountInv
  OBVIOUS
<1> USE NoneIsNoRequest DEF Init, FreshInit, GrandfatheredInit, Attempts
<1>1. TypeOK
  <2>1. /\ completed \in BOOLEAN /\ linked \in BOOLEAN
        /\ review \in BOOLEAN /\ bindFlag \in BOOLEAN
    BY Zenon
  <2> QED BY <2>1 DEF TypeOK, Statuses, StartStatuses, VendorStates, MaxStartAttempts,
              MaxScans
<1>2. CallsInv /\ HolderInv /\ RecordsInv /\ StartInv
  BY DEF CallsInv, HolderInv, RecordsInv, BoundIsOwn, StartInv, Transmitted
<1>3. StartCoupling /\ OneActiveAttempt
  BY DEF StartCoupling, VendorStateOf, StartStatuses, OneActiveAttempt, Active,
     ActiveStatuses
<1>4. CountInv
  <2>1. Claims = {}
    BY DEF Claims
  <2> QED BY <2>1, FS_EmptySet DEF CountInv
<1> QED BY <1>1, <1>2, <1>3, <1>4 DEF IInv

LEMMA InvStep == IInv /\ [Next]_vars => IInv'
BY TypeStep, CallsStep, HolderStep, RecordsStep, StartStep, CouplingStep, ActiveStep
   DEF IInv

\* Every column, register and message keeps its type.
THEOREM TypeCorrect == Spec => []TypeOK
<1>1. Init => TypeOK
  BY InitInv DEF IInv
<1> QED BY <1>1, TypeStep, PTL DEF Spec

\* The inductive invariant holds in every reachable state.
THEOREM Invariance == Spec => []IInv
<1>1. Init => IInv
  BY InitInv
<1> QED BY <1>1, InvStep, PTL DEF Spec

\* A candidate never has two active attempts for a role.
THEOREM AtMostOneActive == Spec => []OneActiveAttempt
<1>1. IInv => OneActiveAttempt
  BY DEF IInv
<1> QED BY <1>1, Invariance, PTL

\* However requests retry, crash and race with support, the vendor never holds
\* two conversations for the replacement.
THEOREM NoSecondConversation == Spec => []OneReplacementConversation
<1>1. IInv => OneReplacementConversation
  BY DEF IInv, TypeOK, HolderInv, Transmitted, OneReplacementConversation, ForReplacement
<1> QED BY <1>1, Invariance, PTL

\* A start that was recorded as failed was never accepted, nor will it be.
THEOREM FailedIsFailed == Spec => []FailedMeansNothingAccepted
<1>1. IInv => FailedMeansNothingAccepted
  BY DEF IInv, TypeOK, HolderInv, Transmitted, FailedMeansNothingAccepted, ForReplacement
<1> QED BY <1>1, Invariance, PTL

\* Every bound conversation exists and was created for the attempt it is bound to.
THEOREM BoundCorrectly == Spec => []BoundIsOwn
<1>1. IInv => BoundIsOwn
  BY DEF IInv, RecordsInv
<1> QED BY <1>1, Invariance, PTL

\* The authorization and the replacement row stay in step.
THEOREM TablesAgree == Spec => []StartCoupling
<1>1. IInv => StartCoupling
  BY DEF IInv
<1> QED BY <1>1, Invariance, PTL

\* The start counter counts the claims, and there are never more than three.
THEOREM StartsCounted == Spec => []StartsCountClaims
<1>1. Init => IInv /\ CountInv
  BY InitInv
<1>2. IInv /\ CountInv /\ [Next]_vars => (IInv /\ CountInv)'
  BY InvStep, CountStep
<1>3. IInv /\ CountInv => StartsCountClaims
  BY DEF IInv, TypeOK, CountInv, Claims, StartsCountClaims, MaxStartAttempts
<1> QED BY <1>1, <1>2, <1>3, PTL DEF Spec

\* A started, reviewed or exhausted replacement is never moved again.
THEOREM SettledStays == Spec => SettledIsFinal
<1> DEFINE Kept == Settled => start' = start /\ conv'[2] = conv[2]
<1>1. IInv /\ [Next]_vars => [Kept]_vars
  <2> SUFFICES ASSUME IInv, Next, Settled PROVE start' = start /\ conv'[2] = conv[2]
    OBVIOUS
  <2> USE DEF IInv, TypeOK, Settled, StartInv, StartCoupling, VendorStateOf, StartStatuses,
     rowVars, authVars, vendorVars, Attempts
  <2>1. ASSUME NEW r \in Requests, Claim(r) PROVE start' = start /\ conv'[2] = conv[2]
    BY <2>1 DEF Claim, ClaimFirstAttempt, ClaimGrandfathered, ClaimReplacement, ClaimRetry,
       RetryAllowed
  <2>2. ASSUME NEW r \in Requests, Launch(r) \/ Vendor(r)
        PROVE start' = start /\ conv'[2] = conv[2]
    BY <2>2 DEF Launch, Vendor, FailBeforeSend, SendCreate, CreateReturns, CreateFails,
       VendorCreates, VendorRejects
  <2>3. ASSUME NEW r \in Requests, Record(r) PROVE start' = start /\ conv'[2] = conv[2]
    BY <2>3 DEF Record, FailFirstAttempt, LinkFirstAttempt, StartFailed, StartSucceeded,
       StartRecordLost, AwaitsResult, BindingAlreadyDecided, BindingFailureRecorded
  <2>4. ASSUME NEW r \in Requests, Crash(r) \/ LateSuccess(r)
        PROVE start' = start /\ conv'[2] = conv[2]
    BY <2>4 DEF Crash, LateSuccess, AwaitsResult
  <2>5. ASSUME NEW k \in Recons,
               ClaimReconciliation(k) \/ Reconcile(k) \/ CrashReconciliation(k)
        PROVE start' = start /\ conv'[2] = conv[2]
    BY <2>5 DEF ClaimReconciliation, Reconcile, Scan, CompleteReconciliation,
       CrashReconciliation, HoldsReconciliation
  <2>6. CASE Authorize \/ RecoverBinding
    BY <2>6 DEF Authorize, RecoverBinding
  <2>7. ASSUME NEW i \in Attempts, NEW s \in Statuses, LifecycleEvent(i, s)
        PROVE start' = start /\ conv'[2] = conv[2]
    BY <2>7 DEF LifecycleEvent
  <2>8. CASE InsertTextInterview \/ MarkTextCompleted
    BY <2>8 DEF InsertTextInterview, MarkTextCompleted
  <2> QED BY <2>1, <2>2, <2>3, <2>4, <2>5, <2>6, <2>7, <2>8 DEF Next, Work, Mishap
<1>2. Spec => []IInv /\ [][Next]_vars
  BY Invariance, PTL DEF Spec
<1> QED BY <1>1, <1>2, PTL DEF SettledIsFinal

=============================================================================
