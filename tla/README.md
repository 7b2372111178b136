# TLA+ models of the interview agent backend

The repository is the backend of a screening product: candidates talk to a video agent hosted by a
vendor (Tavus), the conversation is transcribed, scored and analysed, and clients (employers) are
billed for it through Stripe. It is a Node/Express program over a Supabase Postgres database. Much
of its concurrency control lives in `plpgsql` functions that the handlers call as RPCs; nothing runs
in the background except short deferred jobs of a request and cron calls to `/internal` routes.

Every handler is therefore a sequence of calls to a database, to the vendor and to Stripe, any of
which can fail, succeed with its answer lost, or be overtaken by another request, a redelivered
webhook or a restart. The models here are about those interleavings.

Paths below are relative to the repository; JavaScript is under `src/`, SQL under
`supabase/migrations/`.

## Running the checks

    tlc -config InterviewRecovery.cfg MCInterviewRecovery     # one line per run, see "Runs"
    tlapm InterviewRecovery_proofs.tla                        # the proofs

## Inventory: parts of the system

| Part | State | Operations and callers | What makes it correct | What makes it hard |
|---|---|---|---|---|
| Interview attempts and recovery (`services/interviewAttemptService.js`, `tavusInterview.js`, `tavusVendorReconciliation.js`, `routes/public/createTavusInterview.js`, `routes/admin/interviewRecovery.js`, migrations `20260717120000`, `20260721160715`) | `interviews` (status, conversation, vendor start state), `interview_reset_events` (authorization of a replacement, its start status, claim and reconciliation tokens) | a candidate's request claims an attempt, calls the vendor, records the outcome; support authorizes a replacement, reconciles an ambiguous start, recovers a binding; vendor events write the status | one active attempt per candidate and role; one vendor conversation per replacement; the two tables agree | lost vendor answers, lost and late records, crashes, events of an old attempt |
| Final-transcript reconciliation and analysis (`services/finalTranscriptReconciliation.js`, `tavusEvents/index.js`, `interviewAnalysisV2.js`, migration `20260724142720`) | `interview_final_transcript_claims`, the interview's transcript, evidence, scores, questions, analysis, completion stamp | each delivery of a transcript claims, scores, finalizes or releases; deferred jobs write the analysis and the unanswered questions | the strongest transcript wins and stays; a 200 never drops a text; downstream work follows the authority | redelivery, expired leases, late finalizers, live utterances, lost replies, restarts |
| Interview ending (`routes/public/tavus.js`, `services/interviewLifecycle.js`, `tavusWebhookPayload.js`) | `interviews.status`, ending timestamps | end button, agent's end-call tool, vendor shutdown, early-end timer | a status never moves back; an ended interview gets its scores | three writers of one column, a timer |
| Usage billing (`services/usageBilling.js`, `routes/webhooks/stripe.js`, `routes/internal/usageBilling.js`, migration `20261009140000`) | `usage_billing_ledger`, Stripe drafts and items, `billing_events` | the `invoice.created` webhook and an immediate invoice both reserve interviews, create items and stamp rows | an interview is charged at most once and never lost | two paths, Stripe retries, lost answers, crashes between two calls |
| Allocation and rollover credits (`services/interviewAllocation.js`, `interviewCredits.js`, `roleInterviewAvailability.js`, `routes/admin/roles.js`, `routes/client/roles.js`, migration `20261009130000`) | `interview_credits`; payers are derived by replay | closing a role mints a credit, reopening revokes it, every read replays history | one live credit per role; a settled history does not change | racing status changes, swallowed failures, late stamps, scores and commits |
| Interview pools (`services/interviewPool.js`, migration `20261009180000`) | a prepaid quantity | read at launch | no more interviews than the pool | check-then-claim at launch |
| One-time passwords (`services/otpChallenge.js`, `otpDelivery.js`, `routes/public/verifyOtp.js`, migrations `20260810144400`, `20260812013847`, `20260903211201`) | `private_auth` challenges | issue, deliver, verify, consume, recover, clean up | one live challenge, consumed once, attempts limited | resend racing verify, delivery results out of order |
| SMS (`services/smsDeliveryOrchestrator.js`, `smsProductionControls.js`, `candidateSmsDelivery.js`, `routes/webhooks/telnyx.js`, migrations from `20260811182536` on) | `sms_spend_reservations`, `sms_provider_breakers`, suppressions, recorded control texts, the provider columns of a challenge | a request reserves, sends, records and settles; the provider's webhook reports delivery, STOP and START, and its spend limit | the provider never takes more than the cap; an accepted message is traceable; a delivery status only advances; STOP stops | callbacks out of order and redelivered, lost replies, a crash after the send |
| Candidate submission (`routes/public/candidateSubmit.js`, `services/candidateSubmissionIdempotency.js`, `duplicateCandidate.js`) | `candidates`, submission keys | submit with an idempotency key | one candidate per submission | concurrent retries |
| Text interviews, accommodations (`routes/public/textInterview.js`, `accommodationRequests.js`) | `interviews` rows inserted completed | submit answers | one completed interview per candidate | a video attempt exists already; double submit |
| Purchases and activation (`routes/webhooks/stripe.js`, `services/publicPurchaseActivation.js`, `subscriptionCheckout.js`, `routes/public/membershipAgreements/`, `routes/sales/index.js`, migrations `20260930172541`, `20261001131612`) | purchase intents with leases, agreements, logins, memberships, the welcome e-mail | sign, check out, pay; two events per payment activate the purchase; sales cancels or replaces | a payment is activated once and to the end, for the current deal | lease expiry, heartbeat, redelivery, crashes, changes of the deal under a payment |
| Role purchases, role text replacement (`services/rolePurchaseFinalizer.js`, `roleJdReplacement.js`, `routes/client/roleCheckout.js`, `routes/webhooks/stripe.js`) | `pending_role_purchases`, `client_role_credits`, `roles` | a request spends a prepaid credit, is billed by usage or opens an embedded and a hosted checkout session; the events of either session finalize the purchase | no payment or credit buys two roles; a payment answered as processed has its role, linked and documented | both sessions paid, events repeated while the first delivery runs, inserts with lost answers |
| Automation (`services/automation/index.js`, `automationActions.js`, `automationApprovalTokens.js`, `automationDigestApprovalTokens.js`, `routes/automation/`) | `automation_rules`, `automation_actions`, tokens of action links and of digest links, digest deliveries | evaluate a rule, approve or reject in the application, by an action's link or by a digest's link, e-mail the candidate, e-mail digests | an action has one verdict; a candidate gets one invitation, after approval; a digest sent has a working link | rows read before they are written, three routes to one decision, unclear answers of the mail provider |
| Enterprise, retail and membership contracts (`services/enterprise*.js`, `existingEnterprise*.js`, `existingRetail*.js`, `membership*.js`) | reservations, receipts, agreements, quotes, checkout operations | sign, check out, fund, renew, replace | one checkout per agreement, receipts match payments | webhooks out of order, retries |
| Sales (`services/salesIntegrations.js`, `ghlSalesIntegration.js`, `salesTeamProviderSync.js`, `salesVoiceHandoff.js`, `routes/sales/index.js`, `routes/webhooks/ghlSales.js`, payroll) | delivery outbox with leases; webhook receipts, bindings of CRM opportunities, previews, idempotency keys, deals; commission ledger | a CRM event imports an opportunity; a representative creates a deal from it; once it is paid, deliveries are enqueued, claimed with SKIP LOCKED and retried | a mailed deal is whole, a failed one leaves nothing; each delivery reaches its provider, and what reads delivered was | a dozen calls undone one by one, an import that races with a creation, lease expiry during a slow call |
| Support voice (`services/supportVoiceGateway.js`, `supportVoiceSessionStore.js`) | sessions with slots and heartbeats | open, heartbeat, close, expire | limits on concurrent sessions | an instance dies |
| Rate limits, recordings, renewals (`services/rateLimit.js`, `recordingCleanup.js`, `contracts/contractRenewals.js`) | counters; batch jobs | per request; cron | limits hold; nothing is deleted early | few |
| Authentication, reports, metrics, leads, health, pronunciations, QA tooling, demo | none of their own, or plain rows | reads, conversions | | not concurrent |

`PROJECT.json` lists each part with its status; the hazards found in the code, at their lines, are
there too, each with the properties that would catch it or the reason why none does.

Parts interact through the database more than by calls. The attempt's row that
`InterviewRecovery` claims and binds is the row whose status lifecycle events write and whose
transcript `TranscriptReconciliation` finalizes; finalization stamps `completed_at`, which is what
`InterviewCredits` replays and what `UsageInvoicing` bills. Each model keeps the neighbours' effect
as an action: vendor events in the first, completion and late scores in the last two.

## Modules

| Module | What it is |
|---|---|
| `InterviewRecovery` | attempts, starts, records, reconciliation, binding recovery |
| `InterviewRecovery_proofs` | its inductive invariant and theorems |
| `MCInterviewRecovery` | TLC instance |
| `UsageInvoicing` | the two billing paths, Stripe's invoices and items, the webhook's dedupe |
| `ChargeLedger` | what usage billing promises; `UsageInvoicing` refines it |
| `MCUsageInvoicing` | TLC instance |
| `TranscriptReconciliation` | transcript claims, scoring, finalization, deferred analysis |
| `MCTranscriptReconciliation` | TLC instance |
| `TranscriptReconciliation_proofs` | its inductive invariant and theorems |
| `InterviewCredits` | replay of payers, minting and revoking credits |
| `MCInterviewCredits` | TLC instance |
| `BilledClient` | the parameters `UsageInvoicing` and `InterviewCredits` share |
| `Billing_proofs` | invariants and theorems of both, the refinement of `ChargeLedger` |
| `SmsDelivery` | one delivery request's calls, the provider, its webhooks |
| `SmsDelivery_proofs` | its inductive invariant and theorems |
| `MCSmsDelivery` | TLC instance |
| `PurchaseActivation` | one sales-assisted purchase: checkout, payment events, activation, cancel and replace |
| `MCPurchaseActivation` | TLC instance, with the symmetry of one of its runs |
| `PurchaseActivation_proofs` | its inductive invariant and theorems |
| `CandidateAutomation` | one rule's actions: evaluation, approval by three routes, invitations, digests |
| `MCCandidateAutomation` | TLC instance |
| `CandidateAutomation_proofs` | its inductive invariant and theorems |
| `SalesDeliveries` | the leased outbox that announces a sale in Slack and in the CRM |
| `MCSalesDeliveries` | TLC instance |
| `SalesDeals` | the CRM's opportunity imported, and a deal created from it or undone |
| `MCSalesDeals` | TLC instance |
| `Sales_proofs` | inductive invariants and theorems of `SalesDeliveries` and `SalesDeals` |
| `RolePurchase` | a role request: prepaid credit, checkout with two sessions, or billed by usage |
| `MCRolePurchase` | TLC instance |
| `RolePurchase_proofs` | its inductive invariant and theorems |

### InterviewRecovery

One candidate and one role. Attempt 1 is the first interview, attempt 2 the replacement that support
may authorize once (`authorize_interview_replacement_core`).

State: `status`, `conv` are the two `interviews` rows; `auth`, `start`, `starts`, `claimToken`,
`reconToken`, `scans`, `bindRecord` the authorization's row; `vendorState`, `review`, `bindFlag` the
replacement's recovery columns. Each HTTP request `r` has a program counter `pc[r]` and the attempt
it claimed, `target[r]`. A claim token is fresh for each claim, so it is modelled by the request that
holds it, and a vendor conversation by the request whose create call made it: `inflight` are create
calls sent, `created` the conversations the vendor has, `late` success records still on their way.
Reconciliation runs `k` have their own counter and what they found.

Actions: the claim function has four granting branches (`ClaimFirstAttempt`, `ClaimGrandfathered`,
`ClaimReplacement`, `ClaimRetry`); the handler then fails before sending, sends, and hears or does
not hear from the vendor, which decides by itself (`VendorCreates`, `VendorRejects`); the record
functions are split by what they find (`StartSucceeded`, `StartFailed`, `StartRecordLost`,
`BindingFailureRecorded`, ...). `LifecycleEvent` is the unconditional status write of
`tavusEvents/index.js`, admitted by the partial unique index on active attempts.
`Crash` stops a request between any two calls.

Properties:
- `OneActiveAttempt`: late vendor events for attempt 1 never make it active beside attempt 2.
- `OneReplacementConversation`: a retry is only allowed after a failure that really was one
  (`FailedMeansNothingAccepted`, which is proved). Any error after transmission is ambiguous and must be
  reconciled.
- `BoundIsOwn`: a row is bound to a conversation of its own attempt, also through reconciliation
  by name and through the recovery of a binding.
- `StartCoupling`: the two tables, written by different functions, tell one story.
- `StartsCountClaims`: the limit of three starts is a limit of three vendor calls.
- `SettledIsFinal`: no late record moves a decided start.
- `ClaimsSettle` (liveness): a claimed start is decided (`StartSettles`), and a claimed reconciliation
  ends (`ReconciliationSettles`), unless the process that holds it stopped.

Bounds: four requests (one for the first attempt, three for the replacement, whose limit is the
code's `MaxStartAttempts = 3`) and two reconciliation runs. Fairness: weak fairness of each handler's
and each run's own steps; the HTTP clients have timeouts, so a sent call always returns or fails.
No fairness for users, support or the vendor.

Left out: refused claims (they change nothing here), the recovery e-mail outbox, the audit log, the
older claim function used while the recovery core is switched off, adjudication of reports.

Known gap of the code, by design of the claim functions: when a process stops after its claim,
the attempt stays "Starting" and the start "claimed"; no takeover exists, and every later claim finds
an existing active attempt. `StartSettles` excludes exactly that case.

### UsageInvoicing and ChargeLedger

One Enterprise client. `Cycles` are the platform-fee invoices Stripe opens, announced by
`invoice.created`; `Runs` are immediate invoices raised by cron or an administrator. Both run
`applyUsageToInvoice`: compute the unbilled interviews of the month before the anchor, reserve them
in the ledger with an upsert that skips taken ones, create one Stripe item per price group (a role,
at one price), look for the item of an earlier try first, stamp the rows it paid for.

State: `done`, `at`, `roleOf` are interviews; `ledger`, `stamped` the ledger rows; `itemOn`,
`itemFor`, `invoice` are Stripe's; `payload` is the status the event carried, which never changes
on redelivery; `event` and `dedupe` are the delivery and its `billing_events` row; the rest is the
worker of each invoice, one action per call.

Properties: `NoDoubleCharge`, `StampedMeansCharged`, `ImplementsChargeLedger` (refinement: the owner of
an interview is its ledger row, its charges are the Stripe items naming it), `ReservationSettles`
(liveness: once calls stop failing, redelivery finishes what an attempt left, unless Stripe finalized
the draft or the event was lost).

`usage_invoicing_lost_event` shows how an event is lost: the `billing_events` row goes in before the
work, so a redelivery that arrives while the first delivery is still working, or after its process
died, is answered 200. `docs/billing-models.md` says that nothing is lost.

Bounds: two interviews of one role or of two, one cycle, one run, two months. Two interviews are enough for a group that is partly taken by the other
path and for an invoice whose first group is billed and second is not. Fairness: workers and Stripe's
delivery; calls may fail as long as they like, and the property assumes only that they stop failing.

Left out: the accepted-terms cohort (its own tables and path), amounts, page sizes.
Observed, without a property: the usage of a period whose invoice was already finalized falls outside
the single month the next cycle bills (`usageBilling.js:145`), so the webhook never bills it, where
`docs/billing-models.md:215-216` says it is "carried into the next cycle" and a comment in
`routes/webhooks/stripe.js:398-399` says the same.

### TranscriptReconciliation

One interview. A text is a model value with the two numbers the code compares: the answers it is
known to hold (`Known`) and its words (`Words`). `claim` is the claim row (state, version, token,
lease, pending text, authority), `interview` the columns of the interview that are written, `analysing`
the analysis claim, `worker[w]` a delivery being handled, `job[v]` the deferred analysis of version
`v`, `asks` the deferred questions, `perception` the unversioned refresh after a perception event.

Actions: each delivery is refused (busy, superseded, already reconciled) or granted a claim; it
prepares scores, finalizes with its token, releases on failure, stamps and answers. `LeaseExpires`
lets another take over while the first is slow. The analysis is claimed for a version, reads the row,
generates and stores under its token.

Properties: `NothingWeakens` (evidence and authority only grow), `AcknowledgedIsCovered` (a text
answered 200 is covered by what the interview shows), `DownstreamFollowsAuthority`,
`EveryTextIsAnswered` (liveness: redelivery ends in a 200).

Bounds: two handlers, three texts (sparse, full, and one with the same answers and more words), four
versions, one fault of any kind and a release that may be lost after it, utterance counts up to three. Fairness: weak for handlers and lease
expiry (the clock), strong for the vendor's redelivery of an unanswered text; that the vendor
redelivers is an assumption about it that the code's 5xx answers rely on.

Left out: malformed requests, the content of scores; eligibility by wording is the flag `perceived`.
Observed, without a property: a claim released after failed scoring bumps the version, so a pending
analysis of the current authority is refused as superseded; deferred jobs are not retried after a
restart; live utterances that already reach the counts of the only final transcript make it
superseded (the disposable-database test 14b sanctions this); a finalize whose reply was lost leaves
the interview without its completion stamp, because the redelivery is answered "already reconciled"
before the stamp (`tavusEvents/index.js:2195`, where the comment at 2394-2396 has the retry restore it);
the perception refresh writes by id alone (`tavusEvents/index.js:1229`), so an analysis of a weaker
transcript can replace that of a stronger one, which `test/final-transcript-serialization-webhook.test.js:1690`
rules out for the versioned path.

### InterviewCredits

One client on the rollover model. Payers are not stored: `Replay[t]` is the allocation of the used
interviews ordered up to `t`, own allowance first, then the credit that expires first, then the meter.
A status request writes the status, then looks, measures and inserts, or finds and revokes, in
separate calls (`MintLooks` ... `RevokeWrites`), any of which may fail silently (`SyncFails`); `step` is
where it stands, and an answered request keeps nothing (`Answer`).

Timestamps are taken before the write that stores them. `minted_at` and `revoked_at` are taken after the
request's read and before its awaited write, so a commit may carry any time since the read
(`since`, `TakenSince`). An interview is used by one write (`EndInterview` begins it, `CompleteInterview`
commits it) and dated by another call that may never succeed and that every redelivery repeats
(`StampInterview`, which writes only where `completed_at` is null). Until it is dated `updated_at` orders
it (`orderedAt`), and every write of the row moves that, by a trigger (`TouchInterview`). A transcript
without substantive evidence ends and dates an interview without using it (`CompleteUnused`); a stronger
one uses it later (`ScoreInterview`).

Properties: `OneLiveCredit`, `SettledPayersStay`. The second says when history is final: once an
interview has its `completed_at`, every interview that ended up to that time is dated and used, and no
request that read up to that time is still to mint or revoke, its payer never changes again.

Bounds: two roles of one included interview, two interviews, two requests, two credits, a window of
two ticks in a history of three; credits are minted, spent, revoked and expire within it, late commits,
late stamps and late scores each change a payer that is not settled (weakening `Settled` by any of its
conjuncts refutes the property). No fairness: nothing here is promised to happen.

Left out: purchases and top-ups, child entities, the other billing models in the replay; two interviews
with the same timestamp (ties go by id); clocks of processes and database that differ; a write of the row
that starts before the interview ends and waits for its lock (the trigger would date it by its start).
When a write that moves `updated_at` began is left open within the time since the interview ended.
Observed, without a property: before it is settled an interview's payer can change after it was read. A
credit that is inserted with a `minted_at` before the interview's time becomes its payer, and a
revocation stored with a `revoked_at` before it takes its payer away, although the comment at
`interviewAllocation.js:102-103` says "Revocation is not retroactive. Interviews already allocated to a
credit before it was revoked stay allocated"; an interview that is dated, touched or scored late changes
its place in the order. Also: a reopen that runs between a close's measurement and its insert leaves
an open role with a live credit; a reopened role runs its whole allowance again although part of it was
spent through its revoked credit (`interviewAllocation.js:274` deducts nothing, and `own_remaining` is
clipped at zero), where `docs/billing-models.md:80-82` has the allowance reduced; an interview in flight
at the close is paid by the role's own allowance although that allowance became a credit.

### SmsDelivery

Verification codes by text message, for one destination and one provider. State: `request[s]` is where
a delivery request is and what it has learned; `reservation`, `challenge`, `breaker`, `suppressed` and
`recorded` are the rows; `carrier` is what the provider did with each message and the events it
posts; `said` are the recipient's texts. `heard`, `inOrder` and `misreported` are history, read only by
properties. A request makes at most one challenge, reservation and message, so its name stands for
the three ids; all reservations have one price, so the cap counts them.

Actions: one per call of a request (`ChecksSuppression`, `ReservesSpend`, `IssuesChallenge`,
`RecordsRequested`, `Dispatches`, `HearsProvider`, `RecordsOutcome`, `Settles`), the ways it stops
(`IsTurnedAway`, `FailsBeforeSending`, `Dies`), what happens outside (`ProviderReports`, `Texts`,
`NewDay`) and what the webhook does with a posted event (`RecordsDelivery`, `RecordsControl`,
`TripsBreaker`). A posted event can be handled any number of times, at any later time. Every call can
fail, or commit and lose its reply.

Properties:
- `SentWithinCap`: money is given back only where nothing was sent, so that the provider takes no more
  messages of a day than its cap. The provider's word is trusted: a message it took while answering 5xx is
  excluded, because the adapter reads a 5xx as "not accepted".
- `AcceptedIsTraceable`: a request that reports success has a row its webhooks find.
- `StatusNeverRegresses`, `NewestEventShows`: the delivery status against events in any order.
- `RedeliveredTextsAreInert`: only the first arrival of a text counts.

Bounds: two requests for a cap of one, two days, two texts, two delivery events, one mishap (a lost
call, a lost reply, a crash or a spend limit); 1.3 million states up to the symmetry of requests. Two
requests are enough for one to take what another gave back; two events, for one to overtake the other. No
fairness: nothing is promised to happen.

Left out: the line-type lookup and the rate windows (`IsTurnedAway` may refuse at any time),
suppressions and breaker resets by an administrator, HELP, the sales sign-up's messages, monitoring;
the categories of a refusal are one, and the branches of the metadata functions for ids that differ
cannot be reached by these callers.
Observed, without a property: an event that arrives before its message's id is recorded is answered
200 and lost; a final event that bears the same instant as the one before is dropped; the
suppression is read once, at the start of a request; a process that stops after it reserved leaves the
money reserved for the day; a text is applied when it arrives, whatever its own time, so that START, then
STOP, recorded in the other order, leaves the destination open.

### PurchaseActivation

One sales-assisted purchase. State: `intent` is the row of `public_purchase_intents` with the
activation's claim key and lease, `agreement[a]` the agreements issued for it one after the other,
`session[a]` Stripe's checkout session for each and `event[a]` the two events of its payment (the
session's and the invoice's). `worker[w]` is the run of a delivery, at one call of the activation;
`checkout[c]` a checkout request and `sales[r]` a cancel or replace request of the representative, each
between its awaits. `buyer` and `welcome` are what the end of the activation sets up. A claim key is
never used twice, so the worker stands for it. A lease is "fresh" or, five minutes after its last
heartbeat, "stale".

Actions: signing, the checkout request call by call (`OpensCheckout` ... `FinishesCheckout`), payment
(`Pays`); the representative's requests read the deal, expire the session at Stripe and call a function that
checks the rows again (`Cancels`, `Replaces`). A delivery claims (`Claims`), loads, and then asserts its
lease (`AssertsFence`) before each stage: `Completes`, `Bills`, the buyer's login and membership
(`FindsBuyer`, `CreatesUser`, `MailsSetup`, `AddsMember`), the welcome e-mail (`Reserves`, `Begins`,
`Sends`, `FinishesWelcome`), the announcement; it releases and answers. A call may throw at any stage
(`Throws`), a process may die (`Dies`) or stall (`LeaseAges`), and the timer refreshes the lease beside the
run (`TimerBeats`), also one already past its five minutes that nobody has taken.

Properties:
- `WelcomeMailedOnce`: over redelivery, takeovers and unclear answers; a send that began is never repeated.
- `TailFollowsBilling`: nobody gets a login, membership or e-mail for a purchase that was not billed.
- `AckedIsSettled`: an event is acknowledged only when the purchase is set up to the end, or was
  canceled or moved.
- `PaidIsCurrent`, `CanceledStaysClosed`: a payment that races with a cancel, a replacement or a late
  checkout counts for the current, uncanceled deal or for none.
- `PaidSettles` (liveness): redelivery gets every payment there, provided the rows agree on the client and the
  session.

Bounds: `purchase_activation` has one checkout, two deliveries at a time and one mishap (a throw, a
lost release, a crash or a stall), which is what a takeover needs. `purchase_changes` has two checkouts, two
requests of the representative, two agreements and one delivery at a time, without mishaps: the steps of
requests already interleave in every order. Fairness: strong for Stripe's redelivery of an event it got
no 200 for, on which the code's 503 relies; weak for a live process and for the clock that ages a lease.

Left out: the branches for the marked retail and enterprise cohorts, the success page and the
administrator's retry, embedded checkout, cancelling a subscription that the agreement replaces,
billing conflicts, and whether the setup e-mail went out.
Observed, without a property: two checkout requests of one agreement can each make a client and link it to one of
the two rows, after which every delivery of the payment fails on `activation_client_mismatch`; a late
checkout writes `checkout_pending` over a canceled or completed purchase; a cancel stops at Stripe's
error when the session has already expired; the hosted session an embedded checkout makes beside its own is not
recorded, so a cancel expires only one of them; the setup e-mail is lost if the run dies after it
created the login, because the next run finds it; the search for the login reads one page.

### CandidateAutomation

The invitations of one rule. State: `version` and `enabled` are the rule, `action[a]` and `approved` the rows
of `automation_actions` under their idempotency keys (a candidate and a version of the rule), `link` and
`linkOf` the tokens of links to one action, `status`, `slot`, `items` and `dtoken` the digest deliveries with
their tokens. `mails` and `inbox` are what the mail provider accepted, also where it answered with an error;
`told` records the verdicts that requests were told. `req[r]` is a request between two calls, with the row as
it read it.

Actions: evaluation and the insert behind its two unique indexes (`EvaluateRule`, `CreatePendingAction`); the
decision in the application (`ReadForReject`, `Reject`), by an action's link, which spends the token first
(`OpenLink`, `SpendLink`, `DecideByLink`), or by a digest's link (`ApproveDigestItem`,
`MarkDigestApprovalActionApproved`, `RejectDigestItem`); the send (`ReadForSend`, `ClaimSend`, `MailCandidate` and
its two final writes); the digest's run from `CollectDigest` to `MarkDigestDeliverySent`. Links expire at any
time and a request may stop between any two calls (`Abandon`).

Properties: `OneVerdict`, `InvitedOnce`, `OneLiveDigest`. Each is about rows that several routes write, each with a
condition on the state it expects; nothing else keeps two managers, a repeated digest and an edited rule
apart.

Bounds: one candidate, two versions of the rule (two actions compete for the candidate's slot), two requests, one
link, two digests for one day; 1.3 million states up to symmetry. No fairness: nothing is promised to happen.

Left out: editing of rules beyond a new version and the switch, the evaluator's conditions, scheduling and
time zones, the texts.
Observed, without a property: a process that stops between the claim of an action and its final write leaves it
`sending`, which no route sends, fails or rejects again, and the candidate's slot stays taken; a digest delivery
left `sending` blocks that day's digest and its mailed link is refused; an action whose invitation arrived
although the call failed is `failed`, and a later action may invite again, which `InvitedOnce` admits by name.

### SalesDeliveries

The announcements of one sale. State: `row[k]` is the delivery of kind `k` (status, attempts, lock token, whether
the lock is ten minutes old), `marked` the purchase's two markers, `review` the binding's
`manual_review_required`; `won`, `notes` and `posted` are what the CRM and Slack have. `job[j]` is an activation, an
administrator's reconciliation or retry, or a worker's run, between two calls.

Actions: reading the sale and inserting the missing rows (`ReadSale`, `InsertDelivery`, `InsertFails`,
`MarkEnqueued`); the claim of a batch under one lease (`Claim`), its rows one after the other (`NextDelivery`), the
calls of each (`PostSlack`; `CheckSale`, `MarkGhlOpportunityWon`, `ListNotes`, `EnsureGhlWinNote`,
`BindingWon`), the final writes that look at the lock token (`FinishDelivery`, `MarkGhlDeliveryFailure`,
`FailDelivery`), and the administrator's retry (`ResetFailedGhlDelivery`, `ResetBinding`). Leases age at any
time (`ExpireLease`); any call may fail, for now or, refused by Slack or the CRM, for good (`Refused`), or be done
and unanswered; a job may stop (`Abandon`).

Properties: `DeliveredIsThere` (what reads delivered is in Slack or in the CRM), `DeliveredIsFinal` (action property:
no late worker takes a delivered row back), `MissingIsListed` (a sale that lacks a row is still found by the
next worker).

Bounds: two jobs, a representative's message and the CRM's delivery, two attempts; 1.6 million states up to the
symmetry of jobs. Two jobs are what a lost lease needs. No fairness: a provider may refuse for ever.

Left out: `binding.status` apart from the review flag; the client's activity and the opportunity's being closed,
which are nondeterministic; adjacent reads are one.
Observed, without a property: the CRM's notes are listed and then written with nothing that ties the two to the
lease, and rows of a batch wait for their turn under one ten-minute lease, so two workers can write two
activation notes (`ghlSalesIntegration.js:459`), where `docs/ghl-sales-dashboard-integration.md:31` says that
duplicate jobs cannot; a worker that lost its lease still writes the binding's status
(`salesIntegrations.js:551`).

### SalesDeals

One opportunity of the CRM, from its events to a deal. State: `receipt[e]` is the receipt of an event's key (status,
owner, ten minutes old or not), `acked` the events whose sender was told that the import completed; `binding` is the
opportunity's row, `intent`, `preview` and `agreement` the rows of a deal under the id its request drew, `consumed`
the spent previews, `taken` the idempotency keys in progress or answered. `mailed`, `undone` and `lost` are
history.

Actions: a delivery reserves its receipt, fetches the opportunity, looks the binding up, inserts or refreshes it
and completes (`ReceiveEvent` ... `FinishReceipt`, `RejectEvent`); a creation reads the draft, reserves the key, checks
for conflicts, inserts the intent, claims the binding, inserts and sends the agreement, consumes the preview and
mails, one action per call (`ReadDraft` ... `AnswerKey`); a failure before the deal is ready undoes what was done
(`Cleanup`, `ReleaseKey`), each step once and with no error read. Cancellations (`CancelDeal`) and a stop anywhere
(`Stops`) run beside them. `InterviewCredits` and `SalesDeals` call their specifications `CreditSpec` and
`DealSpec`, so that a module can extend them next to another and prove about both.

Properties: `MailedIsWhole` (a deal whose signature request went out has its intent, agreement and link, whatever
imports come late), `FailureLeavesNothing` (a creation that reported failure left no link, intent or agreement,
calls that failed twice apart), `AckedIsImported` (the sender of an event hears "completed" only once the
opportunity is imported).

Bounds: two requests at a time, one event, two keys, one preview, two deals, one representative beside "none"; 1.2
million states up to symmetry. No fairness.

Left out: the events and audit rows a creation also writes, team ownership, several opportunities; the answer
stored under a key and its reservation are one set.
Observed, without a property: for a deal from the CRM the draft is resolved before the stored answer is looked up, so a
repeated request after success is answered 409 instead of the stored 201; an intent inserted with its answer
lost stays pending, blocks the buyer, and cannot be cancelled without its agreement
(`routes/sales/index.js:811`); an event is acknowledged with 202 "manual review" where there is no binding; an import
that fetched the owner earlier can overwrite a newer owner.

### RolePurchase

One client's role requests. State: `row[o]` and `final[o]` are the pending purchase of request `o`, `roles` the roles
inserted with what each was made for, `documented` those with job-description file and knowledge-base document,
`credit` the prepaid credits,
`session[o]` the embedded and the hosted checkout session at Stripe, `deduped` the events with a `billing_events`
row. `at[w]` is where a request or an event's handler stands; `unheard` are the roles whose insert was answered with
an error.

Actions: a request finds and claims a credit, creates the role and marks the credit used or gives it back
(`FindCredit` ... `UseCredit`); or inserts a purchase and opens the sessions, or finalizes at once for a client billed by
usage, trying twice (`InsertRow`, `OpenSessions`, `FinalizeUsage`, `RetryUsage`). Customers pay either
session or both, now or later (`Pay`, `Settle`). An event's handler reads the purchase, marks it paid or failed,
claims it or joins another handler's work (`JoinPurchase`), and runs the finalizer, `LookUpRole` to `FinalizeRow`.
A failing handler deletes its event's row (`EventFails`); a stopping one leaves it (`EventStops`).

Properties: `RolesWithinPayments`, `SettledAnswerHasRole`, `CreditBuysOneRole`.

Bounds: two requests, one credit, both sessions, two completed sessions in all (both of one request or one of
each); 900,000 states up to symmetry. No fairness: an event that is answered 200 early is not sent again, so
nothing is promised to every payment.

Left out: events of sessions that wait for their money (they change nothing), Stripe customers and prices, stored
session ids, replacement of a role's description.
Observed, without a property: nothing in the repository makes `roles.pending_role_purchase_id` unique, so two paid
sessions of one checkout that are finalized at the same time can make two roles, one for each payment; paid
one after the other they make one role for two payments; a repeated event is answered 200 while the first
delivery runs, and when that one stops the payment has no role (the dedupe of `NothingIsLost`); a declined
session fails the purchase, and the other session's payment then gets no role (`stripe.js:1239`); a request that
stops after it claimed a credit leaves it `claimed` for good; an insert whose answer was lost, with the credit given
back, leaves a role on a credit that is free again; a usage purchase that failed twice stays `finalizing`;
the answer to the write of a role's rubric and description text is not looked at (`generateRubric.js:554`), so a
purchase can be finalized, and its payment answered 200, with a role that has its document and no rubric. That
is why `SettledAnswerHasRole` promises the file and the document only, and `documented` says nothing of the rubric.

## Runs

| Run | Config | Expect | Shows |
|---|---|---|---|
| interview_recovery | InterviewRecovery.cfg | pass | safety and liveness of attempts and recovery |
| usage_invoicing | UsageInvoicing.cfg | pass | safety, refinement and liveness of usage billing |
| usage_invoicing_lost_event | UsageInvoicingCrash.cfg | violation | NothingIsLost |
| transcript_reconciliation | TranscriptReconciliation.cfg | pass | safety and liveness of the final transcript |
| interview_credits | InterviewCredits.cfg | pass | credits and when the history of payers is final |
| sms_delivery | SmsDelivery.cfg | pass | the spend cap, accepted messages, webhooks in any order |
| purchase_activation | PurchaseActivation.cfg | pass | overlapping, failing and dying activations of a payment |
| purchase_changes | PurchaseActivationChanges.cfg | pass | payment against checkout, cancel and replace requests |
| candidate_automation | CandidateAutomation.cfg | pass | one verdict, one invitation and one live digest over three routes |
| sales_deliveries | SalesDeliveries.cfg | pass | the outbox under lost answers, expired leases and retries |
| sales_deals | SalesDeals.cfg | pass | imports and deal creations that overlap, fail and are undone |
| role_purchase | RolePurchase.cfg | pass | roles against payments and credits |

Deadlock is checked where a system can always go on (`CandidateAutomation`, `SalesDeliveries`,
`SalesDeals`: their clocks, retries and rule changes never end). In the other models the work runs
out (requests, interviews, months, sends and payments are finite) and the system may rest there. Each
property of a passing run has a mutant in `PROJECT.json`, a plausible bug in the code it models, under
which TLC finds the property violated. The type invariants take no place among the properties of
the runs: they are theorems (see "Proofs").

## Proofs

`InterviewRecovery_proofs` proves for any number of requests and reconciliation runs: `TypeOK`,
`OneActiveAttempt`, `OneReplacementConversation`, `FailedMeansNothingAccepted`, `BoundIsOwn`,
`StartCoupling`, `StartsCountClaims` and the action property `SettledIsFinal`.

The argument. None of these is inductive: that no second conversation is created needs to know who
may still create one. `IInv` adds what the program counters say about a request's create call
(`CallsInv`), that whoever has not finished with the replacement, or has a call at the vendor, holds
the claim token (`HolderInv`), that every conversation written anywhere is of the right attempt
(`RecordsInv`), and that a replacement being started is still "Starting" (`StartInv`). From
`HolderInv`, two conversations of the replacement have the same holder, so they are one. There is one
lemma per part, each with one step per group of actions. `StartsCountClaims` is carried by a separate
invariant that relates the counter to the cardinality of the claimed requests, with the finite-set
theorems; it needs that the set of requests is finite, an assumption of the module.

`SmsDelivery_proofs` proves for any finite set of requests and any cap: `TypeOK`, `SentWithinCap`,
`AcceptedIsTraceable`, `NewestEventShows`, `RedeliveredTextsAreInert` and the action property
`StatusNeverRegresses`.

The argument. What a request has learned must agree, at every place it can stop, with what the provider
did (`Placed`), with the money held for it (`Booked`), with the row its webhooks look for (`Accepted`) and
with a row nothing was written to yet (`Blank`); `Sound(s)` is the four together, and a step of one
request leaves the others sound. `Booked` says that a message the provider took without misreporting
it still has its reservation, so the messages of a day are among the reservations of that day, and
`BookedWithinCap`, which `ReservesSpend` keeps by its guard, bounds those. The comparison of the two sets uses the
finite-set theorems, hence the assumption that requests are finitely many. `NewestEventShows` has an
invariant of its own, `EventInv`: what a row shows is what its request recorded or the event it names, and an
event that was posted and is not shown is a replay, an older one or was overtaken by a newer one.
`RedeliveredTextsAreInert` is inductive with the types alone.

`Sales_proofs` proves of `SalesDeliveries`, for any set of jobs, any of the three kinds of row and any limit of
attempts: `TypeOK`, `DeliveredIsThere`, `MissingIsListed` and the action property `DeliveredIsFinal`.

The argument. A worker whose lease was taken over goes on calling the provider, so what it may write
cannot rest on its holding the row. `Seen(j)` says what a worker's place implies about the providers (one
that is about to write "delivered" has seen the message posted, or the opportunity won and noted); the
providers never take anything back (`Grows`), so no other job disturbs it. `Exist(j)` says the rows a job
has inserted, claimed or works on exist, `Untouched` that a missing row is as no job touched it, and
`Unlocked` that a row which is not being delivered has no lock: from it a row that reads delivered is
written by nobody, since every write of a worker asks for its own token in the lock. That last step is
where the assumption that no job is `None` is needed. Each group of actions has a lemma: `EnqueueStep`,
`ClaimStep`, `CallStep`, `SettleStep`, `ResetStep`.

Of `SalesDeals` it proves, for any requests, representatives, events, keys, previews and deals: types,
`MailedIsWhole`, `FailureLeavesNothing` and `AckedIsImported`. It assumes that a null column names no deal and no
representative.

The argument. Nothing is locked and no transaction spans a creation, but a request draws an id that no other
has. So each deal has one owner (`Owns`), and the owner's place says how much of the deal is made (`Making`) or, after a
failure, still to be unmade (`Unmaking`, unless an answer that matters was lost); a cancellation may come between at
any point, and `DealSound` allows for it. The binding's link moves only between null and its owner's deal, since an
import refreshes only a binding without a link (`Linked`), and nothing takes a binding back to none (`Known`).
Each action has a lemma, under generic ones for a request that moves and leaves the other deals as they are.

`RolePurchase_proofs` proves for any finite sets of orders, credits and sessions and any bound on
payments: `TypeOK`, `RolesWithinPayments`, `SettledAnswerHasRole` and `CreditBuysOneRole`.

The argument. Nobody holds a lock on a purchase, so a handler's conclusions rest on what only grows: roles
and their links, the roles that are documented, payments, and a row's way to failed or finalized. `WorkerSound`
says what a place implies in those terms -- a handler that found the row taken (`recheck`) is past the
pending states for good, one that finalizes has a linked and documented role -- and `FinalSound` that a
finalized row names such a role. `RolesWithinPayments` is not inductive: between a handler's lookup and its
insert the role is not there yet. `Counted` adds the handlers about to insert (`Creating`): a lookup only
lets a handler through when there is no role, and then those handlers are at most the paid sessions, one
event each. `CreditsSound` says who holds a credit is alone with it and knows the role made on it. The module
assumes that an order is not an event, so that a worker is one or the other.

`Billing_proofs` proves of `UsageInvoicing`, for any interviews, roles, cycles, runs and items:
`TypeOK`, `NoDoubleCharge`, `StampedMeansCharged`, that the module implements `ChargeLedger`
(`ImplementsChargeLedger`), and that what a retry finds unstamped is whole price groups.

The argument. Stripe refuses a second item only under the same idempotency key, which names the
interviews of a price group: two attempts must compute the same groups. An invoice reserves once, when
it has no row yet, so the price groups of its rows never change, and its items are for these
(`ItemsWhole`); the rows of a group are stamped together (`StampedWhole`), so a retry's unstamped rows
are whole groups, with the keys of the first try. `WorkersSound` says the same of what a handler holds
between two calls. The refinement maps each step to a step of the ledger or a stutter, under that
invariant.

Of `InterviewCredits` it proves, for any roles, interviews, requests and allowance: types,
`OneLiveCredit` and the action property `SettledPayersStay`; and that the replay overdraws no credit and
no allowance (`NothingIsOverdrawn`, which no run checks). It assumes that a client has finitely many
interviews.

The argument. `OneLiveCredit` is the unique index: a credit is inserted only where none is live, and a
revocation is not undone. The others are about `Replay`, a recursive function of time. That its
recursion has a solution (`ReplayUnfolds`) and what holds of it at every time are shown with
`TimesInduction`, where a least time at which it failed would be the successor of one at which it held;
its least element comes from the well-foundedness of the naturals, a theorem about a set and not about
an operator. For a settled interview ordered at `K`, every step changes roles, interviews and credits
only in ways that no time up to `K` sees, so the replay up to `K` is the same function (`PayerKept`,
`PastKept`, one lemma per group of actions), and nothing that could still change it begins before now.
That needs three facts of the invariant (`TimesSound`): only what is over is dated, what is not dated is
ordered no earlier than it ended, and no two interviews at one time; the last is also why nothing is
overdrawn.

`TranscriptReconciliation_proofs` proves for any handlers, any texts and what they show: `TypeOK`,
`AcknowledgedIsCovered`, that at most one handler at work holds the claim, and the action properties
`NothingWeakens` and `DownstreamFollowsAuthority`.

The argument. A lease can run out under a slow handler, so being at work proves little. `Tokens` says
that a handler at work has the token of a claim that was granted, and no other handler the same one;
`ClaimSound` that a claimed text is one that the authority does not outweigh; `Covered` that the row
shows the evidence of the authority and of each text that was finalized and is about to be acknowledged.
Finalization compares the token and looks at the row's evidence again, so a handler whose claim was
taken over writes nothing. `AnalysisBound` keeps the versions of analyses behind those of claims.

`CandidateAutomation_proofs` proves for any candidates, requests, links, digests and slots: types,
`OneVerdict`, `InvitedOnce` and `OneLiveDigest`.

The argument. No lock is held: each write names the state it expects, and a row never returns to a state
it has left. `ActionsSound` says what the state of an action tells of its decision, its e-mail and what
was told about it, `DigestsSound` the same of a digest; `RequestsSound` what a place implies of the row
a request works on; and `ClaimsUnique` that an action or a digest that is being sent has one claimant,
who alone takes it on. `OneActive` and `OnePerSlot` are the two unique indexes.

`PurchaseActivation_proofs` proves for any sets of checkouts, deliveries and requests of the
representative, and any bounds: `TypeOK`, `PaidIsCurrent`, `TailFollowsBilling`, `WelcomeMailedOnce`,
`AckedIsSettled` and the action property `CanceledStaysClosed`.

The argument. The leases of this flow protect little, because a worker goes on when its lease has run
out. What a worker concludes rests on what only grows (`Grown`, `PeopleGrown`): the deal moves on to
later agreements, and a payment, an activation, a billing, a membership and a begun welcome are never
taken back. `DealSound`, `CheckoutsSound`, `SalesSound`, `SessionsSound` and `EventsSound` relate the
rows to one another and to Stripe, `WorkersSound` a worker's place to them. Only the welcome needs a
holder: `OneSender` says that one worker at most is about to mail it.

All proofs rest on the named assumptions of the constants, which TLC evaluates on every run, and on
nothing else.

Not proved, only model-checked: liveness under fairness, which is outside the prover's reach. Every
invariant and action property of the passing runs is a theorem.

## Not modelled, and the next steps

The parts marked `not_modelled` in `PROJECT.json` are left out for now; those that are planned:

1. `OtpChallenge`: issue, delivery results, verification, consumption and recovery of one-time
   passwords, with the single-live-challenge rule.
2. `InterviewEnding`: the writers of the status column and the early-end timer. Two end requests both
   read a live status, both call the vendor's end and both write the status unconditionally
   (`routes/public/tavus.js:191`).
3. Candidate submission, text interviews (an insert whose unique-index error is not read still marks the
   candidate completed, `routes/public/textInterview.js:968`), support voice sessions.
4. Job-description replacement and purchases of additional interviews, next to `RolePurchase`; the voice
   handoff and the sync of team members, next to `SalesDeals`.

Authentication, reports, metrics, health checks, layout and vendor data conversions have no state of
their own that interleaves, and stay out.
