------------------------- MODULE PurchaseActivation -------------------------
(***************************************************************************)
(* One sales-assisted purchase, from its agreement to the buyer's account. *)
(*                                                                         *)
(* The buyer signs, opens a checkout and pays.  Stripe then posts two      *)
(* events about the payment, the session's and the invoice's, each again   *)
(* and again until it is acknowledged, and each delivery runs the whole    *)
(* activation: claim the purchase under a five minute lease, complete it,  *)
(* apply the billing, set up the buyer's login and membership, send the    *)
(* welcome e-mail, release the lease.  Runs overlap, stall, fail and die.  *)
(* Meanwhile the sales representative cancels the deal or replaces its     *)
(* expired agreement, and the buyer may have asked for more than one       *)
(* checkout.                                                               *)
(*                                                                         *)
(* The model follows purchases without the later retail terms, whose       *)
(* checkout and billing go through functions of their own, and a checkout  *)
(* that is not embedded.  A claim key is random and never used again, and  *)
(* so is a welcome token: the worker that made it stands for it.           *)
(* Agreements are numbered in the order they are issued; the number also   *)
(* names the checkout session that its idempotency key allows.  A checkout *)
(* request makes at most one client, and its name stands for that client.  *)
(***************************************************************************)
EXTENDS Integers, FiniteSets

CONSTANTS Checkouts,      \* the buyer's checkout requests
          Workers,        \* the webhook deliveries that can be in progress at once
          MaxAgreements,  \* bound on the agreements the deal is issued
          Requests,       \* the representative's cancel and replace requests
          MaxMishaps,     \* bound on stalls, lost calls and crashes
          None

ASSUME ActorAssumption ==
  /\ IsFiniteSet(Workers)
  /\ None \notin Workers /\ None \notin Checkouts /\ None \notin Nat
ASSUME BoundAssumption ==
  MaxAgreements \in Nat \ {0} /\ MaxMishaps \in Nat

VARIABLES intent,     \* the row of public_purchase_intents
          agreement,  \* the rows of membership_agreements issued for it
          session,    \* Stripe's checkout session for each agreement
          event,      \* the two payment events of each agreement
          worker,     \* where each delivery's run is
          checkout,   \* where each checkout request is
          sales,      \* where each of the representative's requests is
          buyer,      \* the buyer's login and membership, and the sale announced
          welcome,    \* the welcome row of email_delivery_events and the e-mails sent
          mishaps

rows == <<intent, agreement>>
stripe == <<session, event>>
people == <<buyer, welcome>>
vars == <<rows, stripe, worker, checkout, sales, people, mishaps>>

Agreements == 1..MaxAgreements
Events == {"session", "invoice"}

Coalesce(x, y) == IF x # None THEN x ELSE y

IdleWorker == [pc |-> "idle", agreement |-> 1, event |-> "session", client |-> None,
               fenced |-> FALSE, lost |-> FALSE, ok |-> FALSE]
IdleCheckout == [pc |-> "idle", agreement |-> 1, client |-> None]
IdleSales == [pc |-> "idle", agreement |-> 1, session |-> None, client |-> None]
Issued(status, client) == [status |-> status, expired |-> FALSE, checkout |-> "none",
                           paid |-> FALSE, session |-> None, client |-> client]

Init ==
  /\ intent = [agreement |-> 1, status |-> "agreement_pending", canceled |-> FALSE,
               activated |-> FALSE, session |-> None, client |-> None,
               key |-> None, lease |-> "none", billed |-> FALSE]
  /\ agreement = [a \in Agreements |-> Issued(IF a = 1 THEN "sent" ELSE "none", None)]
  /\ session = [a \in Agreements |-> [status |-> "none", client |-> None]]
  /\ event = [a \in Agreements |-> [e \in Events |-> "none"]]
  /\ worker = [w \in Workers |-> IdleWorker]
  /\ checkout = [c \in Checkouts |-> IdleCheckout]
  /\ sales = [r \in Requests |-> IdleSales]
  /\ buyer = [user |-> FALSE, member |-> FALSE, won |-> FALSE]
  /\ welcome = [status |-> "none", token |-> None, sends |-> 0]
  /\ mishaps = 0

Mishap == mishaps < MaxMishaps /\ mishaps' = mishaps + 1
NoMishap == UNCHANGED mishaps

(***************************************************************************)
(* The buyer.                                                              *)
(***************************************************************************)
(* Signing makes an agreement the current one; is_current is not kept apart
   from the status, since both change together. *)
Signs(a) ==
  /\ agreement[a].status = "sent" /\ ~agreement[a].expired
  /\ agreement' = [agreement EXCEPT ![a].status = "signed"]
  /\ UNCHANGED <<intent, stripe, worker, checkout, sales, people, mishaps>>

(* An agreement passes its deadline; the last one the bound allows does not. *)
Expires(a) ==
  /\ agreement[a].status \in {"sent", "signed"} /\ ~agreement[a].expired /\ a < MaxAgreements
  /\ agreement' = [agreement EXCEPT ![a].expired = TRUE]
  /\ UNCHANGED <<intent, stripe, worker, checkout, sales, people, mishaps>>

(* POST /checkout-session, in the order of its awaits.  The client it will
   bill is the one either row it read is linked to, or a new one. *)
OpensCheckout(c, a) ==
  /\ checkout[c].pc = "idle"
  /\ agreement[a].status = "signed" /\ agreement[a].checkout # "paid" /\ ~agreement[a].expired
  /\ intent.agreement = a /\ intent.status \in {"agreement_pending", "checkout_pending"}
  /\ LET client == Coalesce(Coalesce(agreement[a].client, intent.client), c)
         next == IF agreement[a].client = None THEN "agreement"
                 ELSE IF intent.client # client THEN "intent" ELSE "create"
     IN  checkout' = [checkout EXCEPT ![c] = [pc |-> next, agreement |-> a, client |-> client]]
  /\ UNCHANGED <<rows, stripe, worker, sales, people, mishaps>>

LinksAgreement(c) ==
  /\ checkout[c].pc = "agreement"
  /\ agreement' = IF agreement[checkout[c].agreement].status = "signed"
                  THEN [agreement EXCEPT ![checkout[c].agreement].client = checkout[c].client]
                  ELSE agreement
  /\ checkout' = [checkout EXCEPT ![c].pc = IF checkout[c].client = c THEN "intent" ELSE "create"]
  /\ UNCHANGED <<intent, stripe, worker, sales, people, mishaps>>

LinksIntent(c) ==
  /\ checkout[c].pc = "intent"
  /\ intent' = [intent EXCEPT !.client = checkout[c].client]
  /\ checkout' = [checkout EXCEPT ![c].pc = "create"]
  /\ UNCHANGED <<agreement, stripe, worker, sales, people, mishaps>>

(* The idempotency key names the agreement: Stripe answers the same request
   with the same session, and refuses it for another client. *)
CreatesSession(c) ==
  LET a == checkout[c].agreement
  IN  /\ checkout[c].pc = "create" /\ session[a].client \in {None, checkout[c].client}
      /\ session' = [session EXCEPT ![a].client = checkout[c].client,
                                    ![a].status = IF @ = "none" THEN "open" ELSE @]
      /\ checkout' = [checkout EXCEPT ![c].pc = "record"]
      /\ UNCHANGED <<rows, event, worker, sales, people, mishaps>>

SessionRefused(c) ==
  /\ checkout[c].pc = "create" /\ session[checkout[c].agreement].status # "none"
  /\ checkout' = [checkout EXCEPT ![c].pc = "done"]
  /\ UNCHANGED <<rows, stripe, worker, sales, people, mishaps>>

RecordsAgreement(c) ==
  LET a == checkout[c].agreement
  IN  /\ checkout[c].pc = "record"
      /\ agreement' = IF agreement[a].status = "signed"
                      THEN [agreement EXCEPT ![a].checkout = "pending", ![a].session = a]
                      ELSE agreement
      /\ checkout' = [checkout EXCEPT ![c].pc = "finish"]
      /\ UNCHANGED <<intent, stripe, worker, sales, people, mishaps>>

(* The last write of the request, which looks at nothing it overwrites. *)
FinishesCheckout(c) ==
  /\ checkout[c].pc = "finish"
  /\ intent' = [intent EXCEPT !.status = "checkout_pending", !.client = checkout[c].client,
                              !.session = checkout[c].agreement]
  /\ checkout' = [checkout EXCEPT ![c].pc = "handed"]
  /\ UNCHANGED <<agreement, stripe, worker, sales, people, mishaps>>

(* A call of the request fails, or its process dies. *)
CheckoutFails(c) ==
  /\ checkout[c].pc \notin {"idle", "handed", "done"} /\ Mishap
  /\ checkout' = [checkout EXCEPT ![c].pc = "done"]
  /\ UNCHANGED <<rows, stripe, worker, sales, people>>

(* The buyer pays a session that a request has answered with, and Stripe has
   two events to deliver. *)
Pays(a) ==
  /\ session[a].status = "open"
  /\ \E c \in Checkouts : checkout[c].pc = "handed" /\ checkout[c].agreement = a
  /\ session' = [session EXCEPT ![a].status = "paid"]
  /\ event' = [event EXCEPT ![a] = [e \in Events |-> "pending"]]
  /\ UNCHANGED <<rows, worker, checkout, sales, people, mishaps>>

(* A session ends unpaid a day after it was created, or at the deadline. *)
SessionLapses(a) ==
  /\ session[a].status = "open"
  /\ session' = [session EXCEPT ![a].status = "expired"]
  /\ UNCHANGED <<rows, event, worker, checkout, sales, people, mishaps>>

(***************************************************************************)
(* The sales representative.  Both requests read the deal, then expire the *)
(* session at Stripe, then call a transaction that checks the rows again.  *)
(***************************************************************************)
LeaseHeld == intent.lease = "fresh"

StartsCancel(r) ==
  /\ sales[r].pc = "idle"
  /\ intent.status # "completed" /\ ~intent.activated
  /\ agreement[intent.agreement].checkout # "paid"
  /\ sales' = [sales EXCEPT ![r] = [pc |-> "expire_cancel", agreement |-> intent.agreement,
                                    session |-> intent.session, client |-> None]]
  /\ UNCHANGED <<rows, stripe, worker, checkout, people, mishaps>>

StartsReplace(r) ==
  LET a == intent.agreement
  IN  /\ sales[r].pc = "idle" /\ a + 1 \in Agreements
      /\ agreement[a].status \in {"sent", "signed"} /\ agreement[a].checkout # "paid"
      /\ agreement[a].expired
      /\ sales' = [sales EXCEPT ![r] = [pc |-> "expire_replace", agreement |-> a,
                     session |-> Coalesce(intent.session, agreement[a].session),
                     client |-> Coalesce(agreement[a].client, intent.client)]]
      /\ UNCHANGED <<rows, stripe, worker, checkout, people, mishaps>>

(* Stripe expires an open session only.  A cancel request stops at the error
   for any other; a replacement looks first and goes on unless it is paid. *)
ExpiresSession(r) ==
  LET seen == sales[r].session
      status == IF seen = None THEN "missing" ELSE session[seen].status
      goes == status \in {"missing", "open"} \/ (sales[r].pc = "expire_replace" /\ status = "expired")
  IN  /\ sales[r].pc \in {"expire_cancel", "expire_replace"}
      /\ session' = IF status = "open" THEN [session EXCEPT ![seen].status = "expired"] ELSE session
      /\ sales' = [sales EXCEPT ![r].pc = IF ~goes THEN "done"
                                          ELSE IF @ = "expire_cancel" THEN "cancel" ELSE "replace"]
      /\ UNCHANGED <<rows, event, worker, checkout, people, mishaps>>

(* Mutant: the transaction trusts what the request read. *)
CancelableAsRead(r) ==
  intent.agreement = sales[r].agreement /\ agreement[sales[r].agreement].status # "superseded"

(* cancel_sales_assisted_purchase; it raises, and changes nothing, when the
   agreement is paid or superseded. *)
Cancelable(r) ==
  /\ intent.agreement = sales[r].agreement
  /\ intent.status \notin {"completed", "canceled"} /\ ~intent.activated /\ ~LeaseHeld
  /\ agreement[sales[r].agreement].checkout # "paid"
  /\ agreement[sales[r].agreement].status # "superseded"

Cancels(r) ==
  /\ sales[r].pc = "cancel"
  /\ IF Cancelable(r)
     THEN /\ intent' = [intent EXCEPT !.status = "canceled", !.canceled = TRUE,
                                      !.key = None, !.lease = "none"]
          /\ agreement' = [agreement EXCEPT ![sales[r].agreement].status = "voided"]
     ELSE UNCHANGED rows
  /\ sales' = [sales EXCEPT ![r].pc = "done"]
  /\ UNCHANGED <<stripe, worker, checkout, people, mishaps>>

(* Mutant: a voided agreement can be replaced. *)
NotYetReplaced(r) == agreement[sales[r].agreement].status # "superseded"

(* replace_sales_assisted_agreement *)
OldIsReplaceable(r) == agreement[sales[r].agreement].status \in {"sent", "signed"}

Replaceable(r) ==
  /\ intent.agreement = sales[r].agreement
  /\ intent.status # "completed" /\ ~intent.activated /\ ~LeaseHeld
  /\ OldIsReplaceable(r) /\ agreement[sales[r].agreement].checkout # "paid"

Replaces(r) ==
  LET old == sales[r].agreement
  IN  /\ sales[r].pc = "replace"
      /\ IF Replaceable(r)
         THEN /\ intent' = [intent EXCEPT !.agreement = old + 1, !.status = "agreement_pending",
                                          !.session = None, !.key = None, !.lease = "none"]
              /\ agreement' = [agreement EXCEPT ![old].status = "superseded",
                                                ![old + 1] = Issued("sent", sales[r].client)]
         ELSE UNCHANGED rows
      /\ sales' = [sales EXCEPT ![r].pc = "done"]
      /\ UNCHANGED <<stripe, worker, checkout, people, mishaps>>

(***************************************************************************)
(* A delivery of a payment event.                                          *)
(***************************************************************************)
Delivers(w, a, e) ==
  /\ worker[w].pc = "idle" /\ event[a][e] = "pending"
  /\ worker' = [worker EXCEPT ![w] = [IdleWorker EXCEPT !.pc = "claim", !.agreement = a, !.event = e]]
  /\ UNCHANGED <<rows, stripe, checkout, sales, people, mishaps>>

(* claim_public_purchase_activation.  A purchase that moved to another
   agreement or was canceled is acknowledged; one that another run has
   claimed is answered 503, and Stripe delivers the event again.  (A replaced
   agreement has no purchase any more, and its run goes on without a claim,
   to stop with the same answer at the first row it reads.) *)
Moved(a) == intent.agreement # a \/ agreement[a].status \in {"superseded", "voided"}
Closed == intent.status = "canceled" \/ intent.canceled
(* Mutant: a lease left behind is never taken over. *)
ClaimableIfNone == intent.lease = "none"

Claimable == intent.lease # "fresh"

Claims(w) ==
  /\ worker[w].pc = "claim"
  /\ IF Moved(worker[w].agreement) \/ Closed
     THEN /\ worker' = [worker EXCEPT ![w].pc = "answer", ![w].ok = TRUE]
          /\ UNCHANGED intent
     ELSE IF Claimable
     THEN /\ worker' = [worker EXCEPT ![w].pc = "load"]
          /\ intent' = [intent EXCEPT !.key = w, !.lease = "fresh"]
     ELSE /\ worker' = [worker EXCEPT ![w] = IdleWorker]
          /\ UNCHANGED intent
  /\ UNCHANGED <<agreement, stripe, checkout, sales, people, mishaps>>

(* The stages of the run, each behind an assertion of the lease, in order. *)
Stages == {"complete", "bill", "account", "create", "mail", "member", "reserve", "begin",
           "send", "announce"}
Claimed == {"load", "finish_sent", "finish_skipped", "release"} \cup Stages

Moves(w, pc) == worker' = [worker EXCEPT ![w].pc = pc, ![w].fenced = FALSE]
Succeeds(w) == worker' = [worker EXCEPT ![w].pc = "release", ![w].fenced = FALSE, ![w].ok = TRUE]
(* Mutant: an error is logged and the delivery acknowledged. *)
FailsQuietly(w) == Succeeds(w)

Fails(w) == Moves(w, "release")

(* The run reads the rows once more.  Its client is the one either row is
   linked to, or the one in the session's metadata. *)
Loads(w) ==
  LET a == worker[w].agreement
      client == Coalesce(Coalesce(agreement[a].client, intent.client), session[a].client)
  IN  /\ worker[w].pc = "load"
      /\ IF agreement[a].status = "superseded" \/ intent.agreement # a \/ Closed THEN Succeeds(w)
         ELSE worker' = [worker EXCEPT ![w].pc = "complete", ![w].client = client]
      /\ UNCHANGED <<rows, stripe, checkout, sales, people, mishaps>>

(* heartbeat_public_purchase_activation makes even a lease past its five
   minutes fresh, as long as nobody else has taken it. *)
Beats(w) == intent.key = w /\ ~Closed
Refresh(w) == intent' = IF Beats(w) THEN [intent EXCEPT !.lease = "fresh"] ELSE intent

AssertsFence(w) ==
  /\ worker[w].pc \in Stages /\ ~worker[w].fenced
  /\ Refresh(w)
  /\ worker' = IF Beats(w) /\ ~worker[w].lost THEN [worker EXCEPT ![w].fenced = TRUE]
               ELSE [worker EXCEPT ![w].pc = "release", ![w].lost = TRUE]
  /\ UNCHANGED <<agreement, stripe, checkout, sales, people, mishaps>>

(* The timer beats beside the run, every thirty seconds. *)
TimerBeats(w) ==
  /\ worker[w].pc \in Claimed \ {"release"} /\ ~worker[w].lost
  /\ Refresh(w)
  /\ worker' = IF Beats(w) THEN worker ELSE [worker EXCEPT ![w].lost = TRUE]
  /\ UNCHANGED <<agreement, stripe, checkout, sales, people, mishaps>>

AtStage(w, stage) == worker[w].pc = stage /\ worker[w].fenced
HoldsLease(w) == intent.key = w /\ intent.lease = "fresh"

(* complete_public_purchase_activation *)
Current(a) == intent.agreement = a /\ agreement[a].status = "signed"
Given(w) == IF worker[w].event = "session" THEN worker[w].agreement ELSE None
Recorded(w) == Coalesce(intent.session, Given(w))
SessionsAgree(w) ==
  /\ Recorded(w) # None
  /\ Given(w) \in {None, Recorded(w)}
  /\ agreement[worker[w].agreement].session \in {None, Recorded(w)}
ClientsAgree(a) ==
  \/ agreement[a].client = None
  \/ intent.client \in {None, agreement[a].client}

Completable(w) ==
  LET a == worker[w].agreement
  IN  Current(a) /\ ~Closed /\ HoldsLease(w) /\ SessionsAgree(w) /\ ClientsAgree(a)

Completes(w) ==
  LET a == worker[w].agreement
      client == Coalesce(Coalesce(agreement[a].client, intent.client), worker[w].client)
  IN  /\ AtStage(w, "complete")
      /\ IF Completable(w)
         THEN /\ agreement' = [agreement EXCEPT
                   ![a] = [agreement[a] EXCEPT !.client = client, !.checkout = "paid", !.paid = TRUE,
                                               !.session = Coalesce(@, Given(w))]]
              /\ intent' = [intent EXCEPT !.client = client, !.status = "completed",
                                          !.activated = TRUE, !.session = Coalesce(@, Given(w))]
              /\ worker' = [worker EXCEPT ![w].pc = "bill", ![w].fenced = FALSE, ![w].client = client]
         ELSE Fails(w) /\ UNCHANGED rows
      /\ UNCHANGED <<stripe, checkout, sales, people, mishaps>>

(* apply_public_purchase_billing; applying it again changes nothing. *)
Billable(w) ==
  /\ HoldsLease(w) /\ intent.status = "completed" /\ ~intent.canceled
  /\ intent.client = worker[w].client
  /\ LET current == agreement[intent.agreement]
     IN  current.client = worker[w].client /\ current.checkout = "paid" /\ current.status = "signed"

(* Mutant: a refused billing does not stop the run. *)
BillsIfItCan(w) ==
  /\ AtStage(w, "bill")
  /\ Moves(w, "account")
  /\ intent' = IF Billable(w) THEN [intent EXCEPT !.billed = TRUE] ELSE intent
  /\ UNCHANGED <<agreement, stripe, checkout, sales, people, mishaps>>

Bills(w) ==
  /\ AtStage(w, "bill")
  /\ IF Billable(w) THEN Moves(w, "account") /\ intent' = [intent EXCEPT !.billed = TRUE]
     ELSE Fails(w) /\ UNCHANGED intent
  /\ UNCHANGED <<agreement, stripe, checkout, sales, people, mishaps>>

(* One page of the logins is searched for the buyer's, and an error counts as
   not found. *)
FindsBuyer(w) ==
  /\ AtStage(w, "account")
  /\ \/ buyer.user /\ Moves(w, "member")
     \/ Moves(w, "create")
  /\ UNCHANGED <<rows, stripe, checkout, sales, people, mishaps>>

CreatesUser(w) ==
  /\ AtStage(w, "create")
  /\ buyer' = [buyer EXCEPT !.user = TRUE]
  /\ \E next \in {"mail", "member"} : Moves(w, next)  \* with or without an action link
  /\ UNCHANGED <<rows, stripe, checkout, sales, welcome, mishaps>>

(* Whether the setup e-mail is accepted or fails is only reported. *)
MailsSetup(w) ==
  /\ AtStage(w, "mail")
  /\ Moves(w, "member")
  /\ UNCHANGED <<rows, stripe, checkout, sales, people, mishaps>>

(* locked_purchase_context, which every write of the tail begins with. *)
ContextReady(w) ==
  /\ HoldsLease(w) /\ intent.status = "completed" /\ ~intent.canceled
  /\ intent.client # None /\ intent.billed
  /\ LET current == agreement[intent.agreement]
     IN  current.client = intent.client /\ current.checkout = "paid" /\ current.status = "signed"

AddsMember(w) ==
  /\ AtStage(w, "member")
  /\ IF ContextReady(w) THEN Moves(w, "reserve") /\ buyer' = [buyer EXCEPT !.member = TRUE]
     ELSE Fails(w) /\ UNCHANGED buyer
  /\ UNCHANGED <<rows, stripe, checkout, sales, welcome, mishaps>>

(* An e-mail whose sending began is never sent again: what became of it is
   for an operator to find out. *)
(* Mutant: a send that was never recorded as finished is tried again. *)
ReservableIfNotSent == welcome.status \in {"none", "reserved", "sending"}

Reservable == welcome.status \in {"none", "reserved"}

Reserves(w) ==
  /\ AtStage(w, "reserve")
  /\ IF ~ContextReady(w) THEN Fails(w) /\ UNCHANGED welcome
     ELSE IF Reservable
     THEN Moves(w, "begin") /\ welcome' = [welcome EXCEPT !.status = "reserved"]
     ELSE Moves(w, "announce") /\ UNCHANGED welcome
  /\ UNCHANGED <<rows, stripe, checkout, sales, buyer, mishaps>>

Begins(w) ==
  /\ AtStage(w, "begin")
  /\ IF ContextReady(w) /\ welcome.status = "reserved"
     THEN Moves(w, "send") /\ welcome' = [welcome EXCEPT !.status = "sending", !.token = w]
     ELSE Fails(w) /\ UNCHANGED welcome
  /\ UNCHANGED <<rows, stripe, checkout, sales, buyer, mishaps>>

(* SendGrid accepts the e-mail, or a switch skips it, or the answer is
   unclear whether it was accepted or not. *)
Sends(w) ==
  /\ AtStage(w, "send")
  /\ \E accepted, clear \in BOOLEAN :
       /\ welcome' = [welcome EXCEPT !.sends = @ + IF accepted THEN 1 ELSE 0]
       /\ Moves(w, IF ~clear THEN "announce" ELSE IF accepted THEN "finish_sent" ELSE "finish_skipped")
  /\ UNCHANGED <<rows, stripe, checkout, sales, buyer, mishaps>>

(* The send's outcome is recorded for its token, whoever has the lease by now.
   An error here is swallowed, and the row stays "sending". *)
FinishesWelcome(w) ==
  /\ worker[w].pc \in {"finish_sent", "finish_skipped"}
  /\ \/ /\ welcome' = IF welcome.status = "sending" /\ welcome.token = w
                      THEN [welcome EXCEPT !.status = IF worker[w].pc = "finish_sent" THEN "sent"
                                                      ELSE "skipped"]
                      ELSE welcome
        /\ NoMishap
     \/ UNCHANGED welcome /\ Mishap
  /\ Moves(w, "announce")
  /\ UNCHANGED <<rows, stripe, checkout, sales, buyer>>

(* The sale is announced once, and not for a deal that is no longer complete. *)
Announces(w) ==
  /\ AtStage(w, "announce")
  /\ buyer' = [buyer EXCEPT !.won = @ \/ (intent.status = "completed" /\ intent.activated /\ intent.billed)]
  /\ Succeeds(w)
  /\ UNCHANGED <<rows, stripe, checkout, sales, welcome, mishaps>>

(* A call of the run throws, or answers with an error the run throws. *)
Throws(w) ==
  /\ worker[w].pc \in {"load"} \cup Stages /\ Mishap
  /\ Fails(w)
  /\ UNCHANGED <<rows, stripe, checkout, sales, people>>

(* release_public_purchase_activation, in the finally block; an error there
   is logged only.  A run whose lease was seen lost throws all the same. *)
Releases(w) ==
  /\ worker[w].pc = "release"
  /\ \/ /\ intent' = IF intent.key = w THEN [intent EXCEPT !.key = None, !.lease = "none"] ELSE intent
        /\ NoMishap
     \/ UNCHANGED intent /\ Mishap
  /\ worker' = [worker EXCEPT ![w].pc = "answer", ![w].ok = @ /\ ~worker[w].lost]
  /\ UNCHANGED <<agreement, stripe, checkout, sales, people>>

Answers(w) ==
  /\ worker[w].pc = "answer"
  /\ event' = IF worker[w].ok
              THEN [event EXCEPT ![worker[w].agreement][worker[w].event] = "acked"] ELSE event
  /\ worker' = [worker EXCEPT ![w] = IdleWorker]
  /\ UNCHANGED <<rows, session, checkout, sales, people, mishaps>>

(* The process dies.  The lease stays behind. *)
Dies(w) ==
  /\ worker[w].pc # "idle" /\ Mishap
  /\ worker' = [worker EXCEPT ![w] = IdleWorker]
  /\ UNCHANGED <<rows, stripe, checkout, sales, people>>

(* Five minutes pass without a heartbeat: the run is gone, or it stalls. *)
OwnerRuns == \E w \in Workers : intent.key = w /\ worker[w].pc \in Claimed

LeaseAges ==
  /\ intent.lease = "fresh"
  /\ \/ ~OwnerRuns /\ NoMishap
     \/ OwnerRuns /\ Mishap
  /\ intent' = [intent EXCEPT !.lease = "stale"]
  /\ UNCHANGED <<agreement, stripe, worker, checkout, sales, people>>

(* reconcile_public_purchase_welcome, by an operator. *)
Reconciles ==
  /\ welcome.status = "sending"
  /\ \E outcome \in {"sent", "suppressed"} : welcome' = [welcome EXCEPT !.status = outcome]
  /\ UNCHANGED <<rows, stripe, worker, checkout, sales, buyer, mishaps>>

-----------------------------------------------------------------------------
RequestSteps(c) ==
  \/ \E a \in Agreements : OpensCheckout(c, a)
  \/ LinksAgreement(c)
  \/ LinksIntent(c)
  \/ CreatesSession(c)
  \/ SessionRefused(c)
  \/ RecordsAgreement(c)
  \/ FinishesCheckout(c)
  \/ CheckoutFails(c)

RepresentativeSteps(r) ==
  StartsCancel(r) \/ StartsReplace(r) \/ ExpiresSession(r) \/ Cancels(r) \/ Replaces(r)

(* What a live process does on its own. *)
Runs(w) ==
  \/ Claims(w)
  \/ Loads(w)
  \/ AssertsFence(w)
  \/ Completes(w)
  \/ Bills(w)
  \/ FindsBuyer(w)
  \/ CreatesUser(w)
  \/ MailsSetup(w)
  \/ AddsMember(w)
  \/ Reserves(w)
  \/ Begins(w)
  \/ Sends(w)
  \/ FinishesWelcome(w)
  \/ Announces(w)
  \/ Releases(w)
  \/ Answers(w)

Next ==
  \/ \E a \in Agreements : Signs(a) \/ Expires(a) \/ Pays(a) \/ SessionLapses(a)
  \/ \E c \in Checkouts : RequestSteps(c)
  \/ \E r \in Requests : RepresentativeSteps(r)
  \/ \E w \in Workers :
       \/ \E a \in Agreements, e \in Events : Delivers(w, a, e)
       \/ Runs(w) \/ TimerBeats(w) \/ Throws(w) \/ Dies(w)
  \/ LeaseAges
  \/ Reconciles

(* Stripe keeps delivering an event until it is acknowledged, a live process
   goes on with what it started, and time passes for a lease left behind. *)
Fairness ==
  /\ \A a \in Agreements, e \in Events : SF_vars(\E w \in Workers : Delivers(w, a, e))
  /\ \A w \in Workers : WF_vars(Runs(w))
  /\ WF_vars(LeaseAges)

Spec == Init /\ [][Next]_vars /\ Fairness

-----------------------------------------------------------------------------
(* Every field has a value of its column, and a session is recorded by the
   number of an agreement. *)
SessionIds == Agreements \cup {None}
ClientIds == Checkouts \cup {None}
TypeOK ==
  /\ intent \in [agreement : Agreements, canceled : BOOLEAN, activated : BOOLEAN,
                 status : {"agreement_pending", "checkout_pending", "completed", "canceled"},
                 session : SessionIds, client : ClientIds, key : Workers \cup {None},
                 lease : {"none", "fresh", "stale"}, billed : BOOLEAN]
  /\ agreement \in [Agreements ->
       [status : {"none", "sent", "signed", "superseded", "voided"}, expired : BOOLEAN,
        checkout : {"none", "pending", "paid"}, paid : BOOLEAN,
        session : SessionIds, client : ClientIds]]
  /\ session \in [Agreements -> [status : {"none", "open", "paid", "expired"}, client : ClientIds]]
  /\ event \in [Agreements -> [Events -> {"none", "pending", "acked"}]]
  /\ worker \in [Workers ->
       [pc : {"idle", "claim", "answer"} \cup Claimed, agreement : Agreements, event : Events,
        client : ClientIds, fenced : BOOLEAN, lost : BOOLEAN, ok : BOOLEAN]]
  /\ checkout \in [Checkouts ->
       [pc : {"idle", "agreement", "intent", "create", "record", "finish", "handed", "done"},
        agreement : Agreements, client : ClientIds]]
  /\ sales \in [Requests ->
       [pc : {"idle", "expire_cancel", "expire_replace", "cancel", "replace", "done"},
        agreement : Agreements, session : SessionIds, client : ClientIds]]
  /\ buyer \in [user : BOOLEAN, member : BOOLEAN, won : BOOLEAN]
  /\ welcome \in [status : {"none", "reserved", "sending", "sent", "skipped", "suppressed"},
                  token : Workers \cup {None}, sends : Nat]
  /\ mishaps \in 0..MaxMishaps

(* An agreement with a recorded payment is the signed one the deal stands on,
   of a deal that is activated and was never canceled, whatever requests of
   the representative were under way when the payment arrived. *)
PaidIsCurrent ==
  \A a \in Agreements :
    agreement[a].paid => Current(a) /\ intent.activated /\ ~Closed

(* Once canceled, a deal stays canceled and on its agreement, and no payment
   that arrives late activates it.  Its status may be overwritten by a
   checkout that was under way. *)
CanceledStaysClosed ==
  [][intent.canceled =>
       /\ intent'.canceled /\ intent'.agreement = intent.agreement
       /\ intent'.activated = intent.activated]_vars

(* The welcome e-mail is accepted at most once, over all deliveries, retries,
   lost leases and unclear answers. *)
WelcomeMailedOnce == welcome.sends <= 1

(* A buyer has a login, a membership, a welcome e-mail or an announced sale
   only on a purchase that is paid, billed and not canceled. *)
TailFollowsBilling ==
  buyer.user \/ buyer.member \/ buyer.won \/ welcome.status # "none" =>
    intent.activated /\ intent.billed /\ ~Closed

(* Stripe is told to stop delivering a payment event only when the purchase
   is set up to the end, or the deal was canceled or moved to another
   agreement and an administrator must look at the payment. *)
AckedIsSettled ==
  \A a \in Agreements :
    (\E e \in Events : event[a][e] = "acked") =>
      \/ Moved(a) \/ Closed
      \/ /\ intent.activated /\ intent.billed /\ buyer.member
         /\ welcome.status \notin {"none", "reserved"}

(* A payment is settled: activated, billed and the buyer a member, unless the
   deal was canceled or moved, provided the rows end up agreeing with each
   other about the client and the session, which concurrent checkout requests
   can prevent. *)
RowsAgree(a) == ClientsAgree(a) /\ intent.session = a /\ agreement[a].session = a
Settled(a) == Moved(a) \/ Closed \/ (intent.activated /\ intent.billed /\ buyer.member)
PaidSettles ==
  \A a \in Agreements : <>[]RowsAgree(a) => (session[a].status = "paid" ~> Settled(a))

=============================================================================
