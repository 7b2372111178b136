-------------------------- MODULE SalesDeliveries --------------------------
(***************************************************************************)
(* The outbox that announces a sales-assisted purchase once it is active:  *)
(* a message to the sales team's channel, one to the representative, and   *)
(* the Won status and the activation note of the CRM's opportunity.        *)
(*                                                                         *)
(* The activation, the administrator's Reconcile and every scheduled       *)
(* worker insert the missing rows.  A worker claims the due rows of both   *)
(* integrations under one lease and delivers them one after the other, so  *)
(* that the lease of a later row can run out before the worker comes to    *)
(* it and a second worker works on the same row.                           *)
(*                                                                         *)
(* Every database or provider call may fail, a provider may accept a call  *)
(* and still answer with an error, and a job may stop anywhere.            *)
(***************************************************************************)
EXTENDS Integers, FiniteSets

CONSTANTS
    Jobs,         \* activations, reconciliations and worker runs in flight
    Kinds,        \* the rows that this sale calls for, of "team", "dm", "ghl"
    MaxAttempts,  \* sales_integration_deliveries.max_attempts
    None

ASSUME DeliveryKinds ==
    /\ Kinds \subseteq {"team", "dm", "ghl"}
    /\ MaxAttempts \in Nat \ {0}
    /\ None \notin Jobs

Slack == Kinds \ {"ghl"}

VARIABLES
    completed,  \* the purchase is completed and activated
    marked,     \* sales_won_enqueued_at, sales_rep_slack_enqueued_at
    row,        \* sales_integration_deliveries: status, attempt_count,
                \* lock_token, and whether locked_at is ten minutes old
    review,     \* ghl_sales_deal_bindings.manual_review_required
    won, notes, \* the CRM's opportunity, and this delivery's notes in it
    posted,     \* the messages Slack has; client_msg_id keeps one of each
    job         \* where each job stands

provider == <<won, notes, posted>>
vars     == <<completed, marked, row, review, provider, job>>

Idle == [pc |-> "idle"]
NoRow == [status |-> "none", tries |-> 0, lock |-> None, stale |-> FALSE]

At(j, pc) == job[j].pc = pc
Becomes(j, state) == job' = [job EXCEPT ![j] = state]
Moves(j, pc) == job' = [job EXCEPT ![j].pc = pc]
----------------------------------------------------------------------------
Init ==
    /\ completed = FALSE
    /\ marked = {}
    /\ row = [k \in Kinds |-> NoRow]
    /\ review = FALSE
    /\ won = FALSE /\ notes = 0 /\ posted = {}
    /\ job = [j \in Jobs |-> Idle]

CompleteSale ==
    /\ ~completed /\ completed' = TRUE
    /\ UNCHANGED <<marked, row, review, provider, job>>
----------------------------------------------------------------------------
(* Inserting the rows.                                                     *)

Missing == (Slack \ marked) \cup (Kinds \cap {"ghl"})

\* what reconcileSalesWonDeliveries lists
Listed ==
    \/ Slack \ marked # {}
    \/ "ghl" \in Kinds /\ row["ghl"].status = "none" /\ ~review

\* a worker goes on to claim, any other job ends
AfterEnqueue(j, worker) == Becomes(j, IF worker THEN [pc |-> "claim"] ELSE Idle)

\* the activation and the administrator enqueue the sale, a worker what it
\* lists; active is what the client's row says when it is read
ReadSale(j, worker, active) ==
    /\ At(j, "idle")
    /\ IF completed /\ active /\ (worker => Listed) /\ Missing # {}
       THEN Becomes(j, [pc |-> "insert", todo |-> Missing, all |-> Missing, worker |-> worker])
       ELSE worker /\ Becomes(j, [pc |-> "claim"])
    /\ UNCHANGED <<completed, marked, row, review, provider>>

\* the event's unique key makes a second insert a duplicate
InsertDelivery(j, k) ==
    /\ At(j, "insert") /\ k \in job[j].todo
    /\ k = "ghl" => job[j].todo = {"ghl"}
    /\ row' = IF row[k] = NoRow THEN [row EXCEPT ![k].status = "pending"] ELSE row
    /\ job' = [job EXCEPT ![j].todo = @ \ {k}]
    /\ UNCHANGED <<completed, marked, review, provider>>

\* without the throw: the sale is marked although a row is missing
PassesOver(j) == job' = [job EXCEPT ![j].todo = {}]

\* the enqueueing throws: the sale stays unmarked
GivesUp(j) == AfterEnqueue(j, job[j].worker)

InsertFails(j) ==
    /\ At(j, "insert") /\ job[j].todo # {}
    /\ GivesUp(j)
    /\ UNCHANGED <<completed, marked, row, review, provider>>

\* a marker that is not written is only logged
MarkEnqueued(j) ==
    /\ At(j, "insert") /\ job[j].todo = {}
    /\ \E written \in BOOLEAN :
        marked' = IF written THEN marked \cup (job[j].all \cap Slack) ELSE marked
    /\ AfterEnqueue(j, job[j].worker)
    /\ UNCHANGED <<completed, row, review, provider>>
----------------------------------------------------------------------------
(* The lease.                                                              *)

\* locked_at is more than ten minutes ago
ExpireLease(k) ==
    /\ row[k].status = "processing" /\ ~row[k].stale
    /\ row' = [row EXCEPT ![k].stale = TRUE]
    /\ UNCHANGED <<completed, marked, review, provider, job>>

Interrupted(k) == row[k].status = "processing" /\ row[k].stale
Claimable(k) == (row[k].status \in {"pending", "retry"} \/ Interrupted(k)) /\ row[k].tries < MaxAttempts

\* claim_sales_integration_deliveries: a retry may not be due yet, or a row
\* locked by another claim
Claim(j, batch) ==
    /\ At(j, "claim")
    /\ \A k \in batch : Claimable(k)
    /\ row' = [k \in Kinds |->
           IF k \in batch
           THEN [status |-> "processing", tries |-> row[k].tries + 1, lock |-> j, stale |-> FALSE]
           ELSE IF Interrupted(k) /\ row[k].tries >= MaxAttempts
           THEN [row[k] EXCEPT !.status = "failed", !.lock = None, !.stale = FALSE]
           ELSE row[k]]
    /\ Becomes(j, [pc |-> "next", batch |-> batch,
                   last |-> {k \in batch : row[k].tries + 1 >= MaxAttempts}])
    /\ UNCHANGED <<completed, marked, review, provider>>

NextDelivery(j) ==
    /\ At(j, "next")
    /\ IF job[j].batch = {} THEN Becomes(j, Idle)
       ELSE \E k \in job[j].batch :
            /\ k = "ghl" => job[j].batch = {"ghl"}
            /\ Becomes(j, [pc |-> IF k = "ghl" THEN "check" ELSE "post", k |-> k,
                           last |-> k \in job[j].last,
                           batch |-> job[j].batch \ {k}, rest |-> job[j].last])
    /\ UNCHANGED <<completed, marked, row, review, provider>>

Fails(j, retryable) ==
    Becomes(j, [job[j] EXCEPT !.pc = "failed", !.last = @ \/ ~retryable])
----------------------------------------------------------------------------
(* Delivering one row.                                                     *)

\* a call without an answer is taken for a success
TakenForGranted(j) == Moves(j, CASE At(j, "post") -> "delivered" [] At(j, "put") -> "list" [] OTHER -> "binding")

Unanswered(j) == Fails(j, TRUE)

\* the CRM refuses the credentials, the record or the request, which is final
Refused(j) == Fails(j, FALSE)

\* a channel or member id that Slack refuses is a permanent error
PostSlack(j) ==
    /\ At(j, "post")
    /\ \/ /\ posted' = posted \cup {job[j].k}
          /\ Moves(j, "delivered") \/ Unanswered(j)
       \/ /\ Unanswered(j) \/ Fails(j, FALSE)
          /\ UNCHANGED posted
    /\ UNCHANGED <<completed, marked, row, review, won, notes>>

\* The sale, the client, the agreement and the binding are read again, then
\* the opportunity.  A client that lapsed, a binding under review, a closed
\* opportunity, another contact or another owner is a permanent error; a read
\* that fails is not, and it may be one that comes before the review's.
CheckSale(j) ==
    /\ At(j, "check")
    /\ \/ ~review /\ Moves(j, IF won THEN "list" ELSE "put")
       \/ Fails(j, FALSE)
       \/ Fails(j, TRUE)
    /\ UNCHANGED <<completed, marked, row, review, provider>>

MarkGhlOpportunityWon(j) ==
    /\ At(j, "put")
    /\ \/ won' = TRUE /\ (Moves(j, "list") \/ Unanswered(j))
       \/ (Unanswered(j) \/ Refused(j)) /\ UNCHANGED won
    /\ UNCHANGED <<completed, marked, row, review, notes, posted>>

ListNotes(j) ==
    /\ At(j, "list")
    /\ \/ Moves(j, IF notes > 0 THEN "binding" ELSE "note")
       \/ Unanswered(j) \/ Refused(j)
    /\ UNCHANGED <<completed, marked, row, review, provider>>

\* two stands for two or more
OneMore == notes' = IF notes = 2 THEN 2 ELSE notes + 1

EnsureGhlWinNote(j) ==
    /\ At(j, "note")
    /\ \/ OneMore /\ (Moves(j, "binding") \/ Unanswered(j))
       \/ (Unanswered(j) \/ Refused(j)) /\ UNCHANGED notes
    /\ UNCHANGED <<completed, marked, row, review, won, posted>>

BindingWon(j) ==
    /\ At(j, "binding")
    /\ \/ review' = FALSE /\ Moves(j, "delivered")
       \/ Fails(j, TRUE) /\ UNCHANGED review
    /\ UNCHANGED <<completed, marked, row, provider>>
----------------------------------------------------------------------------
(* The row's outcome, written only under the claim's lock_token.           *)

\* the update without its condition
WritesRow(j, k, status) ==
    row' = [row EXCEPT ![k] = [@ EXCEPT !.status = status, !.lock = None, !.stale = FALSE]]

UpdateClaimedDelivery(j, k, status) ==
    row' = IF row[k].lock # j THEN row
           ELSE [row EXCEPT ![k] = [@ EXCEPT !.status = status, !.lock = None, !.stale = FALSE]]

Continues(j) ==
    Becomes(j, [pc |-> "next", batch |-> job[j].batch, last |-> job[j].rest])

FinishDelivery(j) ==
    /\ At(j, "delivered")
    /\ \/ UpdateClaimedDelivery(j, job[j].k, "delivered") /\ Continues(j)
       \/ Fails(j, TRUE) /\ UNCHANGED row
    /\ UNCHANGED <<completed, marked, review, provider>>

\* the binding's own update is not tied to the lease, and its failure is
\* only logged
MarkGhlDeliveryFailure(j) ==
    /\ At(j, "failed") /\ job[j].k = "ghl"
    /\ review' = job[j].last \/ UNCHANGED review
    /\ Moves(j, "settle")
    /\ UNCHANGED <<completed, marked, row, provider>>

\* an error here ends the run with the rest of its batch claimed
FailDelivery(j) ==
    /\ At(j, "settle") \/ (At(j, "failed") /\ job[j].k # "ghl")
    /\ \/ UpdateClaimedDelivery(j, job[j].k, IF job[j].last THEN "failed" ELSE "retry") /\ Continues(j)
       \/ Becomes(j, Idle) /\ UNCHANGED row
    /\ UNCHANGED <<completed, marked, review, provider>>

\* the administrator's Retry Won update: the row, then the binding
ResetFailedGhlDelivery(j) ==
    /\ At(j, "idle") /\ "ghl" \in Kinds
    /\ row["ghl"].status = "failed"
    /\ row' = [row EXCEPT !["ghl"] = [NoRow EXCEPT !.status = "retry"]]
    /\ Becomes(j, [pc |-> "reset"])
    /\ UNCHANGED <<completed, marked, review, provider>>

ResetBinding(j) ==
    /\ At(j, "reset")
    /\ review' = FALSE
    /\ Becomes(j, Idle)
    /\ UNCHANGED <<completed, marked, row, provider>>

\* the process stops, or the call that comes next fails for good
Abandon(j) ==
    /\ ~At(j, "idle") /\ Becomes(j, Idle)
    /\ UNCHANGED <<completed, marked, row, review, provider>>
----------------------------------------------------------------------------
Works(j) ==
    \/ \E worker, active \in BOOLEAN : ReadSale(j, worker, active)
    \/ \E k \in Kinds : InsertDelivery(j, k)
    \/ InsertFails(j) \/ MarkEnqueued(j)
    \/ \E batch \in SUBSET Kinds : Claim(j, batch)
    \/ NextDelivery(j) \/ PostSlack(j) \/ CheckSale(j)
    \/ MarkGhlOpportunityWon(j) \/ ListNotes(j) \/ EnsureGhlWinNote(j)
    \/ BindingWon(j) \/ FinishDelivery(j) \/ MarkGhlDeliveryFailure(j) \/ FailDelivery(j)
    \/ ResetFailedGhlDelivery(j) \/ ResetBinding(j) \/ Abandon(j)

Next ==
    \/ CompleteSale
    \/ \E k \in Kinds : ExpireLease(k)
    \/ \E j \in Jobs : Works(j)

Spec == Init /\ [][Next]_vars
----------------------------------------------------------------------------
(* What the outbox promises.                                               *)

\* the places of a job that delivers one row
Delivering == {"check", "post", "put", "list", "note", "binding", "delivered", "failed", "settle"}

Waiting    == [pc : {"idle", "claim", "reset"}]
Enqueueing == [pc : {"insert"}, todo : SUBSET Kinds, all : SUBSET Kinds, worker : BOOLEAN]
Choosing   == [pc : {"next"}, batch : SUBSET Kinds, last : SUBSET Kinds]
Working    == [pc : Delivering, k : Kinds, last : BOOLEAN, batch : SUBSET Kinds, rest : SUBSET Kinds]

TypeOK ==
    /\ completed \in BOOLEAN /\ marked \subseteq Slack
    /\ row \in [Kinds -> [status : {"none", "pending", "processing", "retry", "failed", "delivered"},
                          tries : Nat, lock : Jobs \cup {None}, stale : BOOLEAN]]
    /\ review \in BOOLEAN
    /\ won \in BOOLEAN /\ notes \in 0..2 /\ posted \subseteq Slack
    /\ job \in [Jobs -> Waiting \cup Enqueueing \cup Choosing \cup Working]

(* A row reads delivered only when its message is in Slack, or the         *)
(* opportunity is won in the CRM and carries the activation note --        *)
(* whichever worker wrote it, and however many calls went unanswered.      *)
DeliveredIsThere ==
    \A k \in Kinds : row[k].status = "delivered" =>
        IF k = "ghl" THEN won /\ notes > 0 ELSE k \in posted

(* A delivered row is never worked on again: a worker whose lease ran out  *)
(* and that fails late cannot put it back, and neither can the retry of an *)
(* administrator who saw it failed.                                        *)
DeliveredIsFinal ==
    [][\A k \in Kinds : row[k].status = "delivered" => row'[k].status = "delivered"]_vars

(* A sale that lacks a row stays listed for the next worker, whatever was   *)
(* lost on the way: a marker is never written over an insert that failed,  *)
(* and the binding goes under review only once its delivery exists.        *)
MissingIsListed ==
    \A k \in Kinds : row[k].status = "none" => k \notin marked /\ (k = "ghl" => ~review)
=============================================================================
