----------------------------- MODULE SalesDeals -----------------------------
(***************************************************************************)
(* How an opportunity of the CRM becomes a sales deal.  A webhook event    *)
(* imports the opportunity into a binding for the representative who owns  *)
(* it; the representative completes the draft, and POST /sales/deals turns *)
(* a preview of it into a purchase intent, the binding's link to it, an    *)
(* agreement and the e-mail that asks for the signature.                   *)
(*                                                                         *)
(* Creation is a dozen calls with no transaction around them: when one     *)
(* fails before the deal is ready the request undoes the others, each at   *)
(* most once and with no error read.  A write may be done although its     *)
(* answer is an error, and a request may stop anywhere.                    *)
(***************************************************************************)
EXTENDS Integers, FiniteSets

CONSTANTS
    Requests,  \* webhook deliveries and creation requests in flight
    Reps,
    Events,    \* event keys of the one opportunity modelled
    Keys,      \* Idempotency-Key headers
    Previews,  \* sales_deal_previews, all for one buyer
    Deals,     \* ids that creation requests draw
    Null

ASSUME SalesDealsNames == Null \notin Deals \cup Reps

VARIABLES
    receipt,    \* ghl_sales_webhook_receipts: status, owner, ten minutes old
    acked,      \* events whose sender was told that the import completed
    binding,    \* ghl_sales_deal_bindings: status, purchase_intent_id, rep
    intent,     \* public_purchase_intents.status
    preview,    \* ... and sales_preview_id
    agreement,  \* membership_agreements.status
    consumed,   \* previews whose consumed_at is set
    taken,      \* keys that stand in sales_idempotency_keys, in progress or answered
    mailed,     \* deals whose signature request was e-mailed
    undone,     \* deals whose request said that they were not created
    lost,       \* ... and in which a call failed that nothing makes up for
    req         \* where each request stands

inbound == <<receipt, acked>>
deals   == <<intent, preview, agreement>>
outcome   == <<mailed, undone, lost>>
dealVars    == <<inbound, binding, deals, consumed, taken, outcome, req>>

Free == [pc |-> "idle"]
NoBinding == [status |-> "none", deal |-> Null, rep |-> Null]
NoReceipt == [status |-> "none", owner |-> Null, stale |-> FALSE]

Stands(r, pc) == req[r].pc = pc
Turns(r, state) == req' = [req EXCEPT ![r] = state]
Goes(r, pc) == req' = [req EXCEPT ![r].pc = pc]
Finishes(r) == Turns(r, Free)

DealInit ==
    /\ receipt = [e \in Events |-> NoReceipt] /\ acked = {}
    /\ binding = NoBinding
    /\ intent = [d \in Deals |-> "none"]
    /\ preview = [d \in Deals |-> Null]
    /\ agreement = [d \in Deals |-> "none"]
    /\ consumed = {}
    /\ taken = {}
    /\ mailed = {} /\ undone = {} /\ lost = {}
    /\ req = [r \in Requests |-> Free]
----------------------------------------------------------------------------
(* The webhook: the event's receipt, the import, and the answer.           *)

AgeReceipt ==
    /\ \E e \in Events :
        /\ receipt[e].status = "processing" /\ ~receipt[e].stale
        /\ receipt' = [receipt EXCEPT ![e].stale = TRUE]
    /\ UNCHANGED <<acked, binding, deals, consumed, taken, outcome, req>>

\* a delivery that finds the event in progress is told that it is done
AnyReplay(e) == receipt[e].status \in {"completed", "processing"}

Replayed(e) == receipt[e].status = "completed"

\* reserveReceipt; an event in progress is answered 503
ReceiveEvent(r) ==
    /\ Stands(r, "idle")
    /\ \E e \in Events :
        \/ Replayed(e) /\ acked' = acked \cup {e} /\ UNCHANGED <<receipt, req>>
        \/ /\ receipt[e].status # "completed"
           /\ receipt[e].status = "processing" => receipt[e].stale
           /\ receipt' = [receipt EXCEPT ![e] = [status |-> "processing", owner |-> r, stale |-> FALSE]]
           /\ Turns(r, [pc |-> "fetch", e |-> e])
           /\ UNCHANGED acked
    /\ UNCHANGED <<binding, deals, consumed, taken, outcome>>

\* the opportunity's owner as the CRM has it now; Null maps to no active
\* representative
FetchOpportunity(r) ==
    /\ Stands(r, "fetch")
    /\ \E rep \in Reps \cup {Null} : Turns(r, [pc |-> "lookup", e |-> req[r].e, rep |-> rep])
    /\ UNCHANGED <<inbound, binding, deals, consumed, taken, outcome>>

\* a linked binding only has its profile refreshed
LookUpBinding(r) ==
    /\ Stands(r, "lookup")
    /\ Goes(r, CASE binding = NoBinding -> "insert" [] binding.deal # Null -> "imported" [] OTHER -> "refresh")
    /\ UNCHANGED <<inbound, binding, deals, consumed, taken, outcome>>

Imported(rep) == [status |-> IF rep = Null THEN "exception" ELSE "ready", deal |-> Null, rep |-> rep]

\* without its condition on the link
RefreshesAny == binding # NoBinding

Refreshable == binding.deal = Null /\ binding.status \in {"ready", "exception"}

WriteBinding(r) ==
    /\ \/ Stands(r, "insert")  /\ binding = NoBinding
       \/ Stands(r, "refresh") /\ Refreshable
    /\ binding' = Imported(req[r].rep)
    /\ Goes(r, IF req[r].rep = Null THEN "reject" ELSE "imported")
    /\ UNCHANGED <<inbound, deals, consumed, taken, outcome>>

\* another delivery inserted it, or a deal claimed it: looked up again
WriteBindingLost(r) ==
    /\ \/ Stands(r, "insert")  /\ binding # NoBinding
       \/ Stands(r, "refresh") /\ ~Refreshable
    /\ Goes(r, "lookup")
    /\ UNCHANGED <<inbound, binding, deals, consumed, taken, outcome>>

\* the read or write that comes next fails, the opportunity has left its
\* stage, or a write was done and its answer lost
ImportFails(r) ==
    /\ req[r].pc \in {"fetch", "lookup", "insert", "refresh", "imported"}
    /\ Goes(r, "reject")
    /\ UNCHANGED <<inbound, binding, deals, consumed, taken, outcome>>

\* finishReceipt, by whoever still owns the receipt
Settles(r, status) ==
    LET mine == receipt[req[r].e].status = "processing" /\ receipt[req[r].e].owner = r
    IN  receipt' = IF mine THEN [receipt EXCEPT ![req[r].e] = [NoReceipt EXCEPT !.status = status]] ELSE receipt

\* one that lost the receipt, or whose event is not recorded, answers 503
FinishReceipt(r) ==
    /\ Stands(r, "imported")
    /\ Settles(r, "completed")
    /\ \/ receipt' # receipt /\ acked' = acked \cup {req[r].e}
       \/ UNCHANGED acked
    /\ Finishes(r)
    /\ UNCHANGED <<binding, deals, consumed, taken, outcome>>

\* answered as failed, or as left to an administrator
RejectEvent(r) ==
    /\ Stands(r, "reject")
    /\ Settles(r, "failed")
    /\ Finishes(r)
    /\ UNCHANGED <<acked, binding, deals, consumed, taken, outcome>>
----------------------------------------------------------------------------
(* POST /sales/deals, until the deal is ready.                             *)

\* the preview and the binding are read, and the CRM still agrees
ReadDraft(r) ==
    /\ Stands(r, "idle")
    /\ \E rep \in Reps, p \in Previews, k \in Keys :
        /\ binding = [status |-> "ready", deal |-> Null, rep |-> rep]
        /\ k \notin taken
        /\ Turns(r, [pc |-> "reserve", rep |-> rep, p |-> p, k |-> k, used |-> p \in consumed, d |-> Null])
    /\ UNCHANGED <<inbound, binding, deals, consumed, taken, outcome>>

ReserveKey(r) ==
    /\ Stands(r, "reserve")
    /\ \/ req[r].k \notin taken /\ Goes(r, "check")
       \/ req[r].k \in taken /\ Finishes(r)
    /\ taken' = taken \cup {req[r].k}
    /\ UNCHANGED <<inbound, binding, deals, consumed, outcome>>

Live(d) == intent[d] \in {"pending", "agreement_pending"}

\* a refusal (409) is the key's answer, a failed call (503) releases it
CheckConflicts(r) ==
    /\ Stands(r, "check")
    /\ \/ /\ ~req[r].used /\ \A d \in Deals : ~Live(d)
          /\ binding = [status |-> "ready", deal |-> Null, rep |-> req[r].rep]
          /\ Goes(r, "insert_intent")
       \/ Goes(r, "answer")
       \/ Goes(r, "release")
    /\ UNCHANGED <<inbound, binding, deals, consumed, taken, outcome>>

\* the unique indexes on the live intents' buyer and on the preview
IntentAdmitted(p) ==
    \A d \in Deals : ~Live(d) /\ (preview[d] = p => intent[d] \in {"none", "gone"})

Inserted(r, d) ==
    /\ intent[d] = "none"
    /\ intent' = [intent EXCEPT ![d] = "pending"]
    /\ preview' = [preview EXCEPT ![d] = req[r].p]

\* an insert whose answer is lost is not undone
InsertIntent(r) ==
    /\ Stands(r, "insert_intent")
    /\ \/ /\ IntentAdmitted(req[r].p)
          /\ \E d \in Deals :
              /\ Inserted(r, d)
              /\ \/ Turns(r, [req[r] EXCEPT !.pc = "claim", !.d = d]) /\ UNCHANGED lost
                 \/ Goes(r, "release") /\ lost' = lost \cup {d}
       \/ /\ ~IntentAdmitted(req[r].p)
          /\ Goes(r, "answer") /\ UNCHANGED <<intent, preview, lost>>
       \/ Goes(r, "release") /\ UNCHANGED <<intent, preview, lost>>
    /\ UNCHANGED <<inbound, binding, agreement, consumed, taken, mailed, undone>>

\* the intent first, which the binding's foreign key then refuses
IntentFirst == <<"intent", "unlink", "agreement", "release">>

\* a binding's link restricts the intent's deletion and goes before it
CleanupOrder == <<"unlink", "intent", "agreement", "release">>

FailsFrom(r, next) == Goes(r, next) \/ Goes(r, CleanupOrder[1])

\* claim_ghl_sales_binding
ClaimBinding(r) ==
    /\ Stands(r, "claim")
    /\ \/ /\ binding.status \in {"ready", "linked"} /\ binding.rep = req[r].rep
          /\ binding.deal \in {Null, req[r].d}
          /\ binding' = [binding EXCEPT !.status = "linked", !.deal = req[r].d]
          /\ FailsFrom(r, "insert_agreement")
       \/ Goes(r, CleanupOrder[1]) /\ UNCHANGED binding
    /\ UNCHANGED <<inbound, deals, consumed, taken, outcome>>

\* the PDF is rendered and stored, then the agreement inserted
InsertAgreement(r) ==
    /\ Stands(r, "insert_agreement")
    /\ \/ /\ agreement' = [agreement EXCEPT ![req[r].d] = "draft"]
          /\ \/ Goes(r, "finalize") /\ UNCHANGED lost
             \/ Goes(r, CleanupOrder[1]) /\ lost' = lost \cup {req[r].d}
       \/ Goes(r, CleanupOrder[1]) /\ UNCHANGED <<agreement, lost>>
    /\ UNCHANGED <<inbound, binding, intent, preview, consumed, taken, mailed, undone>>

\* the update names no status: it puts a deal that was canceled meanwhile
\* back to pending, and the next step finds its agreement voided
FinalizeIntent(r) ==
    /\ Stands(r, "finalize")
    /\ \/ /\ intent' = [intent EXCEPT ![req[r].d] = "agreement_pending"]
          /\ FailsFrom(r, "send")
       \/ Goes(r, CleanupOrder[1]) /\ UNCHANGED intent
    /\ UNCHANGED <<inbound, binding, preview, agreement, consumed, taken, outcome>>

SendAgreement(r) ==
    /\ Stands(r, "send")
    /\ \/ /\ agreement[req[r].d] = "draft"
          /\ agreement' = [agreement EXCEPT ![req[r].d] = "sent"]
          /\ FailsFrom(r, "consume")
       \/ Goes(r, CleanupOrder[1]) /\ UNCHANGED agreement
    /\ UNCHANGED <<inbound, binding, intent, preview, consumed, taken, outcome>>

\* a marker that is not written is only logged; the deal is ready
ConsumePreview(r) ==
    /\ Stands(r, "consume")
    /\ consumed' = consumed \cup {req[r].p} \/ UNCHANGED consumed
    /\ Goes(r, "mail")
    /\ UNCHANGED <<inbound, binding, deals, taken, outcome>>
----------------------------------------------------------------------------
(* Its e-mail and its answer, or the undoing of what was written.          *)

\* a failed e-mail leaves the deal, to be sent again from its page
MailAgreement(r) ==
    /\ Stands(r, "mail")
    /\ mailed' = mailed \cup {req[r].d} \/ UNCHANGED mailed
    /\ Goes(r, "answer")
    /\ UNCHANGED <<inbound, binding, deals, consumed, taken, undone, lost>>

\* finishIdempotency stores the response; one that cannot be stored leaves
\* the key in progress, and either refuses a second run
AnswerKey(r) ==
    /\ Stands(r, "answer")
    /\ Finishes(r)
    /\ UNCHANGED <<inbound, binding, deals, consumed, taken, outcome>>

\* each step is tried once
Undoes(r, step) ==
    CASE step = "unlink" ->
            /\ binding' = IF binding.deal = req[r].d THEN [binding EXCEPT !.status = "ready", !.deal = Null] ELSE binding
            /\ UNCHANGED deals
      [] step = "intent" ->
            /\ intent' = IF binding.deal = req[r].d THEN intent ELSE [intent EXCEPT ![req[r].d] = "gone"]
            /\ UNCHANGED <<binding, preview, agreement>>
      [] step = "agreement" ->
            /\ agreement' = IF agreement[req[r].d] = "none" \/ req[r].d \in lost THEN agreement
                            ELSE [agreement EXCEPT ![req[r].d] = "gone"]
            /\ UNCHANGED <<binding, intent, preview>>

Cleanup(r) ==
    /\ \E i \in 1..3 :
        /\ Stands(r, CleanupOrder[i])
        /\ \/ Undoes(r, CleanupOrder[i]) /\ UNCHANGED lost
           \/ UNCHANGED <<binding, deals>> /\ lost' = lost \cup {req[r].d}
        /\ Goes(r, CleanupOrder[i + 1])
    /\ UNCHANGED <<inbound, consumed, taken, mailed, undone>>

ReleaseKey(r) ==
    /\ Stands(r, "release")
    /\ taken' = taken \ {req[r].k} \/ UNCHANGED taken
    /\ undone' = IF req[r].d = Null THEN undone ELSE undone \cup {req[r].d}
    /\ Finishes(r)
    /\ UNCHANGED <<inbound, binding, deals, consumed, mailed, lost>>

\* cancel_sales_assisted_purchase: a deal without its agreement is refused
CancelDeal ==
    /\ \E d \in Deals :
        /\ Live(d) /\ agreement[d] \in {"draft", "sent"}
        /\ intent' = [intent EXCEPT ![d] = "canceled"]
        /\ agreement' = [agreement EXCEPT ![d] = "voided"]
    /\ UNCHANGED <<inbound, binding, preview, consumed, taken, outcome, req>>

\* the process stops, or an answer is refused before anything is recorded
Stops(r) ==
    /\ ~Stands(r, "idle") /\ Finishes(r)
    /\ UNCHANGED <<inbound, binding, deals, consumed, taken, outcome>>
----------------------------------------------------------------------------
Importing(r) ==
    \/ ReceiveEvent(r) \/ FetchOpportunity(r) \/ LookUpBinding(r) \/ WriteBinding(r)
    \/ WriteBindingLost(r) \/ ImportFails(r) \/ FinishReceipt(r) \/ RejectEvent(r)
Creating(r) ==
    \/ ReadDraft(r) \/ ReserveKey(r) \/ CheckConflicts(r) \/ InsertIntent(r) \/ ClaimBinding(r)
    \/ InsertAgreement(r) \/ FinalizeIntent(r) \/ SendAgreement(r) \/ ConsumePreview(r)
    \/ MailAgreement(r) \/ AnswerKey(r) \/ Cleanup(r) \/ ReleaseKey(r)

DealNext ==
    \/ AgeReceipt \/ CancelDeal
    \/ \E r \in Requests : Importing(r) \/ Creating(r) \/ Stops(r)

DealSpec == DealInit /\ [][DealNext]_dealVars
----------------------------------------------------------------------------
(* What the deals promise.                                                 *)

(* A deal whose signature request went out is whole and stays so: its      *)
(* intent, its agreement and the opportunity's link to it stand together,  *)
(* under the representative who made it, whatever imports, retries and     *)
(* cancellations run beside it -- and so one opportunity is sold once.     *)
MailedIsWhole ==
    \A d \in mailed :
        /\ \/ intent[d] = "agreement_pending" /\ agreement[d] = "sent"
           \/ intent[d] = "canceled" /\ agreement[d] = "voided"
        /\ binding.deal = d /\ binding.status = "linked" /\ binding.rep # Null

(* A creation that failed leaves nothing behind: no intent that blocks the *)
(* buyer, no agreement, no link that keeps the opportunity -- unless the   *)
(* answer of a write or a step of the undoing itself was lost.             *)
FailureLeavesNothing ==
    \A d \in undone \ lost :
        intent[d] = "gone" /\ agreement[d] \in {"none", "gone"} /\ binding.deal # d

(* An event whose sender was told that it completed has its opportunity in *)
(* a binding, although deliveries overlap, take over and fail half-way.    *)
AckedIsImported == acked # {} => binding # NoBinding
=============================================================================
