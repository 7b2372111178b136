---------------------------- MODULE RolePurchase ----------------------------
(***************************************************************************)
(* How a client obtains a role.  POST /clients/roles/checkout-session      *)
(* spends a prepaid first-role credit when the client has one; a client    *)
(* billed by usage gets the role at once; everyone else is given a         *)
(* checkout of two sessions, an embedded and a hosted one, and the payment *)
(* events of those sessions turn the pending purchase into a role.         *)
(*                                                                         *)
(* No step is in a transaction with another: any call may fail, an insert  *)
(* may be done although its answer is lost, the process may stop, and the  *)
(* payment provider repeats an event, also while the first delivery runs.  *)
(***************************************************************************)
EXTENDS Integers, Sequences, FiniteSets

CONSTANTS
    Orders,       \* checkout requests; each makes at most one pending purchase
    Credits,      \* the client's first-role prepay credits
    Sessions,     \* the embedded and the hosted session of a checkout
    MaxPayments,  \* bound on the sessions that customers complete
    None

Events == [order : Orders, session : Sessions, kind : {"settled", "declined"}]
Workers == Orders \cup Events

ASSUME RolePurchaseAssumption ==
    /\ IsFiniteSet(Orders) /\ IsFiniteSet(Credits) /\ IsFiniteSet(Sessions)
    /\ MaxPayments \in Nat
    /\ None \notin Orders \cup Credits
    /\ Orders \cap Events = {}

VARIABLES
    plan,      \* per order: how its client is billed
    row,       \* pending_role_purchases.status
    final,     \* ... and finalized_role_id, 0 when null
    roles,     \* the roles inserted, oldest first, with what they were made for
    documented, \* roles that name their job-description file and their stored
               \* knowledge-base document: the writes whose errors are read
    credit,    \* client_role_credits: status, used_by_role_id
    session,   \* the checkout sessions as the provider has them
    deduped,   \* events that have a billing_events row
    at,        \* where each request and each event's handler stands
    unheard    \* roles whose insert answered an error although it was done

vars == <<plan, row, final, roles, documented, credit, session, deduped, at, unheard>>
purchase == <<row, final>>
made     == <<roles, unheard>>

Idle == [pc |-> "idle"]
At(w, pc) == at[w].pc = pc
Becomes(w, state) == at' = [at EXCEPT ![w] = state]
Moves(w, pc) == at' = [at EXCEPT ![w].pc = pc]

Init ==
    /\ plan \in [Orders -> {"per_role", "usage"}]
    /\ row = [o \in Orders |-> "none"]
    /\ final = [o \in Orders |-> 0]
    /\ roles = <<>> /\ documented = {} /\ unheard = {}
    /\ credit \in [Credits -> [status : {"unused", "voided"}, role : {0}]]
    /\ session = [o \in Orders |-> [s \in Sessions |-> "none"]]
    /\ deduped = {}
    /\ at = [w \in Workers |-> IF w \in Orders THEN [pc |-> "asked"] ELSE Idle]

Role(purchaseOf, creditOf) == [order |-> purchaseOf, credit |-> creditOf]

\* an insert into roles: done and heard, or done with its answer lost
InsertHeard(role)   == roles' = Append(roles, role) /\ UNCHANGED unheard
InsertUnheard(role) == roles' = Append(roles, role) /\ unheard' = unheard \cup {Len(roles) + 1}

\* the role's job-description file is named, its rubric and description text
\* are written, its knowledge-base document is stored and named.  The answer to
\* the write of rubric and text is not looked at: written or not, the role goes
\* on to its document, and documented says nothing about the rubric.  Where any
\* other of these calls fails, the handler or the request does
Documents(role) == documented' = documented \cup {role}
----------------------------------------------------------------------------
(* A request that finds a prepaid credit.                                  *)

Unused == {c \in Credits : credit[c].status = "unused"}

FindCredit(o) ==
    /\ At(o, "asked")
    /\ Moves(o, IF plan[o] = "per_role" /\ Unused # {} THEN "claim" ELSE "insert_row")
    /\ UNCHANGED <<plan, purchase, made, documented, credit, session, deduped>>

\* a credit whose role never came about may be taken again
ClaimableAny == {c \in Credits : credit[c].status \in {"unused", "claimed"}}

Claimable == Unused

\* claim_first_role_prepay_credit; a request that lost the race buys a role
ClaimCredit(o) ==
    /\ At(o, "claim")
    /\ \/ \E c \in Claimable :
            /\ credit' = [credit EXCEPT ![c].status = "claimed"]
            /\ Becomes(o, [pc |-> "create", credit |-> c])
       \/ Claimable = {} /\ Moves(o, "insert_row") /\ UNCHANGED credit
    /\ UNCHANGED <<plan, purchase, made, documented, session, deduped>>

CreateCreditRole(o) ==
    /\ At(o, "create")
    /\ LET role == Role(None, at[o].credit)
       IN  \/ InsertHeard(role)
              /\ Becomes(o, [pc |-> "use", credit |-> at[o].credit, role |-> Len(roles) + 1])
           \/ InsertUnheard(role) /\ Moves(o, "release")
           \/ UNCHANGED made /\ Moves(o, "release")
    /\ UNCHANGED <<plan, purchase, documented, credit, session, deduped>>

\* releaseClaimedFirstRoleCredit; when that fails too the credit stays claimed
ReleaseCredit(o) ==
    /\ At(o, "release")
    /\ \/ credit' = [credit EXCEPT ![at[o].credit].status = "unused"]
       \/ UNCHANGED credit
    /\ Becomes(o, Idle)
    /\ UNCHANGED <<plan, purchase, made, documented, session, deduped>>

\* markClaimedFirstRoleCreditUsed; an error of it leaves credit and role as
\* they are, and an error of the enrichment that follows is not passed on
UseCredit(o) ==
    /\ At(o, "use")
    /\ \/ /\ credit' = [credit EXCEPT ![at[o].credit] = [status |-> "used", role |-> at[o].role]]
          /\ Documents(at[o].role) \/ UNCHANGED documented
       \/ UNCHANGED <<credit, documented>>
    /\ Becomes(o, Idle)
    /\ UNCHANGED <<plan, purchase, made, session, deduped>>
----------------------------------------------------------------------------
(* A request that makes a pending purchase.                                *)

InsertRow(o) ==
    /\ At(o, "insert_row")
    /\ row' = [row EXCEPT ![o] = IF plan[o] = "usage" THEN "finalizing" ELSE "pending"]
    /\ Moves(o, "upload")
    /\ UNCHANGED <<plan, final, made, documented, credit, session, deduped>>

\* a usage purchase whose document is not stored is marked failed, if that works
FailUpload(o) ==
    /\ At(o, "upload")
    /\ \/ /\ plan[o] = "usage"
          /\ row[o] = "finalizing" /\ final[o] = 0
          /\ row' = [row EXCEPT ![o] = "failed"]
       \/ UNCHANGED row
    /\ Becomes(o, Idle)
    /\ UNCHANGED <<plan, final, made, documented, credit, session, deduped>>

FinalizeUsage(o) ==
    /\ At(o, "upload") /\ plan[o] = "usage"
    /\ Becomes(o, [pc |-> "lookup", attempt |-> 1])
    /\ UNCHANGED <<plan, purchase, made, documented, credit, session, deduped>>

\* the embedded session, the hosted one, or both: whichever were created
OpenSessions(o) ==
    /\ At(o, "upload") /\ plan[o] = "per_role"
    /\ \E open \in SUBSET Sessions \ {{}} :
         session' = [session EXCEPT ![o] = [s \in Sessions |-> IF s \in open THEN "open" ELSE "none"]]
    /\ Becomes(o, Idle)
    /\ UNCHANGED <<plan, purchase, made, documented, credit, deduped>>

\* a call before the role or the sessions exist fails, or the process stops;
\* what was claimed or inserted stays
RequestEnds(o) ==
    /\ ~At(o, "idle")
    /\ Becomes(o, Idle)
    /\ UNCHANGED <<plan, purchase, made, documented, credit, session, deduped>>
----------------------------------------------------------------------------
(* The provider: customers pay, and events are sent.  The event of a       *)
(* session that waits for its money changes nothing and is left out.       *)

Completed == {x \in Orders \X Sessions : session[x[1]][x[2]] \notin {"none", "open"}}

\* paid at once, or by a method that settles later
Pay(o, s) ==
    /\ session[o][s] = "open"
    /\ Cardinality(Completed) < MaxPayments
    /\ \E outcome \in {"paid", "waiting"} : session' = [session EXCEPT ![o][s] = outcome]
    /\ UNCHANGED <<plan, purchase, made, documented, credit, deduped, at>>

Settle(o, s) ==
    /\ session[o][s] = "waiting"
    /\ \E outcome \in {"paid_late", "declined"} : session' = [session EXCEPT ![o][s] = outcome]
    /\ UNCHANGED <<plan, purchase, made, documented, credit, deduped, at>>

Raised(e) ==
    session[e.order][e.session] \in IF e.kind = "settled" THEN {"paid", "paid_late"} ELSE {"declined"}

\* a repeated event is answered 200, also while its first delivery runs
Deliver(e) ==
    /\ Raised(e) /\ e \notin deduped
    /\ deduped' = deduped \cup {e}
    /\ Moves(e, "read")
    /\ UNCHANGED <<plan, purchase, made, documented, credit, session>>
----------------------------------------------------------------------------
(* The webhook's handler of one event.                                     *)

\* a settled event is done when there is a role
ReadPurchase(e) ==
    /\ At(e, "read")
    /\ Moves(e, CASE e.kind = "declined" -> "decline"
                  [] e.kind = "settled" /\ final[e.order] = 0 -> "pay"
                  [] e.kind = "settled" /\ final[e.order] # 0 -> "answer")
    /\ UNCHANGED <<plan, purchase, made, documented, credit, session, deduped>>

MarkFailed(e) ==
    /\ At(e, "decline")
    /\ row' = IF row[e.order] = "pending" /\ final[e.order] = 0 THEN [row EXCEPT ![e.order] = "failed"] ELSE row
    /\ Moves(e, "answer")
    /\ UNCHANGED <<plan, final, made, documented, credit, session, deduped>>

Unfinalized(o) == final[o] = 0 /\ row[o] \in {"pending", "paid"}

MarkPaid(e) ==
    /\ At(e, "pay")
    /\ row' = IF Unfinalized(e.order) THEN [row EXCEPT ![e.order] = "paid"] ELSE row
    /\ Moves(e, "claim")
    /\ UNCHANGED <<plan, final, made, documented, credit, session, deduped>>

ClaimPurchase(e) ==
    /\ At(e, "claim")
    /\ \/ /\ Unfinalized(e.order)
          /\ row' = [row EXCEPT ![e.order] = "finalizing"]
          /\ Becomes(e, [pc |-> "lookup", attempt |-> 1])
       \/ ~Unfinalized(e.order) /\ Moves(e, "recheck") /\ UNCHANGED row
    /\ UNCHANGED <<plan, final, made, documented, credit, session, deduped>>

\* a purchase that another handler has claimed is left to that handler
LeftAlone(o) == FALSE

InProgress(o) == final[o] = 0 /\ row[o] = "finalizing"

JoinPurchase(e) ==
    /\ At(e, "recheck")
    /\ Becomes(e, IF InProgress(e.order) THEN [pc |-> "lookup", attempt |-> 1] ELSE [pc |-> "answer"])
    /\ UNCHANGED <<plan, purchase, made, documented, credit, session, deduped>>

AnswerEvent(e) ==
    /\ At(e, "answer")
    /\ Becomes(e, Idle)
    /\ UNCHANGED <<plan, purchase, made, documented, credit, session, deduped>>

\* a call fails: the billing_events row is deleted so that a repeated event
\* is processed, if the deletion works
EventFails(e) ==
    /\ ~At(e, "idle")
    /\ deduped' = deduped \ {e}
    /\ Becomes(e, Idle)
    /\ UNCHANGED <<plan, purchase, made, documented, credit, session>>

\* the process stops, or the deletion fails as well
EventStops(e) ==
    /\ ~At(e, "idle")
    /\ Becomes(e, Idle)
    /\ UNCHANGED <<plan, purchase, made, documented, credit, session, deduped>>
----------------------------------------------------------------------------
(* finalizePendingRolePurchase, run by an event's handler or, for a client *)
(* billed by usage, up to twice by the request.                            *)

OrderOf(w) == IF w \in Orders THEN w ELSE w.order

Linked(o) == {i \in DOMAIN roles : roles[i].order = o}

\* only a role that the purchase already names is found again
FoundNamed(o) == {i \in Linked(o) : final[o] = i}

Found(o) == Linked(o)

\* the newest role linked to the purchase is recovered
LookUpRole(w) ==
    /\ At(w, "lookup")
    /\ LET linked == Found(OrderOf(w))
       IN  \/ \E i \in linked :
                /\ \A j \in linked : j <= i
                /\ Becomes(w, [pc |-> "enrich", attempt |-> at[w].attempt, role |-> i, recovered |-> TRUE])
           \/ linked = {} /\ Moves(w, "create_role")
    /\ UNCHANGED <<plan, purchase, made, documented, credit, session, deduped>>

CreateRole(w) ==
    /\ At(w, "create_role")
    /\ InsertHeard(Role(OrderOf(w), None))
    /\ Becomes(w, [pc |-> "enrich", attempt |-> at[w].attempt, role |-> Len(roles) + 1, recovered |-> FALSE])
    /\ UNCHANGED <<plan, purchase, documented, credit, session, deduped>>

EnrichRole(w) ==
    /\ At(w, "enrich")
    /\ Documents(at[w].role)
    /\ Moves(w, "finalize")
    /\ UNCHANGED <<plan, purchase, made, credit, session, deduped>>

FinalizeRow(w) ==
    LET o == OrderOf(w)
    IN  /\ At(w, "finalize")
        /\ final[o] = 0
        /\ row[o] \in IF at[w].recovered THEN {"pending", "paid", "finalizing"} ELSE {"finalizing"}
        /\ row' = [row EXCEPT ![o] = "finalized"]
        /\ final' = [final EXCEPT ![o] = at[w].role]
        /\ Becomes(w, IF w \in Orders THEN Idle ELSE [pc |-> "answer"])
        /\ UNCHANGED <<plan, made, documented, credit, session, deduped>>

Finalizing(w) == at[w].pc \in {"lookup", "create_role", "enrich", "finalize"}

\* the insert was done and its answer lost
CreateRoleUnheard(w) ==
    /\ At(w, "create_role")
    /\ InsertUnheard(Role(OrderOf(w), None))
    /\ \/ /\ w \in Events
          /\ deduped' \in {deduped, deduped \ {w}}
          /\ Becomes(w, Idle)
       \/ /\ w \in Orders
          /\ Becomes(w, IF at[w].attempt = 1 THEN [pc |-> "lookup", attempt |-> 2] ELSE Idle)
          /\ UNCHANGED deduped
    /\ UNCHANGED <<plan, purchase, documented, credit, session>>

\* the request's second attempt, after any error of the first
RetryUsage(o) ==
    /\ Finalizing(o) /\ at[o].attempt = 1
    /\ Becomes(o, [pc |-> "lookup", attempt |-> 2])
    /\ UNCHANGED <<plan, purchase, made, documented, credit, session, deduped>>
----------------------------------------------------------------------------
RequestStep(o) ==
    \/ FindCredit(o) \/ ClaimCredit(o) \/ CreateCreditRole(o) \/ ReleaseCredit(o) \/ UseCredit(o)
    \/ InsertRow(o) \/ FailUpload(o) \/ FinalizeUsage(o) \/ OpenSessions(o) \/ RetryUsage(o) \/ RequestEnds(o)

EventStep(e) ==
    \/ Deliver(e) \/ ReadPurchase(e) \/ MarkFailed(e) \/ MarkPaid(e) \/ ClaimPurchase(e) \/ JoinPurchase(e)
    \/ AnswerEvent(e) \/ EventFails(e) \/ EventStops(e)

FinalizerStep(w) ==
    LookUpRole(w) \/ CreateRole(w) \/ CreateRoleUnheard(w) \/ EnrichRole(w) \/ FinalizeRow(w)

CustomerStep(o, s) == Pay(o, s) \/ Settle(o, s)

Next ==
    \/ \E o \in Orders : RequestStep(o)
    \/ \E e \in Events : EventStep(e)
    \/ \E w \in Workers : FinalizerStep(w)
    \/ \E o \in Orders, s \in Sessions : CustomerStep(o, s)

Spec == Init /\ [][Next]_vars
----------------------------------------------------------------------------
\* the records of requests and handlers, by where they stand
Plain     == [pc : {"idle", "asked", "claim", "insert_row", "upload",
                    "read", "decline", "pay", "recheck", "answer"}]
Crediting == [pc : {"create", "release"}, credit : Credits]
Using     == [pc : {"use"}, credit : Credits, role : Nat]
Searching == [pc : {"lookup", "create_role"}, attempt : 1..2]
Building  == [pc : {"enrich", "finalize"}, attempt : 1..2, role : Nat, recovered : BOOLEAN]

TypeOK ==
    /\ plan \in [Orders -> {"per_role", "usage"}]
    /\ row \in [Orders -> {"none", "pending", "paid", "finalizing", "finalized", "failed"}]
    /\ final \in [Orders -> Nat]
    /\ roles \in Seq([order : Orders \cup {None}, credit : Credits \cup {None}])
    /\ documented \subseteq DOMAIN roles /\ unheard \subseteq DOMAIN roles
    /\ credit \in [Credits -> [status : {"unused", "voided", "claimed", "used"}, role : Nat]]
    /\ session \in [Orders -> [Sessions -> {"none", "open", "paid", "waiting", "paid_late", "declined"}]]
    /\ deduped \subseteq Events
    /\ at \in [Workers -> Plain \cup Crediting \cup Using \cup Searching \cup Building]

Paid(o) == {s \in Sessions : session[o][s] \in {"paid", "paid_late"}}

(* A pending purchase never has more roles than it has settled payments,   *)
(* and a purchase without charge never more than one, however often its    *)
(* events are repeated, its handlers overlap, or inserts go unanswered.    *)
RolesWithinPayments ==
    \A o \in Orders :
        Cardinality(Linked(o)) <= IF plan[o] = "usage" THEN 1 ELSE Cardinality(Paid(o))

(* A handler that answers a settled payment as processed leaves a purchase *)
(* with a role that is linked to it and has its job-description file and   *)
(* its knowledge-base document; or one that a declined session of the same *)
(* checkout had already failed.  Its rubric and its description text are   *)
(* not promised: that write may fail unnoticed (EnrichRole).               *)
SettledAnswerHasRole ==
    \A e \in Events :
        e.kind = "settled" /\ At(e, "answer") =>
            \/ row[e.order] = "failed"
            \/ row[e.order] = "finalized" /\ final[e.order] \in Linked(e.order) \cap documented

(* A prepaid credit buys one role: of the roles made on it at most one was *)
(* answered as made, there is none while the credit is unused, and a used  *)
(* credit names it.                                                        *)
CreditBuysOneRole ==
    \A c \in Credits :
        LET answered == {i \in DOMAIN roles : roles[i].credit = c} \ unheard
        IN  /\ Cardinality(answered) <= 1
            /\ credit[c].status = "unused" => answered = {}
            /\ credit[c].status = "used" => answered = {credit[c].role}
=============================================================================
