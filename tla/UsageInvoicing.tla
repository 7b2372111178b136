--------------------------- MODULE UsageInvoicing ---------------------------
(***************************************************************************)
(* Billing one Enterprise client's metered interviews to Stripe.  Two      *)
(* paths reach applyUsageToInvoice: the invoice.created webhook, for the   *)
(* platform-fee invoice Stripe opens each cycle, and an immediate invoice  *)
(* the daily job or an administrator raises.  Both reserve interviews in   *)
(* usage_billing_ledger (unique per interview), create one Stripe item per *)
(* role, and stamp the rows the item paid for.                             *)
(*                                                                         *)
(* Every call to the database or to Stripe is an action: any of them can   *)
(* fail, its answer can be lost, and the process can stop between two of   *)
(* them.  A cycle invoice has at most one worker at a time, because the    *)
(* delivery of its event inserts a row of billing_events unique per event; *)
(* an immediate invoice belongs to the run that created it.                *)
(*                                                                         *)
(* Interviews are the ones the allocation assigns to usage, at one price;  *)
(* a price group is then a role.  Left out: the accepted-terms cohort (its *)
(* writers are fenced off this path), amounts, labels, page limits.        *)
(***************************************************************************)
EXTENDS Integers, FiniteSets, BilledClient

CONSTANTS
    Assignments,  \* bound: the ways the interviews may belong to roles
    Cycles,       \* platform-fee invoices, opened by Stripe
    Runs,         \* immediate invoices, one per run that may raise one
    ItemIds,      \* identifiers Stripe gives invoice items
    LastMonth     \* bound: months are numbered 1..LastMonth

ASSUME AssignmentsType == Assignments \subseteq [Interviews -> Roles]
ASSUME Distinct == Cycles \cap Runs = {} /\ None \notin Cycles \cup Runs
ASSUME LastMonthIsNat == LastMonth \in Nat \ {0}

Invoices == Cycles \cup Runs
Months == 1..LastMonth
NoMonth == 0          \* completed_at is null

VARIABLES
    month,     \* the current UTC month
    roleOf,    \* interviews.role_id
    done,      \* interviews that were completed
    at,        \* month of interviews.completed_at, NoMonth when null
    ledger,    \* usage_billing_ledger.stripe_invoice_id, None when no row
    stamped,   \* rows with billed_at
    itemOn,    \* Stripe: the invoice each item is on, None when not created
    itemFor,   \* Stripe: the interviews an item's usage_operation key names
    invoice,   \* Stripe: the status of each invoice
    asOf,      \* the month an invoice is anchored on, NoMonth before it exists
    payload,   \* the invoice status the event of each cycle carries
    event,     \* its delivery: none, pending (Stripe retries), acked, or
               \* overtaken: acked by a second delivery while a worker ran
    dedupe,    \* cycles whose event has a billing_events row
    pc,        \* the worker of each invoice
    want,      \* the interviews it computed
    lines,     \* price groups it still has to bill
    group      \* the group whose item exists and whose rows it must stamp

clock  == <<month, roleOf, done, at>>
rows   == <<ledger, stamped>>
stripe == <<itemOn, itemFor, invoice>>
hook   == <<payload, event, dedupe>>
work   == <<pc, want, lines, group>>
vars   == <<clock, rows, stripe, asOf, hook, work>>

Rows(v) == {i \in Interviews : ledger[i] = v}
Unstamped(v) == {i \in Rows(v) : i \notin stamped}

\* computeUnbilledUsage: off the ledger, and completed in the month before the
\* anchor or with no completion time at all
Billable(v) == {i \in done : ledger[i] = None /\ at[i] \in {NoMonth, asOf[v] - 1}}

\* linesFromLedgerRows: one line per role
Groups(S) == {{i \in S : roleOf[i] = r} : r \in {roleOf[i] : i \in S}}

Init ==
    /\ month = 1 /\ roleOf \in Assignments /\ done = {} /\ at = [i \in Interviews |-> NoMonth]
    /\ ledger = [i \in Interviews |-> None] /\ stamped = {}
    /\ itemOn = [x \in ItemIds |-> None] /\ itemFor = [x \in ItemIds |-> {}]
    /\ invoice = [v \in Invoices |-> "none"]
    /\ asOf = [v \in Invoices |-> NoMonth]
    /\ payload = [c \in Cycles |-> "none"]
    /\ event = [c \in Cycles |-> "none"]
    /\ dedupe = {}
    /\ pc = [v \in Invoices |-> "idle"]
    /\ want = [v \in Invoices |-> {}]
    /\ lines = [v \in Invoices |-> {}]
    /\ group = [v \in Invoices |-> {}]

----------------------------------------------------------------------------
(* Around the billing code: time, interviews, Stripe and its webhooks.     *)

MonthEnds ==
    /\ month < LastMonth
    /\ month' = month + 1
    /\ UNCHANGED <<roleOf, done, at, rows, stripe, asOf, hook, work>>

\* An interview completes; its completion stamp may fail.
Complete(i) ==
    /\ i \notin done
    /\ done' = done \cup {i}
    /\ \E m \in {month, NoMonth} : at' = [at EXCEPT ![i] = m]
    /\ UNCHANGED <<month, roleOf, rows, stripe, asOf, hook, work>>

\* Stripe opens the invoice of a cycle, at most one a month, and announces it.
CycleOpens(c) ==
    /\ invoice[c] = "none"
    /\ \A d \in Cycles : asOf[d] # month
    /\ \E s \in {"draft", "open"} :
        /\ invoice' = [invoice EXCEPT ![c] = s]
        /\ payload' = [payload EXCEPT ![c] = s]
    /\ asOf' = [asOf EXCEPT ![c] = month]
    /\ event' = [event EXCEPT ![c] = "pending"]
    /\ UNCHANGED <<clock, rows, itemOn, itemFor, dedupe, work>>

\* Stripe finalizes a cycle's draft about an hour later, items or not.
CycleFinalizes(c) ==
    /\ invoice[c] = "draft"
    /\ invoice' = [invoice EXCEPT ![c] = "open"]
    /\ UNCHANGED <<clock, rows, itemOn, itemFor, asOf, hook, work>>

----------------------------------------------------------------------------
(* The webhook handler around applyUsageToInvoice.                         *)

Busy(v) == pc[v] \notin {"idle", "done", "dead"}

Deliver(c) ==
    /\ event[c] = "pending" /\ c \notin dedupe
    /\ dedupe' = dedupe \cup {c}
    /\ IF payload[c] = "draft"
       THEN pc' = [pc EXCEPT ![c] = "apply"] /\ UNCHANGED event
       ELSE event' = [event EXCEPT ![c] = "acked"] /\ UNCHANGED pc
    /\ UNCHANGED <<clock, rows, stripe, asOf, payload, want, lines, group>>

\* A delivery that finds the billing_events row is answered 200.
DeliverAgain(c) ==
    /\ event[c] = "pending" /\ c \in dedupe
    /\ event' = [event EXCEPT ![c] = IF Busy(c) THEN "overtaken" ELSE "acked"]
    /\ UNCHANGED <<clock, rows, stripe, asOf, payload, dedupe, work>>

----------------------------------------------------------------------------
(* createImmediateUsageInvoice up to its call of applyUsageToInvoice.      *)

\* An unstamped reservation, or a draft invoice of the same period, is held
\* for reconciliation.
NothingHeld ==
    /\ \A i \in Interviews : ledger[i] # None => i \in stamped
    /\ \A v \in Invoices : Rows(v) # {} /\ asOf[v] = month => invoice[v] # "draft"

\* Checked before the invoice is created, so that an empty one is never raised.
StartRun(k) ==
    /\ pc[k] = "idle" /\ asOf[k] = NoMonth
    /\ NothingHeld
    /\ \E i \in done : ledger[i] = None /\ at[i] \in {NoMonth, month - 1}
    /\ asOf' = [asOf EXCEPT ![k] = month]
    /\ pc' = [pc EXCEPT ![k] = "checked"]
    /\ UNCHANGED <<clock, rows, stripe, hook, want, lines, group>>

CreateInvoice(k) ==
    /\ pc[k] = "checked"
    /\ invoice' = [invoice EXCEPT ![k] = "draft"]
    /\ pc' = [pc EXCEPT ![k] = "apply"]
    /\ UNCHANGED <<clock, rows, itemOn, itemFor, asOf, hook, want, lines, group>>

----------------------------------------------------------------------------
(* applyUsageToInvoice.                                                    *)

\* The worker's local variables end with it.
Forgets(v) ==
    /\ want' = [want EXCEPT ![v] = {}]
    /\ lines' = [lines EXCEPT ![v] = {}]
    /\ group' = [group EXCEPT ![v] = {}]

\* It answers applied: false.  The webhook acknowledges; a run discards its
\* empty draft.
NotApplied(v) ==
    /\ IF v \in Cycles
       THEN /\ pc' = [pc EXCEPT ![v] = "idle"]
            /\ event' = [event EXCEPT ![v] = "acked"]
       ELSE /\ pc' = [pc EXCEPT ![v] = "discard"]
            /\ UNCHANGED event
    /\ Forgets(v)

NothingToApply(v) ==
    /\ pc[v] = "apply"
    /\ IF Rows(v) # {} THEN Unstamped(v) = {} ELSE Billable(v) = {}
    /\ NotApplied(v)
    /\ UNCHANGED <<clock, rows, stripe, asOf, payload, dedupe>>

\* Rows this invoice reserved before: bill exactly those.
Resume(v) ==
    /\ pc[v] = "apply" /\ Unstamped(v) # {}
    /\ lines' = [lines EXCEPT ![v] = Groups(Unstamped(v))]
    /\ want' = [want EXCEPT ![v] = {}]
    /\ pc' = [pc EXCEPT ![v] = "bill"]
    /\ UNCHANGED <<clock, rows, stripe, asOf, hook, group>>

ComputeUsage(v) ==
    /\ pc[v] = "apply" /\ Rows(v) = {} /\ Billable(v) # {}
    /\ want' = [want EXCEPT ![v] = Billable(v)]
    /\ pc' = [pc EXCEPT ![v] = "reserve"]
    /\ UNCHANGED <<clock, rows, stripe, asOf, hook, lines, group>>

BillsWhatItComputed(v, got) == Groups(want[v])
LinesFor(v, got) == Groups(got)

\* The upsert skips interviews another invoice took meanwhile, and only the
\* rows it returns are billed.
ReserveRows(v) ==
    LET got == {i \in want[v] : ledger[i] = None}
    IN  /\ pc[v] = "reserve" /\ got # {}
        /\ ledger' = [i \in Interviews |-> IF i \in got THEN v ELSE ledger[i]]
        /\ lines' = [lines EXCEPT ![v] = LinesFor(v, got)]
        /\ pc' = [pc EXCEPT ![v] = "bill"]
        /\ UNCHANGED <<clock, stamped, stripe, asOf, hook, want, group>>

AlreadyReserved(v) ==
    /\ pc[v] = "reserve" /\ \A i \in want[v] : ledger[i] # None
    /\ NotApplied(v)
    /\ UNCHANGED <<clock, rows, stripe, asOf, payload, dedupe>>

NoItemFound(v, g) == {}
ItemsOf(v, g) == {x \in ItemIds : itemOn[x] = v /\ itemFor[x] = g}

\* Every usage item on the invoice must be one of its reserved groups.
PreflightClean(v) ==
    \A x \in ItemIds : itemOn[x] = v => itemFor[x] \in Groups(Rows(v))

MayBill(v, g) == pc[v] = "bill" /\ g \in lines[v] /\ PreflightClean(v)

\* The item of group g exists: its rows are stamped next.
HasItem(v, g) ==
    /\ lines' = [lines EXCEPT ![v] = @ \ {g}]
    /\ group' = [group EXCEPT ![v] = g]
    /\ pc' = [pc EXCEPT ![v] = "stamp"]

\* An earlier attempt's item for this operation is found on the invoice.
FindItem(v, g) ==
    /\ MayBill(v, g) /\ ItemsOf(v, g) # {}
    /\ HasItem(v, g)
    /\ UNCHANGED <<clock, rows, stripe, asOf, hook, want>>

ItemCreated(v, g) ==
    \E x \in ItemIds :
        /\ itemOn[x] = None
        /\ itemOn' = [itemOn EXCEPT ![x] = v]
        /\ itemFor' = [itemFor EXCEPT ![x] = g]
        /\ UNCHANGED invoice

\* Stripe takes a new item on a draft only.
CreateItem(v, g) ==
    /\ MayBill(v, g) /\ ItemsOf(v, g) = {} /\ invoice[v] = "draft"
    /\ ItemCreated(v, g)
    /\ HasItem(v, g)
    /\ UNCHANGED <<clock, rows, asOf, hook, want>>

WholeInvoice(v) == Rows(v)

\* markUsageLinesBilled: the line's interviews, scoped to the invoice
PaidFor(v) == group[v] \cap Rows(v)

StampRows(v) ==
    /\ pc[v] = "stamp"
    /\ stamped' = stamped \cup PaidFor(v)
    /\ group' = [group EXCEPT ![v] = {}]
    /\ pc' = [pc EXCEPT ![v] = "bill"]
    /\ UNCHANGED <<clock, ledger, stripe, asOf, hook, want, lines>>

\* All lines are billed: stamp missing completion times (one that cannot be
\* written is skipped), then acknowledge, or go on to finalize.
Applied(v) ==
    /\ pc[v] = "bill" /\ lines[v] = {}
    /\ \E S \in SUBSET {i \in want[v] : at[i] = NoMonth} :
           at' = [i \in Interviews |-> IF i \in S THEN month ELSE at[i]]
    /\ IF v \in Cycles
       THEN /\ pc' = [pc EXCEPT ![v] = "idle"]
            /\ event' = [event EXCEPT ![v] = "acked"]
       ELSE /\ pc' = [pc EXCEPT ![v] = "finalize"]
            /\ UNCHANGED event
    /\ Forgets(v)
    /\ UNCHANGED <<month, roleOf, done, rows, stripe, asOf, payload, dedupe>>

Finalize(k) ==
    /\ pc[k] = "finalize"
    /\ invoice' = [invoice EXCEPT ![k] = "open"]
    /\ pc' = [pc EXCEPT ![k] = "done"]
    /\ UNCHANGED <<clock, rows, itemOn, itemFor, asOf, hook, want, lines, group>>

\* A failed delete is logged and leaves the empty draft.
Discard(k) ==
    /\ pc[k] = "discard"
    /\ \E s \in {"deleted", "draft"} : invoice' = [invoice EXCEPT ![k] = s]
    /\ pc' = [pc EXCEPT ![k] = "done"]
    /\ UNCHANGED <<clock, rows, itemOn, itemFor, asOf, hook, want, lines, group>>

----------------------------------------------------------------------------
(* What can go wrong at any call.  A run that stops is not resumed.        *)

Stops(v, state) ==
    /\ pc' = [pc EXCEPT ![v] = state]
    /\ Forgets(v)
    /\ UNCHANGED <<clock, rows, stripe, asOf, payload, event>>

Ended(v) == IF v \in Cycles THEN "idle" ELSE "done"

KeepsEvent(v) == Stops(v, Ended(v)) /\ UNCHANGED dedupe

\* The webhook answers 500 after deleting its billing_events row.
Throws(v) == Stops(v, Ended(v)) /\ dedupe' = dedupe \ {v}

\* Stripe refuses the item: the invoice was finalized meanwhile.
ItemRefused(v) ==
    /\ \E g \in lines[v] : MayBill(v, g) /\ ItemsOf(v, g) = {} /\ invoice[v] # "draft"
    /\ Throws(v)

\* A call fails before or after taking effect.
CallFails(v) == Busy(v) /\ Throws(v)

\* The process dies, or the billing_events row could not be deleted.
Crash(v) == Busy(v) /\ Stops(v, "dead") /\ UNCHANGED dedupe

----------------------------------------------------------------------------
Apply(v) ==
    \/ NothingToApply(v) \/ Resume(v) \/ ComputeUsage(v)
    \/ ReserveRows(v) \/ AlreadyReserved(v)
    \/ \E g \in SUBSET Interviews : FindItem(v, g) \/ CreateItem(v, g)
    \/ ItemRefused(v) \/ StampRows(v) \/ Applied(v)

Work ==
    \/ \E v \in Invoices : Apply(v)
    \/ \E c \in Cycles : Deliver(c) \/ DeliverAgain(c)
    \/ \E k \in Runs : StartRun(k) \/ CreateInvoice(k) \/ Finalize(k) \/ Discard(k)

World ==
    \/ MonthEnds
    \/ \E i \in Interviews : Complete(i)
    \/ \E c \in Cycles : CycleOpens(c) \/ CycleFinalizes(c)

Mishap == \E v \in Invoices : CallFails(v) \/ Crash(v)

Next == Work \/ World \/ Mishap

Spec == Init /\ [][Next]_vars

\* A process runs its handler to the end, and Stripe keeps delivering.
Fairness ==
    /\ \A v \in Invoices : WF_vars(Apply(v))
    /\ \A c \in Cycles : WF_vars(Deliver(c) \/ DeliverAgain(c))

FairSpec == Spec /\ Fairness

----------------------------------------------------------------------------
(* Properties.                                                             *)

InvoiceStatuses == {"none", "draft", "open", "deleted"}

\* Every variable stays in its type.
TypeOK ==
    /\ month \in Months /\ done \subseteq Interviews
    /\ roleOf \in [Interviews -> Roles]
    /\ at \in [Interviews -> Months \cup {NoMonth}]
    /\ ledger \in [Interviews -> Invoices \cup {None}]
    /\ stamped \subseteq Interviews
    /\ itemOn \in [ItemIds -> Invoices \cup {None}]
    /\ itemFor \in [ItemIds -> SUBSET Interviews]
    /\ invoice \in [Invoices -> InvoiceStatuses]
    /\ asOf \in [Invoices -> Months \cup {NoMonth}]
    /\ payload \in [Cycles -> {"none", "draft", "open"}]
    /\ event \in [Cycles -> {"none", "pending", "acked", "overtaken"}]
    /\ dedupe \subseteq Cycles
    /\ pc \in [Invoices -> {"idle", "checked", "apply", "reserve", "bill", "stamp",
                            "finalize", "discard", "done", "dead"}]
    /\ want \in [Invoices -> SUBSET Interviews]
    /\ lines \in [Invoices -> SUBSET SUBSET Interviews]
    /\ group \in [Invoices -> SUBSET Interviews]

\* No interview is on two Stripe items, over both billing paths, redelivered
\* events, lost answers and crashes.
NoDoubleCharge ==
    \A x, y \in ItemIds :
        itemOn[x] # None /\ itemOn[y] # None /\ itemFor[x] \cap itemFor[y] # {} => x = y

\* A row with billed_at was paid for by an item of the invoice that reserved
\* it: an unstamped row can be retried, a stamped one is never retried.
StampedMeansCharged ==
    \A i \in stamped :
        \E x \in ItemIds : itemOn[x] = ledger[i] /\ itemOn[x] # None /\ i \in itemFor[x]

\* Reservations and Stripe items together implement the charge ledger.
Ledger == INSTANCE ChargeLedger WITH
    Charges <- ItemIds,
    owner <- ledger,
    charged <- [i \in Interviews |->
                   {x \in ItemIds : itemOn[x] # None /\ i \in itemFor[x]}]

ImplementsChargeLedger == Ledger!Spec

\* If calls stop failing, the redelivered event finishes what an attempt
\* left: an interview reserved on a cycle's invoice is stamped, unless Stripe
\* finalizes the draft first, or the event is lost: its process died, or a
\* second delivery overtook it.
CallsStopFailing == <>[][\A c \in Cycles : ~CallFails(c)]_vars

ReservationSettles ==
    CallsStopFailing =>
        \A c \in Cycles, i \in Interviews :
            ledger[i] = c ~>
                \/ i \in stamped \/ invoice[c] # "draft"
                \/ pc[c] = "dead" \/ event[c] = "overtaken"

\* docs/billing-models.md: after a failure part-way through, "the retry picks
\* up exactly the part that did not finish.  Nothing is lost".  Once Stripe
\* has its 200 and no worker runs, no row of the invoice is left unstamped.
NothingIsLost ==
    \A c \in Cycles :
        event[c] \in {"acked", "overtaken"} /\ ~Busy(c) => Unstamped(c) = {}

=============================================================================
