---------------------- MODULE PurchaseActivation_proofs ----------------------
(***************************************************************************)
(* Proofs about PurchaseActivation, for any sets of checkout requests,     *)
(* deliveries and requests of the representative, and any bounds.  A lease *)
(* that can be lost protects little: what a run concludes rests on facts   *)
(* that only grow -- the deal moves on to later agreements, and a payment, *)
(* a billing, a membership and a begun e-mail are never taken back.        *)
(***************************************************************************)
EXTENDS PurchaseActivation, TLAPS

-----------------------------------------------------------------------------
(* Types, the record sets named.                                           *)

Intents ==
    [agreement : Agreements, canceled : BOOLEAN, activated : BOOLEAN,
     status : {"agreement_pending", "checkout_pending", "completed", "canceled"},
     session : SessionIds, client : ClientIds, key : Workers \cup {None},
     lease : {"none", "fresh", "stale"}, billed : BOOLEAN]

AgreementRows ==
    [status : {"none", "sent", "signed", "superseded", "voided"}, expired : BOOLEAN,
     checkout : {"none", "pending", "paid"}, paid : BOOLEAN,
     session : SessionIds, client : ClientIds]

StripeSessions == [status : {"none", "open", "paid", "expired"}, client : ClientIds]

WorkerPcs == {"idle", "claim", "answer"} \cup Claimed

WorkerStates ==
    [pc : WorkerPcs, agreement : Agreements, event : Events,
     client : ClientIds, fenced : BOOLEAN, lost : BOOLEAN, ok : BOOLEAN]

CheckoutPcs == {"idle", "agreement", "intent", "create", "record", "finish", "handed", "done"}
CheckoutStates == [pc : CheckoutPcs, agreement : Agreements, client : ClientIds]

SalesPcs == {"idle", "expire_cancel", "expire_replace", "cancel", "replace", "done"}
SalesStates == [pc : SalesPcs, agreement : Agreements, session : SessionIds, client : ClientIds]

Buyers == [user : BOOLEAN, member : BOOLEAN, won : BOOLEAN]
Welcomes == [status : {"none", "reserved", "sending", "sent", "skipped", "suppressed"},
             token : Workers \cup {None}, sends : Nat]

RowTypes == intent \in Intents /\ agreement \in [Agreements -> AgreementRows]
StripeTypes ==
    /\ session \in [Agreements -> StripeSessions]
    /\ event \in [Agreements -> [Events -> {"none", "pending", "acked"}]]
RequestTypes ==
    /\ checkout \in [Checkouts -> CheckoutStates]
    /\ sales \in [Requests -> SalesStates]
PeopleTypes == buyer \in Buyers /\ welcome \in Welcomes

Types ==
    /\ RowTypes /\ StripeTypes /\ RequestTypes /\ PeopleTypes
    /\ worker \in [Workers -> WorkerStates] /\ mishaps \in 0..MaxMishaps

-----------------------------------------------------------------------------
(* The inductive invariant.                                                *)

\* A purchase that is activated stands on a paid agreement, a canceled one
\* on a voided agreement, and its status says no more than that.
DealSound ==
    /\ PaidIsCurrent
    /\ intent.activated => agreement[intent.agreement].paid
    /\ intent.status = "completed" => intent.activated
    /\ intent.status = "canceled" => intent.canceled
    /\ intent.canceled => agreement[intent.agreement].status = "voided"

\* The set-up of the buyer is over, but for the sale's announcement.
WelcomeBegun == welcome.status \notin {"none", "reserved"}
SetUp == intent.activated /\ intent.billed /\ buyer.member /\ WelcomeBegun
Done(a) == Moved(a) \/ Closed \/ SetUp

\* Nothing is opened, paid or delivered for an agreement that is not issued,
\* and a replacement has one to issue.
CheckoutsSound == \A c \in Checkouts : checkout[c].agreement <= intent.agreement
SalesSound ==
    \A r \in Requests :
        sales[r].pc \in {"expire_replace", "replace"} => sales[r].agreement + 1 \in Agreements
SessionsSound == \A a \in Agreements : session[a].status # "none" => a <= intent.agreement
EventsSound ==
    \A a \in Agreements, e \in Events :
        /\ event[a][e] # "none" => a <= intent.agreement
        /\ event[a][e] = "acked" => Done(a)

WelcomeSound == welcome.sends <= 1 /\ (welcome.sends # 0 => WelcomeBegun)

\* What a place in the run implies; each set goes on from the one before it.
Mailing == {"send", "finish_sent", "finish_skipped", "announce"}
Joined == {"reserve", "begin"} \cup Mailing
Billed == {"account", "create", "mail", "member"} \cup Joined

WorkerSound(w) ==
    /\ worker[w].agreement <= intent.agreement
    /\ worker[w].pc \in Billed => intent.activated /\ intent.billed
    /\ worker[w].pc \in Joined => buyer.member
    /\ worker[w].pc \in Mailing => WelcomeBegun
    /\ worker[w].pc = "send" => welcome.sends = 0
    /\ worker[w].ok => Done(worker[w].agreement)

WorkersSound == \A w \in Workers : WorkerSound(w)

OneSender == \A v, w \in Workers : worker[v].pc = "send" /\ worker[w].pc = "send" => v = w

IInv ==
    /\ Types /\ DealSound /\ CheckoutsSound /\ SalesSound /\ SessionsSound /\ EventsSound
    /\ TailFollowsBilling /\ WelcomeSound /\ WorkersSound /\ OneSender

-----------------------------------------------------------------------------
(* What only grows.                                                        *)

LEMMA TypeParts == TypeOK <=> Types
BY DEF TypeOK, Types, RowTypes, StripeTypes, RequestTypes, PeopleTypes, Intents, AgreementRows,
       StripeSessions, WorkerPcs, WorkerStates, CheckoutPcs, CheckoutStates, SalesPcs, SalesStates,
       Buyers, Welcomes

Grown ==
    /\ intent.agreement <= intent'.agreement
    /\ intent.activated => intent'.activated
    /\ intent.billed => intent'.billed
    /\ \A a \in Agreements : a <= intent.agreement /\ Moved(a) => Moved(a)'
    /\ Closed => Closed'

PeopleGrown == (buyer.member => buyer'.member) /\ (WelcomeBegun => WelcomeBegun')

LEMMA DoneStays ==
    ASSUME Grown, PeopleGrown, NEW a \in Agreements, a <= intent.agreement, Done(a)
    PROVE  Done(a)'
BY DEF Grown, PeopleGrown, Done, SetUp

\* The deal, but for its links, its lease and a status that is overwritten.
SameDeal ==
    /\ intent'.agreement = intent.agreement /\ intent'.canceled = intent.canceled
    /\ intent'.activated = intent.activated /\ (intent.billed => intent'.billed)
    /\ intent'.status \in {intent.status, "checkout_pending"}
    /\ \A a \in Agreements :
           agreement'[a].status = agreement[a].status /\ agreement'[a].paid = agreement[a].paid

LEMMA SameDealSound ==
    ASSUME RowTypes, DealSound, SameDeal
    PROVE  DealSound' /\ Grown
<1>0. intent.agreement \in Agreements /\ intent.agreement \in Int
  BY DEF RowTypes, Intents, Agreements
<1>1. Closed' = Closed
  BY DEF SameDeal, DealSound, Closed
<1>2. \A a \in Agreements : Current(a)' = Current(a) /\ Moved(a)' = Moved(a)
  BY <1>0 DEF SameDeal, Current, Moved
<1>3. PaidIsCurrent'
  BY <1>1, <1>2 DEF DealSound, SameDeal, PaidIsCurrent
<1>4. DealSound'
  BY <1>0, <1>3 DEF DealSound, SameDeal
<1> QED
  BY <1>0, <1>1, <1>2, <1>4 DEF Grown, SameDeal

\* An activated deal is not closed.
LEMMA ActivatedIsOpen ==
    ASSUME RowTypes, DealSound, intent.activated
    PROVE  ~Closed
BY DEF RowTypes, Intents, DealSound, PaidIsCurrent

-----------------------------------------------------------------------------
(* What keeps each part.                                                   *)

LEMMA EventsKept ==
    ASSUME IInv, Grown, PeopleGrown, UNCHANGED event, RowTypes'
    PROVE  EventsSound'
<1>1. intent.agreement \in Int /\ intent'.agreement \in Int /\ \A a \in Agreements : a \in Int
  BY DEF IInv, Types, RowTypes, Intents, Agreements
<1> SUFFICES ASSUME NEW a \in Agreements, NEW e \in Events
             PROVE  /\ event[a][e] # "none" => a <= intent'.agreement
                    /\ event[a][e] = "acked" => Done(a)'
  BY DEF EventsSound
<1>2. event[a][e] # "none" => a <= intent.agreement
  BY DEF IInv, EventsSound
<1>3. event[a][e] = "acked" => Done(a)
  BY DEF IInv, EventsSound
<1> QED
  BY <1>1, <1>2, <1>3, DoneStays DEF Grown

LEMMA SessionsKept ==
    ASSUME IInv, Grown, UNCHANGED session, RowTypes'
    PROVE  SessionsSound'
BY DEF IInv, Types, RowTypes, Intents, Agreements, SessionsSound, Grown

LEMMA CheckoutsKept ==
    ASSUME IInv, Grown, UNCHANGED checkout, RowTypes'
    PROVE  CheckoutsSound'
BY DEF IInv, Types, RowTypes, RequestTypes, Intents, CheckoutStates, Agreements, CheckoutsSound, Grown

\* A delivery that goes nowhere new stays sound.
LEMMA StaysSound ==
    ASSUME IInv, NEW w \in Workers, Grown, PeopleGrown, RowTypes',
           worker'[w].agreement = worker[w].agreement, worker'[w].ok = worker[w].ok,
           worker'[w].pc = worker[w].pc \/ worker'[w].pc \notin Billed,
           worker[w].pc = "send" => welcome'.sends = welcome.sends
    PROVE  WorkerSound(w)'
<1>1. /\ intent.agreement \in Int /\ intent'.agreement \in Int
      /\ worker[w].agreement \in Agreements /\ worker[w].agreement \in Int
  BY DEF IInv, Types, RowTypes, Intents, WorkerStates, Agreements
<1>2. WorkerSound(w)
  BY DEF IInv, WorkersSound
<1>3. worker[w].ok => Done(worker[w].agreement)'
  BY <1>1, <1>2, DoneStays DEF WorkerSound
<1>4. worker'[w].ok => Done(worker[w].agreement)'
  BY <1>3
<1>5. "send" \in Billed /\ Mailing \subseteq Joined /\ Joined \subseteq Billed
  BY DEF Billed, Joined, Mailing
<1> QED
  BY <1>1, <1>2, <1>4, <1>5 DEF WorkerSound, Grown, PeopleGrown, Done, Moved

\* A step beside the deliveries: it may change the rows and the requests.
LEMMA RequestStep ==
    ASSUME IInv, RowTypes', RequestTypes', mishaps' \in 0..MaxMishaps, UNCHANGED <<stripe, worker, people>>,
           DealSound', Grown, CheckoutsSound', SalesSound'
    PROVE  IInv'
<1>1. UNCHANGED <<session, event, worker, buyer, welcome>>
  BY DEF stripe, people
<1>2. Types'
  BY <1>1 DEF IInv, Types, StripeTypes, PeopleTypes
<1>3. PeopleGrown /\ WelcomeSound'
  BY <1>1 DEF PeopleGrown, IInv, WelcomeSound, WelcomeBegun
<1>4. EventsSound' /\ SessionsSound'
  BY <1>1, <1>3, EventsKept, SessionsKept
<1>5. TailFollowsBilling'
  <2>1. intent'.activated => ~Closed'
    BY DEF RowTypes, Intents, DealSound, PaidIsCurrent
  <2> QED
    BY <1>1, <2>1 DEF IInv, TailFollowsBilling, Grown
<1>6. WorkersSound' /\ OneSender'
  <2>1. \A w \in Workers : WorkerSound(w)'
    BY <1>1, <1>3, StaysSound
  <2> QED
    BY <1>1, <2>1 DEF WorkersSound, IInv, OneSender
<1> QED
  BY <1>2, <1>3, <1>4, <1>5, <1>6 DEF IInv

\* A step of Stripe's, or of a request that changes no row.
LEMMA StripeStep ==
    ASSUME IInv, StripeTypes', RequestTypes', mishaps' \in 0..MaxMishaps, UNCHANGED <<rows, worker, people>>,
           CheckoutsSound', SalesSound', SessionsSound', EventsSound'
    PROVE  IInv'
<1>1. UNCHANGED <<intent, agreement, worker, buyer, welcome>>
  BY DEF rows, people
<1>2. Types'
  BY <1>1 DEF IInv, Types, RowTypes, PeopleTypes
<1>3. DealSound'
  BY <1>1 DEF IInv, DealSound, PaidIsCurrent, Current, Closed
<1>4. TailFollowsBilling' /\ WelcomeSound'
  BY <1>1 DEF IInv, TailFollowsBilling, Closed, WelcomeSound, WelcomeBegun
<1>5. WorkersSound' /\ OneSender'
  BY <1>1 DEF IInv, WorkersSound, WorkerSound, OneSender, Done, Moved, Closed, SetUp, WelcomeBegun
<1> QED
  BY <1>2, <1>3, <1>4, <1>5 DEF IInv

\* A step of delivery w; the others stay where they are.
OneWorker(w) ==
    /\ worker' \in [Workers -> WorkerStates]
    /\ \A v \in Workers \ {w} : worker'[v] = worker[v]

LEMMA WorkerStep ==
    ASSUME IInv, NEW w \in Workers, OneWorker(w), WorkerSound(w)',
           RowTypes', PeopleTypes', mishaps' \in 0..MaxMishaps, UNCHANGED <<session, checkout, sales>>,
           event' \in [Agreements -> [Events -> {"none", "pending", "acked"}]], EventsSound',
           DealSound', Grown, PeopleGrown, TailFollowsBilling', WelcomeSound',
           welcome'.sends = welcome.sends \/ worker[w].pc = "send",
           worker'[w].pc = "send" => \A v \in Workers \ {w} : worker[v].pc # "send"
    PROVE  IInv'
<1>1. Types'
  BY DEF IInv, Types, StripeTypes, RequestTypes, OneWorker
<1>2. SessionsSound' /\ CheckoutsSound' /\ SalesSound'
  BY SessionsKept, CheckoutsKept DEF IInv, SalesSound
<1>3. WorkersSound'
  <2> SUFFICES ASSUME NEW v \in Workers \ {w} PROVE WorkerSound(v)'
    BY DEF WorkersSound
  <2>1. worker[v].pc = "send" => welcome'.sends = welcome.sends
    BY DEF IInv, OneSender
  <2> QED
    BY <2>1, StaysSound DEF OneWorker
<1>4. OneSender'
  BY DEF IInv, OneSender, OneWorker
<1> QED
  BY <1>1, <1>2, <1>3, <1>4 DEF IInv

\* A delivery that leaves the people alone.
LEMMA LeaseStep ==
    ASSUME IInv, NEW w \in Workers, OneWorker(w), WorkerSound(w)',
           RowTypes', mishaps' \in 0..MaxMishaps, UNCHANGED <<stripe, checkout, sales, people>>,
           DealSound', Grown,
           worker'[w].pc = "send" => worker[w].pc = "send"
    PROVE  IInv'
<1>1. UNCHANGED <<session, event, buyer, welcome>>
  BY DEF stripe, people
<1>2. PeopleGrown /\ WelcomeSound' /\ PeopleTypes'
  BY <1>1 DEF PeopleGrown, IInv, WelcomeSound, WelcomeBegun, Types, PeopleTypes
<1>3. EventsSound'
  BY <1>1, <1>2, EventsKept
<1>4. TailFollowsBilling'
  <2>1. intent'.activated => ~Closed'
    BY DEF RowTypes, Intents, DealSound, PaidIsCurrent
  <2> QED
    BY <1>1, <2>1 DEF IInv, TailFollowsBilling, Grown
<1>5. worker'[w].pc = "send" => \A v \in Workers \ {w} : worker[v].pc # "send"
  BY DEF IInv, OneSender
<1>6. event' \in [Agreements -> [Events -> {"none", "pending", "acked"}]]
  BY <1>1 DEF IInv, Types, StripeTypes
<1> QED
  BY <1>1, <1>2, <1>3, <1>4, <1>5, <1>6, WorkerStep

\* A delivery that leaves the rows alone.
LEMMA RowsKept ==
    ASSUME IInv, UNCHANGED rows
    PROVE  RowTypes' /\ SameDeal /\ DealSound' /\ Grown
<1>1. RowTypes' /\ SameDeal
  BY DEF rows, IInv, Types, RowTypes, SameDeal
<1> QED
  BY <1>1, SameDealSound DEF IInv, Types

-----------------------------------------------------------------------------
(* The buyer and the representative.                                       *)

LEMMA RequestRows ==
    ASSUME IInv
    PROVE  /\ intent \in Intents /\ agreement \in [Agreements -> AgreementRows]
           /\ intent.agreement \in Agreements /\ intent.client \in ClientIds /\ intent.session \in SessionIds
           /\ \A a \in Agreements : agreement[a] \in AgreementRows /\ agreement[a].client \in ClientIds
           /\ \A c \in Checkouts : /\ checkout[c] \in CheckoutStates /\ checkout[c].agreement \in Agreements
                                   /\ checkout[c].client \in ClientIds
           /\ \A r \in Requests : /\ sales[r] \in SalesStates /\ sales[r].agreement \in Agreements
                                  /\ sales[r].session \in SessionIds /\ sales[r].client \in ClientIds
BY DEF IInv, Types, RowTypes, RequestTypes, Intents, AgreementRows, CheckoutStates, SalesStates

\* Requests that go on with their agreement.
LEMMA CheckoutGoes ==
    ASSUME IInv, NEW c \in Checkouts, NEW s \in CheckoutPcs, checkout' = [checkout EXCEPT ![c].pc = s],
           intent.agreement <= intent'.agreement, RowTypes'
    PROVE  checkout' \in [Checkouts -> CheckoutStates] /\ CheckoutsSound'
<1>1. checkout' \in [Checkouts -> CheckoutStates]
  BY RequestRows DEF IInv, Types, RequestTypes, CheckoutStates
<1>2. \A b \in Checkouts : checkout'[b].agreement = checkout[b].agreement
  BY RequestRows DEF IInv, Types, RequestTypes, CheckoutStates
<1> QED
  BY <1>1, <1>2, RequestRows DEF CheckoutsSound, IInv, RowTypes, Intents, Agreements

LEMMA SalesGoes ==
    ASSUME IInv, NEW r \in Requests, NEW s \in SalesPcs, sales' = [sales EXCEPT ![r].pc = s],
           s = "replace" => sales[r].pc = "expire_replace", s # "expire_replace"
    PROVE  sales' \in [Requests -> SalesStates] /\ SalesSound'
<1>1. sales' \in [Requests -> SalesStates]
  BY RequestRows DEF IInv, Types, RequestTypes, SalesStates
<1>2. \A q \in Requests : /\ sales'[q].agreement = sales[q].agreement
                          /\ sales'[q].pc = IF q = r THEN s ELSE sales[q].pc
  BY RequestRows DEF IInv, Types, RequestTypes, SalesStates
<1> QED
  BY <1>1, <1>2 DEF IInv, SalesSound

LEMMA ClocksSound ==
    ASSUME IInv, NEW a \in Agreements, Signs(a) \/ Expires(a)
    PROVE  IInv'
<1>1. UNCHANGED <<intent, stripe, worker, checkout, sales, people, mishaps>>
  BY DEF Signs, Expires
<1>2. RowTypes' /\ RequestTypes' /\ mishaps' \in 0..MaxMishaps
  <2>1. agreement' \in {[agreement EXCEPT ![a].status = "signed"], [agreement EXCEPT ![a].expired = TRUE]}
    BY DEF Signs, Expires
  <2>2. agreement \in [Agreements -> AgreementRows]
    BY RequestRows
  <2>3. /\ [agreement EXCEPT ![a].status = "signed"] \in [Agreements -> AgreementRows]
        /\ [agreement EXCEPT ![a].expired = TRUE] \in [Agreements -> AgreementRows]
    BY <2>2 DEF AgreementRows
  <2>4. agreement' \in [Agreements -> AgreementRows]
    BY <2>1, <2>3
  <2> QED
    BY <1>1, <2>4 DEF IInv, Types, RowTypes, RequestTypes
<1>3. DealSound' /\ Grown
  <2>1. CASE Expires(a)
    <3>1. \A b \in Agreements : agreement'[b].status = agreement[b].status /\ agreement'[b].paid = agreement[b].paid
      BY <2>1, RequestRows DEF Expires, AgreementRows
    <3> QED
      BY <1>1, <3>1, SameDealSound DEF SameDeal, IInv, Types
  <2>2. CASE Signs(a)
    <3>1. \A b \in Agreements : /\ agreement'[b].paid = agreement[b].paid
                                /\ agreement'[b].status = IF b = a THEN "signed" ELSE agreement[b].status
      BY <2>2, RequestRows DEF Signs, AgreementRows
    <3>2. agreement[a].status = "sent" /\ intent.agreement \in Agreements /\ intent.agreement \in Int
      BY <2>2, RequestRows DEF Signs, Agreements
    <3>3. PaidIsCurrent'
      BY <1>1, <3>1, <3>2 DEF IInv, DealSound, PaidIsCurrent, Current, Closed
    <3>5. DealSound'
      BY <1>1, <3>1, <3>2, <3>3 DEF IInv, DealSound
    <3>4. Grown
      BY <1>1, <3>1, <3>2 DEF Grown, Moved, Closed
    <3> QED
      BY <3>4, <3>5
  <2> QED
    BY <2>1, <2>2
<1>4. CheckoutsSound' /\ SalesSound'
  BY <1>1 DEF IInv, CheckoutsSound, SalesSound
<1> QED
  BY <1>1, <1>2, <1>3, <1>4, RequestStep

LEMMA OpensCheckoutSound ==
    ASSUME IInv, NEW c \in Checkouts, NEW a \in Agreements, OpensCheckout(c, a)
    PROVE  IInv'
<1>1. UNCHANGED <<rows, stripe, worker, sales, people, mishaps>> /\ intent.agreement = a
  BY DEF OpensCheckout
<1>2. PICK s \in CheckoutPcs, i \in ClientIds :
        checkout' = [checkout EXCEPT ![c] = [pc |-> s, agreement |-> a, client |-> i]]
  <2>1. Coalesce(Coalesce(agreement[a].client, intent.client), c) \in ClientIds
    BY RequestRows DEF Coalesce, ClientIds
  <2> QED
    BY <2>1 DEF OpensCheckout, CheckoutPcs
<1>3. RequestTypes' /\ StripeTypes' /\ mishaps' \in 0..MaxMishaps
  BY <1>1, <1>2 DEF IInv, Types, RequestTypes, StripeTypes, stripe, CheckoutStates
<1>4. CheckoutsSound'
  BY <1>1, <1>2, RequestRows DEF rows, IInv, Types, RequestTypes, CheckoutsSound, Agreements
<1>5. SalesSound' /\ SessionsSound' /\ EventsSound'
  BY <1>1 DEF IInv, rows, stripe, people, SalesSound, SessionsSound, EventsSound, Done, Moved, Closed, SetUp, WelcomeBegun
<1> QED
  BY <1>1, <1>3, <1>4, <1>5, StripeStep

LEMMA LinksSound ==
    ASSUME IInv, NEW c \in Checkouts,
           LinksAgreement(c) \/ LinksIntent(c) \/ RecordsAgreement(c) \/ FinishesCheckout(c)
    PROVE  IInv'
<1>1. UNCHANGED <<stripe, worker, sales, people, mishaps>>
  BY DEF LinksAgreement, LinksIntent, RecordsAgreement, FinishesCheckout
<1>2. RowTypes'
  <2>1. CASE LinksAgreement(c)
    <3>1. agreement' \in {agreement, [agreement EXCEPT ![checkout[c].agreement].client = checkout[c].client]}
      BY <2>1 DEF LinksAgreement
    <3>2. agreement' \in [Agreements -> AgreementRows]
      BY <3>1, RequestRows DEF AgreementRows
    <3> QED
      BY <2>1, <3>2, RequestRows DEF LinksAgreement, RowTypes
  <2>2. CASE RecordsAgreement(c)
    <3>1. PICK a \in Agreements : a = checkout[c].agreement
      BY RequestRows
    <3>2. agreement' \in {agreement, [agreement EXCEPT ![a].checkout = "pending", ![a].session = a]}
      BY <2>2, <3>1 DEF RecordsAgreement
    <3>3. agreement' \in [Agreements -> AgreementRows]
      BY <3>2, RequestRows DEF AgreementRows, SessionIds
    <3> QED
      BY <2>2, <3>3, RequestRows DEF RecordsAgreement, RowTypes
  <2>3. CASE LinksIntent(c) \/ FinishesCheckout(c)
    BY <2>3, RequestRows DEF LinksIntent, FinishesCheckout, RowTypes, Intents, SessionIds
  <2> QED
    BY <2>1, <2>2, <2>3
<1>3. SameDeal
  <2>1. CASE LinksAgreement(c) \/ RecordsAgreement(c)
    <3>1. \A b \in Agreements : agreement'[b].status = agreement[b].status /\ agreement'[b].paid = agreement[b].paid
      BY <2>1, RequestRows DEF LinksAgreement, RecordsAgreement, AgreementRows
    <3> QED
      BY <2>1, <3>1 DEF LinksAgreement, RecordsAgreement, SameDeal
  <2>2. CASE LinksIntent(c) \/ FinishesCheckout(c)
    BY <2>2, RequestRows DEF LinksIntent, FinishesCheckout, SameDeal, Intents
  <2> QED
    BY <2>1, <2>2
<1>4. DealSound' /\ Grown
  BY <1>3, SameDealSound DEF IInv, Types
<1>5. \E s \in CheckoutPcs : checkout' = [checkout EXCEPT ![c].pc = s]
  BY DEF LinksAgreement, LinksIntent, RecordsAgreement, FinishesCheckout, CheckoutPcs
<1>6. checkout' \in [Checkouts -> CheckoutStates] /\ CheckoutsSound'
  BY <1>2, <1>4, <1>5, CheckoutGoes DEF Grown
<1>7. RequestTypes' /\ SalesSound' /\ mishaps' \in 0..MaxMishaps
  BY <1>1, <1>6 DEF IInv, Types, RequestTypes, SalesSound
<1> QED
  BY <1>1, <1>2, <1>4, <1>6, <1>7, RequestStep

\* Before its activation a deal has no paid agreement.
LEMMA UnpaidBefore ==
    ASSUME IInv, ~intent.activated
    PROVE  \A a \in Agreements : agreement[a].paid = FALSE
BY RequestRows DEF IInv, DealSound, PaidIsCurrent, AgreementRows

LEMMA CancelsSound ==
    ASSUME IInv, NEW r \in Requests, Cancels(r)
    PROVE  IInv'
<1>1. UNCHANGED <<stripe, worker, checkout, people, mishaps>> /\ sales' = [sales EXCEPT ![r].pc = "done"]
  BY DEF Cancels
<1>2. sales' \in [Requests -> SalesStates] /\ SalesSound'
  BY <1>1, SalesGoes DEF SalesPcs
<1>3. RowTypes' /\ DealSound' /\ Grown
  <2>1. CASE UNCHANGED rows
    BY <2>1, RowsKept
  <2>2. CASE Cancelable(r) /\ ~UNCHANGED rows
    <3>1. PICK k \in Agreements : k = intent.agreement
      BY RequestRows
    <3>2. sales[r].agreement = k /\ ~intent.activated /\ intent \in Intents
      BY <2>2, <3>1, RequestRows DEF Cancelable
    <3>3. /\ intent' = [intent EXCEPT !.status = "canceled", !.canceled = TRUE, !.key = None, !.lease = "none"]
          /\ agreement' = [agreement EXCEPT ![k].status = "voided"]
      BY <2>2, <3>2 DEF Cancels
    <3>4. intent' \in Intents
      BY <3>2, <3>3 DEF Intents
    <3>5. agreement \in [Agreements -> AgreementRows]
      BY RequestRows
    <3>6. agreement' \in [Agreements -> AgreementRows]
      BY <3>3, <3>5 DEF AgreementRows
    <3>7. \A b \in Agreements : /\ agreement'[b].paid = agreement[b].paid
                                /\ agreement'[b].status = IF b = k THEN "voided" ELSE agreement[b].status
      BY <3>3, <3>5 DEF AgreementRows
    <3>8. /\ intent'.agreement = k /\ intent'.canceled /\ ~intent'.activated /\ intent'.status = "canceled"
          /\ intent'.billed = intent.billed
      BY <3>1, <3>2, <3>3 DEF Intents
    <3>9. \A b \in Agreements : ~agreement'[b].paid
      BY <3>2, <3>7, UnpaidBefore
    <3>10. DealSound'
      BY <3>7, <3>8, <3>9 DEF DealSound, PaidIsCurrent
    <3>11. k \in Int
      BY DEF Agreements
    <3>12. Grown
      BY <3>1, <3>2, <3>7, <3>8, <3>11 DEF Grown, Moved, Closed
    <3> QED
      BY <3>4, <3>6, <3>10, <3>12 DEF RowTypes
  <2> QED
    BY <2>1, <2>2 DEF Cancels
<1>4. CheckoutsSound' /\ RequestTypes' /\ mishaps' \in 0..MaxMishaps
  BY <1>1, <1>2, <1>3, CheckoutsKept DEF IInv, Types, RequestTypes
<1> QED
  BY <1>1, <1>2, <1>3, <1>4, RequestStep

LEMMA ReplacesSound ==
    ASSUME IInv, NEW r \in Requests, Replaces(r)
    PROVE  IInv'
<1>1. UNCHANGED <<stripe, worker, checkout, people, mishaps>> /\ sales' = [sales EXCEPT ![r].pc = "done"]
  BY DEF Replaces
<1>2. sales' \in [Requests -> SalesStates] /\ SalesSound'
  BY <1>1, SalesGoes DEF SalesPcs
<1>3. RowTypes' /\ DealSound' /\ Grown
  <2>1. CASE UNCHANGED rows
    BY <2>1, RowsKept
  <2>2. CASE Replaceable(r) /\ ~UNCHANGED rows
    <3>1. PICK k \in Agreements, i \in ClientIds : k = intent.agreement /\ i = sales[r].client
      BY RequestRows
    <3>2. sales[r].agreement = k /\ ~intent.activated /\ intent \in Intents
      BY <2>2, <3>1, RequestRows DEF Replaceable
    <3>3. k + 1 \in Agreements /\ k \in Int
      BY <3>2 DEF IInv, SalesSound, Replaces, Agreements
    <3>4. /\ intent' = [intent EXCEPT !.agreement = k + 1, !.status = "agreement_pending",
                                      !.session = None, !.key = None, !.lease = "none"]
          /\ agreement' = [agreement EXCEPT ![k].status = "superseded", ![k + 1] = Issued("sent", i)]
      BY <2>2, <3>1, <3>2 DEF Replaces
    <3>5. intent' \in Intents
      BY <3>2, <3>3, <3>4 DEF Intents, SessionIds
    <3>6. agreement \in [Agreements -> AgreementRows]
      BY RequestRows
    <3>7. Issued("sent", i) \in AgreementRows /\ Issued("sent", i).paid = FALSE
      BY DEF Issued, AgreementRows, SessionIds
    <3>8. [agreement EXCEPT ![k].status = "superseded"] \in [Agreements -> AgreementRows]
      BY <3>6 DEF AgreementRows
    <3>9. agreement' \in [Agreements -> AgreementRows]
      BY <3>3, <3>4, <3>7, <3>8
    <3>10. \A b \in Agreements : agreement'[b].paid = IF b = k + 1 THEN FALSE ELSE agreement[b].paid
      BY <3>3, <3>4, <3>6, <3>7 DEF AgreementRows
    <3>11. /\ intent'.agreement = k + 1 /\ intent'.canceled = intent.canceled /\ ~intent'.activated
           /\ intent'.status = "agreement_pending" /\ intent'.billed = intent.billed
      BY <3>2, <3>4 DEF Intents
    <3>12. \A b \in Agreements : ~agreement'[b].paid
      BY <3>2, <3>10, UnpaidBefore
    <3>13. ~intent.canceled /\ ~Closed
      BY <2>2, <3>1, <3>2 DEF IInv, DealSound, Replaceable, OldIsReplaceable, Closed
    <3>14. DealSound'
      BY <3>11, <3>12, <3>13 DEF DealSound, PaidIsCurrent
    <3>15. Grown
      BY <3>1, <3>2, <3>3, <3>11, <3>13 DEF Grown, Moved, Agreements
    <3> QED
      BY <3>5, <3>9, <3>14, <3>15 DEF RowTypes
  <2> QED
    BY <2>1, <2>2 DEF Replaces
<1>4. CheckoutsSound' /\ RequestTypes' /\ mishaps' \in 0..MaxMishaps
  BY <1>1, <1>2, <1>3, CheckoutsKept DEF IInv, Types, RequestTypes
<1> QED
  BY <1>1, <1>2, <1>3, <1>4, RequestStep

\* What the deal's row keeps when only its lease changes.
LEMMA LeaseKept ==
    ASSUME IInv, UNCHANGED agreement, NEW i \in Workers \cup {None}, NEW s \in {"none", "fresh", "stale"},
           intent' = [intent EXCEPT !.key = i, !.lease = s]
    PROVE  RowTypes' /\ DealSound' /\ Grown
<1>1. RowTypes' /\ SameDeal
  BY RequestRows DEF RowTypes, SameDeal, Intents
<1> QED
  BY <1>1, SameDealSound DEF IInv, Types

LEMMA LeaseAgesSound ==
    ASSUME IInv, LeaseAges
    PROVE  IInv'
<1>1. UNCHANGED <<agreement, stripe, worker, checkout, sales, people>>
  BY DEF LeaseAges
<1>2. intent.key \in Workers \cup {None} /\ intent' = [intent EXCEPT !.key = intent.key, !.lease = "stale"]
  BY RequestRows DEF LeaseAges, Intents
<1>3. RowTypes' /\ DealSound' /\ Grown
  BY <1>1, <1>2, LeaseKept
<1>4. mishaps' \in 0..MaxMishaps
  BY BoundAssumption DEF LeaseAges, NoMishap, Mishap, IInv, Types
<1>5. RequestTypes' /\ CheckoutsSound' /\ SalesSound'
  BY <1>1, <1>3, CheckoutsKept DEF IInv, Types, RequestTypes, SalesSound
<1> QED
  BY <1>1, <1>3, <1>4, <1>5, RequestStep

\* What does not touch the rows or the people keeps what is done.
LEMMA DoneSame ==
    ASSUME UNCHANGED <<rows, people>>
    PROVE  intent' = intent /\ \A a \in Agreements : Done(a)' = Done(a)
BY DEF rows, people, Done, Moved, Closed, SetUp, WelcomeBegun

LEMMA RepresentativeSound ==
    ASSUME IInv, NEW r \in Requests, StartsCancel(r) \/ StartsReplace(r) \/ ExpiresSession(r)
    PROVE  IInv'
<1>1. UNCHANGED <<rows, event, worker, checkout, people, mishaps>>
  BY DEF StartsCancel, StartsReplace, ExpiresSession, stripe
<1>2. sales' \in [Requests -> SalesStates] /\ SalesSound'
  <2>1. CASE ExpiresSession(r)
    <3>1. PICK s \in SalesPcs : /\ sales' = [sales EXCEPT ![r].pc = s] /\ s # "expire_replace"
                                /\ (s = "replace" => sales[r].pc = "expire_replace")
      BY <2>1, RequestRows DEF ExpiresSession, SalesPcs, SalesStates
    <3> QED
      BY <3>1, SalesGoes
  <2>2. CASE StartsCancel(r) \/ StartsReplace(r)
    <3>1. Coalesce(intent.session, agreement[intent.agreement].session) \in SessionIds
      BY RequestRows DEF Coalesce, AgreementRows
    <3>2. Coalesce(agreement[intent.agreement].client, intent.client) \in ClientIds
      BY RequestRows DEF Coalesce
    <3>3. PICK s \in {"expire_cancel", "expire_replace"}, i \in SessionIds, j \in ClientIds :
            /\ sales' = [sales EXCEPT ![r] = [pc |-> s, agreement |-> intent.agreement, session |-> i, client |-> j]]
            /\ (s = "expire_replace" => intent.agreement + 1 \in Agreements)
      BY <2>2, <3>1, <3>2, RequestRows DEF StartsCancel, StartsReplace, ClientIds
    <3>4. sales' \in [Requests -> SalesStates]
      BY <3>3, RequestRows DEF IInv, Types, RequestTypes, SalesStates, SalesPcs
    <3>5. SalesSound'
      BY <3>3 DEF IInv, Types, RequestTypes, SalesSound
    <3> QED
      BY <3>4, <3>5
  <2> QED
    BY <2>1, <2>2
<1>3. session' = session \/ \E a \in Agreements :
        session[a].status = "open" /\ session' = [session EXCEPT ![a].status = "expired"]
  <2>1. CASE StartsCancel(r) \/ StartsReplace(r)
    BY <2>1 DEF StartsCancel, StartsReplace, stripe
  <2>2. CASE ExpiresSession(r)
    BY <2>2, RequestRows DEF ExpiresSession, SessionIds
  <2> QED
    BY <2>1, <2>2
<1>4. session' \in [Agreements -> StripeSessions] /\ SessionsSound'
  BY <1>1, <1>3, DoneSame DEF IInv, Types, StripeTypes, StripeSessions, SessionsSound
<1>5. EventsSound' /\ CheckoutsSound'
  BY <1>1, DoneSame DEF IInv, EventsSound, CheckoutsSound
<1> QED
  BY <1>1, <1>2, <1>4, <1>5, StripeStep DEF IInv, Types, StripeTypes, RequestTypes

LEMMA StripeSound ==
    ASSUME IInv, NEW a \in Agreements, Pays(a) \/ SessionLapses(a)
    PROVE  IInv'
<1>1. UNCHANGED <<rows, worker, checkout, sales, people, mishaps>> /\ session[a].status = "open"
  BY DEF Pays, SessionLapses
<1>2. session' \in {[session EXCEPT ![a].status = "paid"], [session EXCEPT ![a].status = "expired"]}
  BY DEF Pays, SessionLapses
<1>3. session' \in [Agreements -> StripeSessions] /\ SessionsSound'
  BY <1>1, <1>2, DoneSame DEF IInv, Types, StripeTypes, StripeSessions, SessionsSound
<1>4. event' = event \/ event' = [event EXCEPT ![a] = [e \in Events |-> "pending"]]
  BY DEF Pays, SessionLapses
<1>5. event' \in [Agreements -> [Events -> {"none", "pending", "acked"}]]
  BY <1>4 DEF IInv, Types, StripeTypes
<1>6. a <= intent.agreement
  BY <1>1 DEF IInv, SessionsSound
<1>7. \A b \in Agreements, e \in Events : event'[b][e] = event[b][e] \/ (b = a /\ event'[b][e] = "pending")
  BY <1>4 DEF IInv, Types, StripeTypes
<1>8. EventsSound'
  BY <1>1, <1>6, <1>7, DoneSame DEF IInv, EventsSound
<1>9. CheckoutsSound' /\ SalesSound'
  BY <1>1, DoneSame DEF IInv, CheckoutsSound, SalesSound
<1> QED
  BY <1>1, <1>3, <1>5, <1>8, <1>9, StripeStep DEF IInv, Types, StripeTypes, RequestTypes

LEMMA CreatesSessionSound ==
    ASSUME IInv, NEW c \in Checkouts, CreatesSession(c) \/ SessionRefused(c) \/ CheckoutFails(c)
    PROVE  IInv'
<1>1. UNCHANGED <<rows, event, worker, sales, people>>
  BY DEF CreatesSession, SessionRefused, CheckoutFails, stripe
<1>2. mishaps' \in 0..MaxMishaps
  BY BoundAssumption DEF CreatesSession, SessionRefused, CheckoutFails, Mishap, IInv, Types
<1>3. \E s \in CheckoutPcs : checkout' = [checkout EXCEPT ![c].pc = s]
  BY DEF CreatesSession, SessionRefused, CheckoutFails, CheckoutPcs
<1>4. intent.agreement <= intent'.agreement /\ RowTypes'
  BY <1>1, RequestRows DEF rows, Agreements, RowTypes
<1>5. checkout' \in [Checkouts -> CheckoutStates] /\ CheckoutsSound'
  BY <1>3, <1>4, CheckoutGoes
<1>6. PICK k \in Agreements, i \in ClientIds :
        k = checkout[c].agreement /\ i = checkout[c].client /\ k <= intent.agreement
  BY RequestRows DEF IInv, CheckoutsSound
<1>7. session' = session \/
      session' = [session EXCEPT ![k].client = i, ![k].status = IF @ = "none" THEN "open" ELSE @]
  BY <1>6 DEF CreatesSession, SessionRefused, CheckoutFails, stripe
<1>8. session' \in [Agreements -> StripeSessions]
  BY <1>7 DEF IInv, Types, StripeTypes, StripeSessions
<1>9. \A a \in Agreements : a # k => session'[a] = session[a]
  BY <1>7 DEF IInv, Types, StripeTypes, StripeSessions
<1>10. SessionsSound'
  BY <1>1, <1>6, <1>9, DoneSame DEF IInv, SessionsSound
<1>11. EventsSound' /\ SalesSound'
  BY <1>1, DoneSame DEF IInv, EventsSound, SalesSound
<1> QED
  BY <1>1, <1>2, <1>5, <1>8, <1>10, <1>11, StripeStep DEF IInv, Types, StripeTypes, RequestTypes

LEMMA ReconcilesSound ==
    ASSUME IInv, Reconciles
    PROVE  IInv'
<1>1. UNCHANGED <<rows, stripe, worker, checkout, sales, buyer, mishaps>>
  BY DEF Reconciles
<1>2. UNCHANGED <<intent, agreement, session, event>>
  BY <1>1 DEF rows, stripe
<1>3. /\ welcome' \in Welcomes /\ welcome'.sends = welcome.sends
      /\ WelcomeBegun /\ WelcomeBegun' /\ welcome.status # "none"
  BY DEF IInv, Types, PeopleTypes, Welcomes, Reconciles, WelcomeBegun
<1>4. Types'
  BY <1>1, <1>2, <1>3 DEF IInv, Types, RowTypes, StripeTypes, RequestTypes, PeopleTypes
<1>5. DealSound' /\ Grown /\ PeopleGrown
  BY <1>1, <1>3, RowsKept DEF PeopleGrown
<1>6. CheckoutsSound' /\ SalesSound' /\ SessionsSound' /\ EventsSound'
  BY <1>1, <1>2, <1>4, <1>5, CheckoutsKept, SessionsKept, EventsKept DEF IInv, SalesSound, Types
<1>7. TailFollowsBilling' /\ WelcomeSound'
  BY <1>1, <1>2, <1>3 DEF IInv, TailFollowsBilling, Closed, WelcomeSound
<1>8. \A w \in Workers : WorkerSound(w)'
  BY <1>1, <1>3, <1>4, <1>5, StaysSound DEF Types
<1> QED
  BY <1>1, <1>4, <1>5, <1>6, <1>7, <1>8 DEF IInv, WorkersSound, OneSender

-----------------------------------------------------------------------------
(* The deliveries: where they go.                                          *)

LEMMA Places ==
    /\ WorkerPcs = {"idle", "claim", "answer", "load", "release", "complete", "bill"} \cup Billed
    /\ "send" \in Mailing /\ Mailing \subseteq Joined /\ Joined \subseteq Billed
    /\ Billed \cap {"idle", "claim", "answer", "load", "release", "complete", "bill"} = {}
BY DEF WorkerPcs, Claimed, Stages, Billed, Joined, Mailing

LEMMA WorkerRow ==
    ASSUME IInv, NEW w \in Workers
    PROVE  /\ worker[w] \in WorkerStates /\ worker[w].agreement \in Agreements
           /\ worker[w].client \in ClientIds /\ worker[w].event \in Events /\ worker[w].pc \in WorkerPcs
           /\ WorkerSound(w)
BY DEF IInv, Types, WorkerStates, WorkersSound

\* Delivery w goes to s and stands for the same event.
GoesTo(w, s) ==
    /\ OneWorker(w) /\ worker'[w].pc = s
    /\ worker'[w].agreement = worker[w].agreement

LEMMA MovesGoes ==
    ASSUME IInv, NEW w \in Workers, NEW s \in WorkerPcs, Moves(w, s)
    PROVE  GoesTo(w, s) /\ worker'[w].ok = worker[w].ok
BY DEF Moves, GoesTo, OneWorker, IInv, Types, WorkerStates

LEMMA SucceedsGoes ==
    ASSUME IInv, NEW w \in Workers, Succeeds(w)
    PROVE  GoesTo(w, "release") /\ worker'[w].ok
<1>1. "release" \in WorkerPcs
  BY Places
<1> QED
  BY <1>1 DEF Succeeds, GoesTo, OneWorker, IInv, Types, WorkerStates

\* What the new place must imply.
LEMMA MovedSound ==
    ASSUME IInv, NEW w \in Workers, NEW s, GoesTo(w, s), Grown, PeopleGrown, RowTypes',
           worker'[w].ok => worker[w].ok \/ Done(worker[w].agreement) \/ SetUp',
           s \in Billed => intent'.activated /\ intent'.billed,
           s \in Joined => buyer'.member,
           s \in Mailing => WelcomeBegun',
           s = "send" => welcome'.sends = 0
    PROVE  WorkerSound(w)'
<1>1. PICK k \in Agreements : k = worker[w].agreement /\ k = worker'[w].agreement
  BY WorkerRow DEF GoesTo
<1>2. intent.agreement \in Int /\ intent'.agreement \in Int /\ k \in Int
  BY DEF IInv, Types, RowTypes, Intents, Agreements
<1>3. k <= intent.agreement /\ (worker[w].ok => Done(k))
  BY <1>1, WorkerRow DEF WorkerSound
<1>4. Done(k) => Done(k)'
  BY <1>3, DoneStays
<1>5. SetUp' => Done(k)'
  BY DEF Done
<1>6. worker'[w].ok => Done(k)'
  BY <1>1, <1>3, <1>4, <1>5
<1>7. worker'[w].agreement <= intent'.agreement
  BY <1>1, <1>2, <1>3 DEF Grown
<1>8. Done(worker[w].agreement)' <=> Done(k)'
  BY <1>1
<1> QED
  BY <1>6, <1>7, <1>8 DEF WorkerSound, GoesTo

LEMMA PeopleStep ==
    ASSUME IInv, NEW w \in Workers, NEW s, GoesTo(w, s), WorkerSound(w)',
           UNCHANGED <<rows, stripe, checkout, sales>>, mishaps' \in 0..MaxMishaps,
           PeopleTypes', PeopleGrown, TailFollowsBilling', WelcomeSound',
           welcome'.sends = welcome.sends \/ worker[w].pc = "send",
           s = "send" => \A v \in Workers \ {w} : worker[v].pc # "send"
    PROVE  IInv'
<1>1. RowTypes' /\ DealSound' /\ Grown
  BY RowsKept
<1>2. UNCHANGED <<session, event>>
  BY DEF stripe
<1>3. EventsSound' /\ event' \in [Agreements -> [Events -> {"none", "pending", "acked"}]]
  BY <1>1, <1>2, EventsKept DEF IInv, Types, StripeTypes
<1> QED
  BY <1>1, <1>2, <1>3, WorkerStep DEF GoesTo

LEMMA PeopleSame ==
    ASSUME IInv, UNCHANGED people
    PROVE  /\ PeopleGrown /\ PeopleTypes' /\ WelcomeSound' /\ buyer' = buyer /\ welcome' = welcome
           /\ WelcomeBegun' = WelcomeBegun
BY DEF people, PeopleGrown, WelcomeBegun, IInv, Types, PeopleTypes, WelcomeSound

\* A step that only fails, or goes back.
LEMMA FailsSound ==
    ASSUME IInv, NEW w \in Workers, Fails(w), mishaps' \in 0..MaxMishaps,
           UNCHANGED <<rows, stripe, checkout, sales, people>>
    PROVE  IInv'
<1>1. "release" \in WorkerPcs /\ "release" \notin Billed /\ Joined \subseteq Billed /\ Mailing \subseteq Joined
  BY Places
<1>2. GoesTo(w, "release") /\ worker'[w].ok = worker[w].ok
  BY <1>1, MovesGoes DEF Fails
<1>3. RowTypes' /\ DealSound' /\ Grown /\ PeopleGrown
  BY RowsKept, PeopleSame
<1>4. WorkerSound(w)'
  BY <1>1, <1>2, <1>3, MovedSound
<1>5. OneWorker(w) /\ worker'[w].pc # "send"
  BY <1>2 DEF GoesTo
<1> QED
  BY <1>3, <1>4, <1>5, LeaseStep

LEMMA ThrowsSound ==
    ASSUME IInv, NEW w \in Workers, Throws(w)
    PROVE  IInv'
<1>1. mishaps' \in 0..MaxMishaps
  BY BoundAssumption DEF Throws, Mishap, IInv, Types
<1> QED
  BY <1>1, FailsSound DEF Throws

-----------------------------------------------------------------------------
(* The deliveries: claiming, keeping and releasing the lease.              *)

\* A step to a place that implies nothing, on the lease alone.
LEMMA QuietSound ==
    ASSUME IInv, NEW w \in Workers, NEW s, GoesTo(w, s), s \in {worker[w].pc} \cup (WorkerPcs \ Billed),
           worker'[w].ok => worker[w].ok \/ Done(worker[w].agreement),
           RowTypes', DealSound', Grown, mishaps' \in 0..MaxMishaps,
           UNCHANGED <<stripe, checkout, sales, people>>
    PROVE  IInv'
<1>1. PeopleGrown /\ buyer' = buyer /\ welcome' = welcome /\ WelcomeBegun' = WelcomeBegun
  BY PeopleSame
<1>2. WorkerSound(w)'
  BY <1>1, WorkerRow, Places, MovedSound DEF WorkerSound, Grown
<1>3. s = "send" => worker[w].pc = "send"
  BY Places
<1> QED
  BY <1>2, <1>3, LeaseStep DEF GoesTo

LEMMA DeliversSound ==
    ASSUME IInv, NEW w \in Workers, NEW a \in Agreements, NEW e \in Events, Delivers(w, a, e)
    PROVE  IInv'
<1>1. UNCHANGED <<rows, stripe, checkout, sales, people, mishaps>>
  BY DEF Delivers
<1>2. RowTypes' /\ DealSound' /\ Grown
  BY <1>1, RowsKept
<1>3. IdleWorker \in WorkerStates
  BY BoundAssumption, Places DEF IdleWorker, WorkerStates, ClientIds, Events, Agreements
<1>4. "claim" \in WorkerPcs /\ "claim" \notin Billed /\ Joined \subseteq Billed /\ Mailing \subseteq Joined
  BY Places
<1>5. OneWorker(w)
  BY <1>3, <1>4 DEF Delivers, OneWorker, IInv, Types, WorkerStates
<1>6. worker'[w].pc = "claim" /\ worker'[w].agreement = a /\ worker'[w].ok = FALSE
  BY <1>3 DEF Delivers, IInv, Types, WorkerStates, IdleWorker
<1>7. a <= intent.agreement
  BY DEF Delivers, IInv, EventsSound
<1>8. WorkerSound(w)'
  BY <1>1, <1>4, <1>6, <1>7 DEF WorkerSound, rows
<1>9. mishaps' \in 0..MaxMishaps /\ worker'[w].pc # "send"
  BY <1>1, <1>6 DEF IInv, Types
<1> QED
  BY <1>1, <1>2, <1>5, <1>8, <1>9, LeaseStep

\* The run is over: its row is free again.
LEMMA ToIdle ==
    ASSUME IInv, NEW w \in Workers, worker' = [worker EXCEPT ![w] = IdleWorker], Grown, RowTypes'
    PROVE  OneWorker(w) /\ worker'[w].pc = "idle" /\ WorkerSound(w)'
<1>1. IdleWorker \in WorkerStates
  BY BoundAssumption, Places DEF IdleWorker, WorkerStates, ClientIds, Events, Agreements
<1>2. OneWorker(w) /\ worker'[w] = IdleWorker
  BY <1>1 DEF OneWorker, IInv, Types
<1>3. "idle" \notin Billed /\ Joined \subseteq Billed /\ Mailing \subseteq Joined
  BY Places
<1>4. 1 <= intent'.agreement
  BY DEF RowTypes, Intents, Agreements
<1> QED
  BY <1>2, <1>3, <1>4 DEF IdleWorker, WorkerSound

LEMMA DiesSound ==
    ASSUME IInv, NEW w \in Workers, Dies(w)
    PROVE  IInv'
<1>1. UNCHANGED <<rows, stripe, checkout, sales, people>> /\ mishaps' \in 0..MaxMishaps
  BY BoundAssumption DEF Dies, Mishap, IInv, Types
<1>2. RowTypes' /\ DealSound' /\ Grown
  BY <1>1, RowsKept
<1>3. OneWorker(w) /\ worker'[w].pc = "idle" /\ WorkerSound(w)'
  BY <1>2, ToIdle DEF Dies
<1> QED
  BY <1>1, <1>2, <1>3, LeaseStep

LEMMA ClaimsSound ==
    ASSUME IInv, NEW w \in Workers, Claims(w)
    PROVE  IInv'
<1>1. UNCHANGED <<agreement, stripe, checkout, sales, people, mishaps>> /\ mishaps' \in 0..MaxMishaps
  BY DEF Claims, IInv, Types
<1>2. "answer" \in WorkerPcs \ Billed /\ "load" \in WorkerPcs \ Billed
  BY Places
<1>3. CASE Moved(worker[w].agreement) \/ Closed
  <2>1. RowTypes' /\ DealSound' /\ Grown
    BY <1>1, <1>3, RowsKept DEF Claims, rows
  <2>2. GoesTo(w, "answer")
    BY <1>2, <1>3 DEF Claims, GoesTo, OneWorker, IInv, Types, WorkerStates
  <2>3. Done(worker[w].agreement)
    BY <1>3 DEF Done
  <2> QED
    BY <1>1, <1>2, <2>1, <2>2, <2>3, QuietSound
<1>4. CASE ~(Moved(worker[w].agreement) \/ Closed) /\ Claimable
  <2>1. intent' = [intent EXCEPT !.key = w, !.lease = "fresh"] /\ worker' = [worker EXCEPT ![w].pc = "load"]
    BY <1>4 DEF Claims
  <2>2. RowTypes' /\ DealSound' /\ Grown
    BY <1>1, <2>1, LeaseKept
  <2>3. GoesTo(w, "load") /\ worker'[w].ok = worker[w].ok
    BY <1>2, <2>1 DEF GoesTo, OneWorker, IInv, Types, WorkerStates
  <2> QED
    BY <1>1, <1>2, <2>2, <2>3, QuietSound
<1>5. CASE ~(Moved(worker[w].agreement) \/ Closed) /\ ~Claimable
  <2>1. UNCHANGED rows /\ worker' = [worker EXCEPT ![w] = IdleWorker]
    BY <1>1, <1>5 DEF Claims, rows
  <2>2. RowTypes' /\ DealSound' /\ Grown
    BY <2>1, RowsKept
  <2>3. OneWorker(w) /\ worker'[w].pc = "idle" /\ WorkerSound(w)'
    BY <2>1, <2>2, ToIdle
  <2> QED
    BY <1>1, <2>2, <2>3, LeaseStep
<1> QED
  BY <1>3, <1>4, <1>5

LEMMA LoadsSound ==
    ASSUME IInv, NEW w \in Workers, Loads(w)
    PROVE  IInv'
<1>1. UNCHANGED <<rows, stripe, checkout, sales, people, mishaps>> /\ mishaps' \in 0..MaxMishaps
  BY DEF Loads, IInv, Types
<1>2. "release" \in WorkerPcs \ Billed /\ "complete" \in WorkerPcs \ Billed
  BY Places
<1>3. RowTypes' /\ DealSound' /\ Grown
  BY <1>1, RowsKept
<1>4. CASE Succeeds(w) /\ (Moved(worker[w].agreement) \/ Closed)
  <2>1. GoesTo(w, "release") /\ Done(worker[w].agreement)
    BY <1>4, SucceedsGoes DEF Done
  <2> QED
    BY <1>1, <1>2, <1>3, <2>1, QuietSound
<1>5. ASSUME NEW i \in ClientIds, worker' = [worker EXCEPT ![w].pc = "complete", ![w].client = i]
      PROVE  IInv'
  <2>1. GoesTo(w, "complete") /\ worker'[w].ok = worker[w].ok
    BY <1>2, <1>5 DEF GoesTo, OneWorker, IInv, Types, WorkerStates
  <2> QED
    BY <1>1, <1>2, <1>3, <2>1, QuietSound
<1>6. LET a == worker[w].agreement
      IN  Coalesce(Coalesce(agreement[a].client, intent.client), session[a].client) \in ClientIds
  BY WorkerRow, RequestRows DEF Coalesce, IInv, Types, StripeTypes, StripeSessions
<1> QED
  BY <1>4, <1>5, <1>6 DEF Loads, Moved

\* A heartbeat makes the lease fresh or changes nothing.
LEMMA RefreshKept ==
    ASSUME IInv, NEW w \in Workers, Refresh(w), UNCHANGED agreement
    PROVE  RowTypes' /\ DealSound' /\ Grown
<1>1. CASE intent' = intent
  BY <1>1, RowsKept DEF rows
<1>2. CASE intent' = [intent EXCEPT !.lease = "fresh"]
  <2>1. intent.key \in Workers \cup {None} /\ intent' = [intent EXCEPT !.key = intent.key, !.lease = "fresh"]
    BY <1>2, RequestRows DEF Intents
  <2> QED
    BY <2>1, LeaseKept
<1> QED
  BY <1>1, <1>2 DEF Refresh

LEMMA BeatsSound ==
    ASSUME IInv, NEW w \in Workers, AssertsFence(w) \/ TimerBeats(w)
    PROVE  IInv'
<1>1. UNCHANGED <<agreement, stripe, checkout, sales, people, mishaps>> /\ mishaps' \in 0..MaxMishaps /\ Refresh(w)
  BY DEF AssertsFence, TimerBeats, IInv, Types
<1>2. RowTypes' /\ DealSound' /\ Grown
  BY <1>1, RefreshKept
<1>3. "release" \in WorkerPcs \ Billed
  BY Places
<1>4. \E s \in {"release", worker[w].pc} : GoesTo(w, s) /\ worker'[w].ok = worker[w].ok
  <2>1. CASE worker' = worker
    BY <2>1 DEF GoesTo, OneWorker, IInv, Types
  <2>2. CASE worker' = [worker EXCEPT ![w].fenced = TRUE] \/ worker' = [worker EXCEPT ![w].lost = TRUE]
    BY <2>2 DEF GoesTo, OneWorker, IInv, Types, WorkerStates
  <2>3. CASE worker' = [worker EXCEPT ![w].pc = "release", ![w].lost = TRUE]
    BY <1>3, <2>3 DEF GoesTo, OneWorker, IInv, Types, WorkerStates
  <2> QED
    BY <2>1, <2>2, <2>3 DEF AssertsFence, TimerBeats
<1> QED
  BY <1>1, <1>2, <1>3, <1>4, QuietSound

LEMMA ReleasesSound ==
    ASSUME IInv, NEW w \in Workers, Releases(w)
    PROVE  IInv'
<1>1. UNCHANGED <<agreement, stripe, checkout, sales, people>> /\ mishaps' \in 0..MaxMishaps
  BY BoundAssumption DEF Releases, NoMishap, Mishap, IInv, Types
<1>2. intent' = intent \/ intent' = [intent EXCEPT !.key = None, !.lease = "none"]
  BY DEF Releases
<1>3. RowTypes' /\ DealSound' /\ Grown
  BY <1>1, <1>2, LeaseKept, RowsKept DEF rows
<1>4. "answer" \in WorkerPcs \ Billed
  BY Places
<1>5. GoesTo(w, "answer") /\ (worker'[w].ok => worker[w].ok)
  BY <1>4 DEF Releases, GoesTo, OneWorker, IInv, Types, WorkerStates
<1> QED
  BY <1>1, <1>3, <1>4, <1>5, QuietSound

LEMMA AnswersSound ==
    ASSUME IInv, NEW w \in Workers, Answers(w)
    PROVE  IInv'
<1>1. UNCHANGED <<rows, session, checkout, sales, people, mishaps>> /\ mishaps' \in 0..MaxMishaps
  BY DEF Answers, IInv, Types
<1>2. RowTypes' /\ DealSound' /\ Grown
  BY <1>1, RowsKept
<1>3. OneWorker(w) /\ worker'[w].pc = "idle" /\ WorkerSound(w)'
  BY <1>2, ToIdle DEF Answers
<1>4. PeopleGrown /\ PeopleTypes' /\ WelcomeSound' /\ buyer' = buyer /\ welcome' = welcome
  BY <1>1, PeopleSame
<1>5. PICK k \in Agreements, f \in Events : k = worker[w].agreement /\ f = worker[w].event
  BY WorkerRow
<1>6. event' = event \/ (worker[w].ok /\ event' = [event EXCEPT ![k][f] = "acked"])
  BY <1>5 DEF Answers
<1>7. event' \in [Agreements -> [Events -> {"none", "pending", "acked"}]]
  BY <1>6 DEF IInv, Types, StripeTypes
<1>8. \A a \in Agreements, e \in Events :
        event'[a][e] = event[a][e] \/ (a = k /\ event'[a][e] = "acked" /\ worker[w].ok)
  BY <1>6 DEF IInv, Types, StripeTypes
<1>9. k <= intent.agreement /\ (worker[w].ok => Done(k))
  BY <1>5, WorkerRow DEF WorkerSound
<1>10. EventsSound'
  BY <1>1, <1>8, <1>9, DoneSame DEF IInv, EventsSound
<1>11. TailFollowsBilling'
  BY <1>1, <1>4, DoneSame DEF IInv, TailFollowsBilling, Closed
<1> QED
  BY <1>1, <1>2, <1>3, <1>4, <1>7, <1>10, <1>11, WorkerStep

-----------------------------------------------------------------------------
(* The deliveries: payment and billing.                                    *)

LEMMA CompletesSound ==
    ASSUME IInv, NEW w \in Workers, Completes(w)
    PROVE  IInv'
<1>1. UNCHANGED <<stripe, checkout, sales, people, mishaps>> /\ mishaps' \in 0..MaxMishaps
  BY DEF Completes, IInv, Types
<1>2. CASE Fails(w) /\ UNCHANGED rows
  BY <1>1, <1>2, FailsSound
<1>3. CASE Completable(w)
  <2>1. PICK k \in Agreements : k = worker[w].agreement
    BY WorkerRow
  <2>2. PICK i \in ClientIds :
          i = Coalesce(Coalesce(agreement[k].client, intent.client), worker[w].client)
    BY WorkerRow, RequestRows DEF Coalesce
  <2>3. PICK g \in SessionIds : g = Given(w)
    BY WorkerRow DEF Given, SessionIds
  <2>4. /\ agreement' = [agreement EXCEPT
             ![k] = [agreement[k] EXCEPT !.client = i, !.checkout = "paid", !.paid = TRUE,
                                         !.session = Coalesce(agreement[k].session, g)]]
        /\ intent' = [intent EXCEPT !.client = i, !.status = "completed", !.activated = TRUE,
                                    !.session = Coalesce(@, g)]
        /\ worker' = [worker EXCEPT ![w].pc = "bill", ![w].fenced = FALSE, ![w].client = i]
    BY <1>3, <2>1, <2>2, <2>3 DEF Completes
  <2>5. Current(k) /\ ~Closed
    BY <1>3, <2>1 DEF Completable
  <2>6. intent' \in Intents
    BY <2>4, RequestRows DEF Intents, Coalesce
  <2>7. agreement' \in [Agreements -> AgreementRows]
    <3>1. agreement[k] \in AgreementRows
      BY RequestRows
    <3> DEFINE row == [agreement[k] EXCEPT !.client = i, !.checkout = "paid", !.paid = TRUE,
                                           !.session = Coalesce(agreement[k].session, g)]
    <3>2. row \in AgreementRows
      BY <3>1 DEF AgreementRows, Coalesce
    <3>3. agreement' = [agreement EXCEPT ![k] = row]
      BY <2>4
    <3>4. agreement \in [Agreements -> AgreementRows]
      BY RequestRows
    <3> HIDE DEF row
    <3> QED
      BY <3>2, <3>3, <3>4
  <2>8. /\ intent'.agreement = k /\ intent'.activated /\ intent'.canceled = intent.canceled
        /\ intent'.status = "completed" /\ intent'.billed = intent.billed /\ intent.agreement = k
    BY <2>4, <2>5, RequestRows DEF Intents, Current
  <2>9. \A a \in Agreements : /\ agreement'[a].status = agreement[a].status
                              /\ agreement'[a].paid = IF a = k THEN TRUE ELSE agreement[a].paid
    BY <2>4, RequestRows DEF AgreementRows
  <2>10. ~intent.canceled /\ ~Closed' /\ Current(k)'
    BY <2>5, <2>8, <2>9 DEF Closed, Current
  <2>11. PaidIsCurrent'
    BY <2>8, <2>9, <2>10 DEF IInv, DealSound, PaidIsCurrent, Current
  <2>12. DealSound'
    BY <2>8, <2>9, <2>10, <2>11 DEF DealSound
  <2>13. Grown
    <3>1. intent.agreement <= intent'.agreement
      BY <2>8 DEF Agreements
    <3>2. \A a \in Agreements : Moved(a) => Moved(a)'
      BY <2>8, <2>9 DEF Moved
    <3> QED
      BY <2>5, <2>8, <3>1, <3>2 DEF Grown
  <2>14. "bill" \in WorkerPcs \ Billed
    BY Places
  <2>15. GoesTo(w, "bill") /\ worker'[w].ok = worker[w].ok
    BY <2>4, <2>14 DEF GoesTo, OneWorker, IInv, Types, WorkerStates
  <2> QED
    BY <1>1, <2>6, <2>7, <2>12, <2>13, <2>14, <2>15, QuietSound DEF RowTypes
<1> QED
  BY <1>2, <1>3 DEF Completes

LEMMA BillsSound ==
    ASSUME IInv, NEW w \in Workers, Bills(w)
    PROVE  IInv'
<1>1. UNCHANGED <<agreement, stripe, checkout, sales, people, mishaps>> /\ mishaps' \in 0..MaxMishaps
  BY DEF Bills, IInv, Types
<1>2. CASE Fails(w) /\ UNCHANGED rows
  BY <1>1, <1>2, FailsSound
<1>3. CASE Moves(w, "account") /\ Billable(w) /\ intent' = [intent EXCEPT !.billed = TRUE]
  <2>1. "account" \in WorkerPcs /\ "account" \notin Joined /\ Mailing \subseteq Joined /\ "account" # "send"
    BY Places DEF Joined, Mailing, Billed
  <2>2. GoesTo(w, "account") /\ worker'[w].ok = worker[w].ok
    BY <1>3, <2>1, MovesGoes
  <2>3. RowTypes' /\ SameDeal /\ intent'.billed /\ intent'.activated = intent.activated
    BY <1>1, <1>3, RequestRows DEF RowTypes, SameDeal, Intents
  <2>4. DealSound' /\ Grown
    BY <2>3, SameDealSound DEF IInv, Types
  <2>5. intent.activated
    BY <1>3 DEF Billable, IInv, DealSound
  <2>6. PeopleGrown
    BY <1>1, PeopleSame
  <2>7. WorkerSound(w)'
    BY <2>1, <2>2, <2>3, <2>4, <2>5, <2>6, MovedSound
  <2>8. OneWorker(w) /\ worker'[w].pc # "send"
    BY <2>2 DEF GoesTo
  <2> QED
    BY <1>1, <2>3, <2>4, <2>7, <2>8, LeaseStep
<1> QED
  BY <1>1, <1>2, <1>3 DEF Bills, rows

-----------------------------------------------------------------------------
(* The deliveries: the buyer's set-up.                                     *)

\* A place after the billing.
LEMMA BilledHolds ==
    ASSUME IInv, NEW w \in Workers, worker[w].pc \in Billed
    PROVE  /\ intent.activated /\ intent.billed /\ ~Closed
           /\ worker[w].pc \in Joined => buyer.member
           /\ worker[w].pc \in Mailing => WelcomeBegun
           /\ worker[w].pc = "send" => welcome.sends = 0
<1>1. WorkerSound(w)
  BY WorkerRow
<1> QED
  BY <1>1, ActivatedIsOpen DEF WorkerSound, IInv, Types

\* A step of the set-up: it moves on, and the people it changes only grow.
LEMMA SetUpStep ==
    ASSUME IInv, NEW w \in Workers, NEW s \in Billed, Moves(w, s), worker[w].pc \in Billed,
           UNCHANGED <<rows, stripe, checkout, sales>>, mishaps' \in 0..MaxMishaps,
           PeopleTypes', PeopleGrown, WelcomeSound',
           s \in Joined => buyer'.member, s \in Mailing => WelcomeBegun',
           welcome'.sends = welcome.sends \/ worker[w].pc = "send",
           s = "send" => welcome'.sends = 0 /\ \A v \in Workers \ {w} : worker[v].pc # "send"
    PROVE  IInv'
<1>1. GoesTo(w, s) /\ worker'[w].ok = worker[w].ok
  BY Places, MovesGoes
<1>2. RowTypes' /\ Grown
  BY RowsKept
<1>3. intent.activated /\ intent.billed /\ ~Closed /\ intent' = intent
  BY BilledHolds DEF rows
<1>4. TailFollowsBilling'
  BY <1>3 DEF TailFollowsBilling, Closed
<1>5. WorkerSound(w)'
  BY <1>1, <1>2, <1>3, MovedSound
<1> QED
  BY <1>1, <1>4, <1>5, PeopleStep

\* The places of the set-up, in order.
LEMMA SetUpPlaces ==
    /\ {"account", "create", "mail", "member"} \subseteq Billed \ Joined
    /\ {"reserve", "begin"} \subseteq Joined \ Mailing /\ Joined \subseteq Billed
    /\ {"send", "finish_sent", "finish_skipped", "announce"} = Mailing /\ Mailing \subseteq Joined
    /\ {"account", "create", "mail", "member", "reserve", "begin"} \cap Mailing = {}
BY DEF Billed, Joined, Mailing

LEMMA AccountSound ==
    ASSUME IInv, NEW w \in Workers, FindsBuyer(w) \/ CreatesUser(w) \/ MailsSetup(w)
    PROVE  IInv'
<1>1. UNCHANGED <<rows, stripe, checkout, sales, welcome, mishaps>> /\ mishaps' \in 0..MaxMishaps
  BY DEF FindsBuyer, CreatesUser, MailsSetup, people, IInv, Types
<1>2. worker[w].pc \in Billed
  BY SetUpPlaces DEF FindsBuyer, CreatesUser, MailsSetup, AtStage
<1>3. PICK s \in {"member", "create", "mail"} : Moves(w, s)
  BY DEF FindsBuyer, CreatesUser, MailsSetup
<1>4. buyer' = buyer \/ buyer' = [buyer EXCEPT !.user = TRUE]
  BY DEF FindsBuyer, CreatesUser, MailsSetup, people
<1>5. PeopleTypes' /\ PeopleGrown /\ WelcomeSound'
  BY <1>1, <1>4 DEF IInv, Types, PeopleTypes, Buyers, PeopleGrown, WelcomeSound, WelcomeBegun
<1>6. s \in Billed /\ s \notin Joined /\ s \notin Mailing /\ s # "send"
  BY SetUpPlaces
<1> QED
  BY <1>1, <1>2, <1>3, <1>5, <1>6, SetUpStep

LEMMA AddsMemberSound ==
    ASSUME IInv, NEW w \in Workers, AddsMember(w)
    PROVE  IInv'
<1>1. UNCHANGED <<rows, stripe, checkout, sales, welcome, mishaps>> /\ mishaps' \in 0..MaxMishaps
  BY DEF AddsMember, IInv, Types
<1>2. CASE Fails(w) /\ UNCHANGED buyer
  BY <1>1, <1>2, FailsSound DEF people
<1>3. CASE Moves(w, "reserve") /\ buyer' = [buyer EXCEPT !.member = TRUE]
  <2>1. worker[w].pc \in Billed
    BY SetUpPlaces DEF AddsMember, AtStage
  <2>2. PeopleTypes' /\ PeopleGrown /\ WelcomeSound' /\ buyer'.member
    BY <1>1, <1>3 DEF IInv, Types, PeopleTypes, Buyers, PeopleGrown, WelcomeSound, WelcomeBegun
  <2>3. "reserve" \in Billed /\ "reserve" \notin Mailing
    BY SetUpPlaces
  <2> QED
    BY <1>1, <1>3, <2>1, <2>2, <2>3, SetUpStep
<1> QED
  BY <1>2, <1>3 DEF AddsMember

LEMMA ReservesSound ==
    ASSUME IInv, NEW w \in Workers, Reserves(w)
    PROVE  IInv'
<1>1. UNCHANGED <<rows, stripe, checkout, sales, buyer, mishaps>> /\ mishaps' \in 0..MaxMishaps
  BY DEF Reserves, IInv, Types
<1>2. worker[w].pc = "reserve" /\ "reserve" \in Joined /\ "reserve" \in Billed
  BY SetUpPlaces DEF Reserves, AtStage
<1>3. buyer.member
  BY <1>2, BilledHolds
<1>4. CASE Fails(w) /\ UNCHANGED welcome
  BY <1>1, <1>4, FailsSound DEF people
<1>5. CASE Moves(w, "begin") /\ Reservable /\ welcome' = [welcome EXCEPT !.status = "reserved"]
  <2>1. PeopleTypes' /\ PeopleGrown /\ WelcomeSound' /\ welcome'.sends = welcome.sends
    BY <1>1, <1>5 DEF IInv, Types, PeopleTypes, Welcomes, PeopleGrown, WelcomeSound, WelcomeBegun, Reservable
  <2>2. "begin" \in Billed /\ "begin" \notin Mailing
    BY SetUpPlaces
  <2> QED
    BY <1>1, <1>2, <1>3, <1>5, <2>1, <2>2, SetUpStep
<1>6. CASE Moves(w, "announce") /\ ~Reservable /\ UNCHANGED welcome
  <2>1. PeopleTypes' /\ PeopleGrown /\ WelcomeSound' /\ WelcomeBegun'
    BY <1>1, <1>6 DEF IInv, Types, PeopleTypes, PeopleGrown, WelcomeSound, WelcomeBegun, Reservable
  <2>2. "announce" \in Billed
    BY SetUpPlaces
  <2> QED
    BY <1>1, <1>2, <1>3, <1>6, <2>1, <2>2, SetUpStep
<1> QED
  BY <1>4, <1>5, <1>6 DEF Reserves

\* Whoever begins the e-mail is the only one to send it.
LEMMA BeginsSound ==
    ASSUME IInv, NEW w \in Workers, Begins(w)
    PROVE  IInv'
<1>1. UNCHANGED <<rows, stripe, checkout, sales, buyer, mishaps>> /\ mishaps' \in 0..MaxMishaps
  BY DEF Begins, IInv, Types
<1>2. worker[w].pc = "begin" /\ "begin" \in Joined /\ "begin" \in Billed
  BY SetUpPlaces DEF Begins, AtStage
<1>3. buyer.member
  BY <1>2, BilledHolds
<1>4. CASE Fails(w) /\ UNCHANGED welcome
  BY <1>1, <1>4, FailsSound DEF people
<1>5. CASE Moves(w, "send") /\ welcome.status = "reserved" /\
           welcome' = [welcome EXCEPT !.status = "sending", !.token = w]
  <2>1. PeopleTypes' /\ PeopleGrown /\ WelcomeBegun' /\ welcome'.sends = welcome.sends
    BY <1>1, <1>5 DEF IInv, Types, PeopleTypes, Welcomes, PeopleGrown, WelcomeBegun
  <2>2. ~WelcomeBegun /\ welcome.sends = 0
    BY <1>5 DEF WelcomeBegun, IInv, WelcomeSound
  <2>3. \A v \in Workers : worker[v].pc # "send"
    BY <2>2, BilledHolds, SetUpPlaces
  <2>4. WelcomeSound'
    BY <2>1, <2>2 DEF WelcomeSound
  <2>5. "send" \in Billed
    BY SetUpPlaces
  <2> QED
    BY <1>1, <1>2, <1>3, <1>5, <2>1, <2>2, <2>3, <2>4, <2>5, SetUpStep
<1> QED
  BY <1>4, <1>5 DEF Begins

LEMMA SendsSound ==
    ASSUME IInv, NEW w \in Workers, Sends(w)
    PROVE  IInv'
<1>1. UNCHANGED <<rows, stripe, checkout, sales, buyer, mishaps>> /\ mishaps' \in 0..MaxMishaps
  BY DEF Sends, IInv, Types
<1>2. worker[w].pc = "send" /\ Mailing \subseteq Joined /\ Joined \subseteq Billed /\ "send" \in Mailing
  BY SetUpPlaces DEF Sends, AtStage
<1>3. buyer.member /\ WelcomeBegun /\ welcome.sends = 0
  BY <1>2, BilledHolds
<1>4. PICK s \in {"announce", "finish_sent", "finish_skipped"}, n \in {0, 1} :
        Moves(w, s) /\ welcome' = [welcome EXCEPT !.sends = @ + n]
  BY DEF Sends
<1>5. PeopleTypes' /\ PeopleGrown /\ WelcomeSound' /\ WelcomeBegun'
  BY <1>1, <1>3, <1>4 DEF IInv, Types, PeopleTypes, Welcomes, PeopleGrown, WelcomeSound, WelcomeBegun
<1>6. s \in Billed /\ s # "send"
  BY SetUpPlaces
<1> QED
  BY <1>1, <1>2, <1>3, <1>4, <1>5, <1>6, SetUpStep

LEMMA FinishesWelcomeSound ==
    ASSUME IInv, NEW w \in Workers, FinishesWelcome(w)
    PROVE  IInv'
<1>1. UNCHANGED <<rows, stripe, checkout, sales, buyer>> /\ mishaps' \in 0..MaxMishaps
  BY BoundAssumption DEF FinishesWelcome, NoMishap, Mishap, IInv, Types
<1>2. worker[w].pc \in Mailing /\ worker[w].pc \in Joined /\ worker[w].pc \in Billed
  BY SetUpPlaces DEF FinishesWelcome
<1>3. buyer.member /\ WelcomeBegun
  BY <1>2, BilledHolds
<1>4. \/ welcome' = welcome
      \/ welcome' = [welcome EXCEPT !.status = "sent"]
      \/ welcome' = [welcome EXCEPT !.status = "skipped"]
  BY DEF FinishesWelcome
<1>5. PeopleTypes' /\ PeopleGrown /\ WelcomeSound' /\ WelcomeBegun' /\ welcome'.sends = welcome.sends
  BY <1>1, <1>3, <1>4 DEF IInv, Types, PeopleTypes, Welcomes, PeopleGrown, WelcomeSound, WelcomeBegun
<1>6. "announce" \in Billed /\ Moves(w, "announce")
  BY SetUpPlaces DEF FinishesWelcome
<1> QED
  BY <1>1, <1>2, <1>3, <1>5, <1>6, SetUpStep

LEMMA AnnouncesSound ==
    ASSUME IInv, NEW w \in Workers, Announces(w)
    PROVE  IInv'
<1>1. UNCHANGED <<rows, stripe, checkout, sales, welcome, mishaps>> /\ mishaps' \in 0..MaxMishaps
  BY DEF Announces, IInv, Types
<1>2. worker[w].pc \in Mailing /\ worker[w].pc \in Joined /\ worker[w].pc \in Billed
  BY SetUpPlaces DEF Announces, AtStage
<1>3. intent.activated /\ intent.billed /\ ~Closed /\ buyer.member /\ WelcomeBegun /\ intent' = intent
  BY <1>1, <1>2, BilledHolds DEF rows
<1>4. PICK b \in BOOLEAN : buyer' = [buyer EXCEPT !.won = b]
  BY DEF Announces, IInv, Types, PeopleTypes, RowTypes, Intents, Buyers
<1>5. PeopleTypes' /\ PeopleGrown /\ WelcomeSound' /\ buyer'.member
  BY <1>1, <1>3, <1>4 DEF IInv, Types, PeopleTypes, Buyers, PeopleGrown, WelcomeSound, WelcomeBegun
<1>6. GoesTo(w, "release")
  BY SucceedsGoes DEF Announces
<1>7. TailFollowsBilling'
  BY <1>3 DEF TailFollowsBilling, Closed
<1>8. SetUp'
  BY <1>1, <1>3, <1>5 DEF SetUp, WelcomeBegun
<1>9. RowTypes' /\ Grown /\ "release" \notin Billed /\ Joined \subseteq Billed /\ Mailing \subseteq Joined
  BY <1>1, RowsKept, Places
<1>10. WorkerSound(w)'
  BY <1>5, <1>6, <1>8, <1>9, MovedSound
<1> QED
  BY <1>1, <1>5, <1>6, <1>7, <1>10, PeopleStep

-----------------------------------------------------------------------------
(* The invariant.                                                          *)

LEMMA InitSound ==
    ASSUME Init
    PROVE  IInv
<1>1. 1 \in Agreements /\ None \in SessionIds /\ None \in ClientIds
  BY BoundAssumption DEF Agreements, SessionIds, ClientIds
<1>2. RowTypes
  BY <1>1 DEF Init, RowTypes, Intents, AgreementRows, Issued
<1>3. StripeTypes /\ RequestTypes /\ PeopleTypes /\ mishaps \in 0..MaxMishaps
  BY <1>1, BoundAssumption DEF Init, StripeTypes, StripeSessions, RequestTypes, IdleCheckout, IdleSales,
       CheckoutStates, CheckoutPcs, SalesStates, SalesPcs, PeopleTypes, Buyers, Welcomes
<1>4. IdleWorker \in WorkerStates
  BY <1>1, Places DEF IdleWorker, WorkerStates, Events
<1>5. Types
  BY <1>2, <1>3, <1>4 DEF Types, Init
<1>6. \A a \in Agreements : agreement[a].paid = FALSE
  BY DEF Init, Issued
<1>7. DealSound
  BY <1>6 DEF Init, DealSound, PaidIsCurrent
<1>8. CheckoutsSound /\ SalesSound /\ SessionsSound /\ EventsSound
  BY DEF Init, CheckoutsSound, SalesSound, SessionsSound, EventsSound, IdleCheckout, IdleSales
<1>9. TailFollowsBilling /\ WelcomeSound
  BY DEF Init, TailFollowsBilling, WelcomeSound
<1>10. \A w \in Workers : worker[w] = IdleWorker
  BY DEF Init
<1>11. "idle" \notin Billed /\ Joined \subseteq Billed /\ Mailing \subseteq Joined
  BY Places
<1>12. WorkersSound /\ OneSender
  BY <1>10, <1>11 DEF Init, WorkersSound, WorkerSound, OneSender, IdleWorker
<1> QED
  BY <1>5, <1>7, <1>8, <1>9, <1>12 DEF IInv

LEMMA StutterSound ==
    ASSUME IInv, UNCHANGED vars
    PROVE  IInv'
<1>1. UNCHANGED <<rows, stripe, worker, checkout, sales, people, mishaps>>
  BY DEF vars
<1>2. RowTypes' /\ DealSound' /\ Grown
  BY <1>1, RowsKept
<1>3. RequestTypes' /\ CheckoutsSound' /\ SalesSound' /\ mishaps' \in 0..MaxMishaps
  BY <1>1, <1>2, CheckoutsKept DEF IInv, Types, RequestTypes, SalesSound
<1> QED
  BY <1>1, <1>2, <1>3, RequestStep

LEMMA RunsSound ==
    ASSUME IInv, NEW w \in Workers, Runs(w)
    PROVE  IInv'
<1>1. CASE Claims(w) \/ Loads(w) \/ AssertsFence(w) \/ Releases(w) \/ Answers(w)
  BY <1>1, ClaimsSound, LoadsSound, BeatsSound, ReleasesSound, AnswersSound
<1>2. CASE Completes(w) \/ Bills(w)
  BY <1>2, CompletesSound, BillsSound
<1>3. CASE FindsBuyer(w) \/ CreatesUser(w) \/ MailsSetup(w) \/ AddsMember(w)
  BY <1>3, AccountSound, AddsMemberSound
<1>4. CASE Reserves(w) \/ Begins(w) \/ Sends(w) \/ FinishesWelcome(w) \/ Announces(w)
  BY <1>4, ReservesSound, BeginsSound, SendsSound, FinishesWelcomeSound, AnnouncesSound
<1> QED
  BY <1>1, <1>2, <1>3, <1>4 DEF Runs

LEMMA StepSound ==
    ASSUME IInv, [Next]_vars
    PROVE  IInv'
<1>1. ASSUME NEW a \in Agreements, Signs(a) \/ Expires(a) \/ Pays(a) \/ SessionLapses(a)
      PROVE  IInv'
  BY <1>1, ClocksSound, StripeSound
<1>2. ASSUME NEW c \in Checkouts, RequestSteps(c)
      PROVE  IInv'
  BY <1>2, OpensCheckoutSound, LinksSound, CreatesSessionSound DEF RequestSteps
<1>3. ASSUME NEW r \in Requests, RepresentativeSteps(r)
      PROVE  IInv'
  BY <1>3, RepresentativeSound, CancelsSound, ReplacesSound DEF RepresentativeSteps
<1>4. ASSUME NEW w \in Workers, NEW a \in Agreements, NEW e \in Events, Delivers(w, a, e)
      PROVE  IInv'
  BY <1>4, DeliversSound
<1>5. ASSUME NEW w \in Workers, Runs(w) \/ TimerBeats(w) \/ Throws(w) \/ Dies(w)
      PROVE  IInv'
  BY <1>5, RunsSound, BeatsSound, ThrowsSound, DiesSound
<1>6. CASE LeaseAges \/ Reconciles
  BY <1>6, LeaseAgesSound, ReconcilesSound
<1>7. CASE UNCHANGED vars
  BY <1>7, StutterSound
<1> QED
  BY <1>1, <1>2, <1>3, <1>4, <1>5, <1>6, <1>7 DEF Next

(* The inductive invariant holds throughout: the deal's row and its        *)
(* agreements agree, and each delivery's place in its run says how far the *)
(* purchase has been set up.                                               *)
THEOREM Invariance == Spec => []IInv
<1>1. Init => IInv
  BY InitSound
<1>2. IInv /\ [Next]_vars => IInv'
  BY StepSound
<1> QED
  BY <1>1, <1>2, PTL DEF Spec

(* No interleaving of checkouts, payments, runs and the representative's   *)
(* requests takes a variable out of its type; in particular a replacement  *)
(* has an agreement to issue.                                              *)
THEOREM TypesHold == Spec => []TypeOK
<1>1. IInv => TypeOK
  BY TypeParts DEF IInv
<1> QED
  BY <1>1, Invariance, PTL

(* A recorded payment is on the signed agreement the deal stands on, and   *)
(* the deal is activated and open, whatever the representative was doing   *)
(* when the payment arrived.                                               *)
THEOREM PaidStaysCurrent == Spec => []PaidIsCurrent
<1>1. IInv => PaidIsCurrent
  BY DEF IInv, DealSound
<1> QED
  BY <1>1, Invariance, PTL

(* The buyer's login, membership, welcome e-mail and announced sale exist  *)
(* only on a purchase that is paid, billed and not canceled.               *)
THEOREM TailIsBilled == Spec => []TailFollowsBilling
<1>1. IInv => TailFollowsBilling
  BY DEF IInv
<1> QED
  BY <1>1, Invariance, PTL

(* However many deliveries run, stall, die and are repeated, the welcome   *)
(* e-mail is accepted at most once.                                        *)
THEOREM WelcomedOnce == Spec => []WelcomeMailedOnce
<1>1. IInv => WelcomeMailedOnce
  BY DEF IInv, WelcomeSound, WelcomeMailedOnce
<1> QED
  BY <1>1, Invariance, PTL

(* Stripe is told to stop delivering a payment's event only when the       *)
(* purchase is set up to the end, or the deal was canceled or moved on.    *)
THEOREM AcknowledgedIsSettled == Spec => []AckedIsSettled
<1>1. IInv => AckedIsSettled
  BY DEF IInv, EventsSound, AckedIsSettled, Done, SetUp, WelcomeBegun
<1> QED
  BY <1>1, Invariance, PTL

-----------------------------------------------------------------------------
(* Canceled deals.                                                         *)

StaysCanceled ==
    intent.canceled =>
        /\ intent'.canceled /\ intent'.agreement = intent.agreement
        /\ intent'.activated = intent.activated

\* What a write of the deal's row leaves alone.
LEMMA LinkWrites ==
    ASSUME IInv, NEW c \in Checkouts, RequestSteps(c)
    PROVE  StaysCanceled
BY RequestRows DEF RequestSteps, OpensCheckout, LinksAgreement, LinksIntent, CreatesSession, SessionRefused,
     RecordsAgreement, FinishesCheckout, CheckoutFails, rows, Intents, StaysCanceled

\* The representative's transactions refuse what a canceled deal stands on.
LEMMA DealWrites ==
    ASSUME IInv, NEW r \in Requests, RepresentativeSteps(r)
    PROVE  StaysCanceled
<1>1. CASE UNCHANGED intent
  BY <1>1 DEF StaysCanceled
<1>2. CASE Cancels(r) /\ ~UNCHANGED intent
  <2>1. intent' = [intent EXCEPT !.status = "canceled", !.canceled = TRUE, !.key = None, !.lease = "none"]
    BY <1>2 DEF Cancels, rows
  <2> QED
    BY <2>1, RequestRows DEF Intents, StaysCanceled
<1>3. CASE Replaces(r) /\ ~UNCHANGED intent
  <2>1. Replaceable(r)
    BY <1>3 DEF Replaces, rows
  <2>2. ~intent.canceled
    BY <2>1, RequestRows DEF IInv, DealSound, Replaceable, OldIsReplaceable
  <2> QED
    BY <2>2 DEF StaysCanceled
<1> QED
  BY <1>1, <1>2, <1>3 DEF RepresentativeSteps, StartsCancel, StartsReplace, ExpiresSession, rows

LEMMA RunWrites ==
    ASSUME IInv, NEW w \in Workers, Runs(w) \/ TimerBeats(w) \/ Throws(w) \/ Dies(w)
    PROVE  StaysCanceled
<1>1. CASE UNCHANGED intent
  BY <1>1 DEF StaysCanceled
<1>2. CASE Completes(w) /\ ~UNCHANGED intent
  <2>1. ~intent.canceled
    BY <1>2 DEF Completes, Completable, Closed, rows
  <2> QED
    BY <2>1 DEF StaysCanceled
<1>3. CASE intent' = [intent EXCEPT !.billed = TRUE] \/ intent' = [intent EXCEPT !.lease = "fresh"]
  BY <1>3, RequestRows DEF Intents, StaysCanceled
<1>4. CASE intent' = [intent EXCEPT !.key = w, !.lease = "fresh"] \/
           intent' = [intent EXCEPT !.key = None, !.lease = "none"]
  BY <1>4, RequestRows DEF Intents, StaysCanceled
<1>5. CASE Claims(w) \/ Loads(w) \/ AssertsFence(w) \/ TimerBeats(w) \/ Releases(w) \/ Answers(w)
  BY <1>1, <1>3, <1>4, <1>5 DEF Claims, Loads, AssertsFence, TimerBeats, Refresh, Releases, Answers, rows
<1>6. CASE Bills(w) \/ FindsBuyer(w) \/ CreatesUser(w) \/ MailsSetup(w) \/ AddsMember(w)
  BY <1>1, <1>3, <1>6 DEF Bills, FindsBuyer, CreatesUser, MailsSetup, AddsMember, rows
<1>7. CASE Reserves(w) \/ Begins(w) \/ Sends(w) \/ FinishesWelcome(w) \/ Announces(w) \/ Throws(w) \/ Dies(w)
  BY <1>1, <1>7 DEF Reserves, Begins, Sends, FinishesWelcome, Announces, Throws, Dies, rows
<1> QED
  BY <1>1, <1>2, <1>5, <1>6, <1>7 DEF Runs

(* Once canceled, a deal stays canceled and on its agreement, and no late  *)
(* payment activates it.                                                   *)
THEOREM CanceledForGood == Spec => CanceledStaysClosed
<1>1. IInv /\ [Next]_vars => StaysCanceled
  <2> SUFFICES ASSUME IInv, [Next]_vars PROVE StaysCanceled
    OBVIOUS
  <2>1. CASE UNCHANGED intent
    BY <2>1 DEF StaysCanceled
  <2>2. CASE LeaseAges
    <3>1. intent' = [intent EXCEPT !.lease = "stale"]
      BY <2>2 DEF LeaseAges
    <3> QED
      BY <3>1, RequestRows DEF Intents, StaysCanceled
  <2>3. CASE \E a \in Agreements : Signs(a) \/ Expires(a) \/ Pays(a) \/ SessionLapses(a)
    BY <2>1, <2>3 DEF Signs, Expires, Pays, SessionLapses, rows
  <2>4. CASE \E w \in Workers, a \in Agreements, e \in Events : Delivers(w, a, e)
    BY <2>1, <2>4 DEF Delivers, rows
  <2>5. CASE Reconciles \/ UNCHANGED vars
    BY <2>1, <2>5 DEF Reconciles, vars, rows
  <2> QED
    BY <2>2, <2>3, <2>4, <2>5, LinkWrites, DealWrites, RunWrites DEF Next
<1>2. StaysCanceled =>
        [intent.canceled => /\ intent'.canceled /\ intent'.agreement = intent.agreement
                            /\ intent'.activated = intent.activated]_vars
  BY DEF StaysCanceled
<1> QED
  BY <1>1, <1>2, Invariance, PTL DEF Spec, CanceledStaysClosed
=============================================================================
