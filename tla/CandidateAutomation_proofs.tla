--------------------- MODULE CandidateAutomation_proofs ---------------------
(***************************************************************************)
(* Proofs about CandidateAutomation, for any sets of candidates, requests, *)
(* links, digests and slots and any number of rule versions.  No route     *)
(* holds a lock: what protects a row is that each write names the state it *)
(* expects, that a row never returns to a state it left, and that a claim  *)
(* (sending, for an action and for a digest) is left by its claimant only. *)
(***************************************************************************)
EXTENDS CandidateAutomation, FiniteSetTheorems, TLAPS

-----------------------------------------------------------------------------
(* Types.                                                                  *)

Verdicts == {"approved", "rejected"}

\* A request whose claim on an action or on a digest is open.
SenderPcs == {"mail", "mark_sent", "mark_failed"}
OwnerPcs == {"token", "mail_digest", "mark_digest_sent", "revoke", "fail_digest"}

OnKey == [pc : {"insert", "reject", "issue_link"}, a : Keys]
OnLink == [pc : {"spend_link", "decide"}, a : Keys, l : Links, verdict : Verdicts]
OnItem == [pc : {"claim_send", "approve"} \cup SenderPcs, a : Keys, item : BOOLEAN]
OnSlot == [pc : {"claim_slot"}, slot : Slots, listed : SUBSET Keys]
OnDigest == [pc : OwnerPcs, d : Digests, listed : SUBSET Keys]

RequestStates == {Idle} \cup OnKey \cup OnLink \cup OnItem \cup OnSlot \cup OnDigest

Types ==
    /\ version \in 1..MaxVersion
    /\ action \in [Keys -> ActionStates] /\ approved \subseteq Keys
    /\ mails \in [Keys -> Nat] /\ told \in [Keys -> SUBSET Verdicts]
    /\ link \in [Links -> {"none", "active", "expired", "used", "rejected"}]
    /\ linkOf \in [Links -> Keys \cup {None}]
    /\ status \in [Digests -> {"none", "sending", "sent", "failed"}]
    /\ slot \in [Digests -> Slots \cup {CHOOSE s \in Slots : TRUE}]
    /\ items \in [Digests -> SUBSET Keys] /\ inbox \in [Digests -> SUBSET Keys]
    /\ dtoken \in [Digests -> {"none", "active", "expired", "revoked"}]
    /\ req \in [Requests -> RequestStates]

-----------------------------------------------------------------------------
(* The inductive invariant.                                                *)

LinksSound == \A l \in Links : link[l] = "active" => linkOf[l] \in Keys

\* How far an action is tells who decided it, whether its e-mail can have
\* been accepted, and what may have been told about it.
ActionSound(a) ==
    /\ action[a] \in {"none", "pending_approval"} => a \notin approved
    /\ action[a] \in {"approved", "sending", "sent", "failed"} => a \in approved
    /\ mails[a] <= 1
    /\ mails[a] # 0 => action[a] \in {"sending", "sent", "failed"}
    /\ "rejected" \in told[a] => action[a] = "rejected"
    /\ "approved" \in told[a] => a \in approved /\ action[a] # "rejected"

ActionsSound == \A a \in Keys : ActionSound(a)

\* One action of a candidate is active at a time.
OneActive ==
    \A a, b \in Keys : a[1] = b[1] /\ action[a] \in Active /\ action[b] \in Active => a = b

\* A digest that was never claimed is blank; a slot has one that is sending
\* or sent.
DigestSound(d) ==
    /\ status[d] = "none" => inbox[d] = {} /\ dtoken[d] = "none"
    /\ status[d] = "sent" => inbox[d] = items[d] /\ items[d] # {} /\ dtoken[d] \in {"active", "expired"}
    /\ status[d] = "failed" /\ inbox[d] # {} => dtoken[d] = "revoked"

DigestsSound == \A d \in Digests : DigestSound(d)

OnePerSlot ==
    \A d, e \in Digests :
        slot[d] = slot[e] /\ status[d] \in {"sending", "sent"} /\ status[e] \in {"sending", "sent"} => d = e

IsSender(r) == req[r].pc \in SenderPcs
IsOwner(r) == req[r].pc \in OwnerPcs

SenderSound(r) ==
    IsSender(r) =>
        /\ action[req[r].a] = "sending"
        /\ At(r, "mail") => mails[req[r].a] = 0

OwnerSound(r) ==
    IsOwner(r) =>
        LET d == req[r].d IN
        /\ status[d] = "sending" /\ req[r].listed # {}
        /\ At(r, "token") => inbox[d] = {} /\ dtoken[d] = "none"
        /\ At(r, "mail_digest") => inbox[d] = {} /\ dtoken[d] \in {"active", "expired"}
        /\ At(r, "mark_digest_sent") => inbox[d] = req[r].listed /\ dtoken[d] \in {"active", "expired"}
        /\ At(r, "fail_digest") /\ inbox[d] # {} => dtoken[d] = "revoked"

RequestsSound ==
    \A r \in Requests :
        SenderSound(r) /\ OwnerSound(r) /\ (At(r, "claim_slot") => req[r].listed # {})

\* A claim has one claimant.
ClaimsUnique ==
    \A r, q \in Requests :
        /\ IsSender(r) /\ IsSender(q) /\ req[r].a = req[q].a => r = q
        /\ IsOwner(r) /\ IsOwner(q) /\ req[r].d = req[q].d => r = q

IInv ==
    /\ Types /\ LinksSound /\ ActionsSound /\ OneActive /\ DigestsSound /\ OnePerSlot
    /\ RequestsSound /\ ClaimsUnique

-----------------------------------------------------------------------------
(* Requests.                                                               *)

ItemPcs == {"claim_send", "approve"} \cup SenderPcs

LEMMA Shapes ==
    ASSUME NEW x \in RequestStates
    PROVE  /\ x.pc \in {"insert", "reject", "issue_link", "spend_link", "decide"} \cup ItemPcs => x.a \in Keys
           /\ x.pc \in {"spend_link", "decide"} => x.l \in Links /\ x.verdict \in Verdicts
           /\ x.pc = "claim_slot" => x.slot \in Slots /\ x.listed \in SUBSET Keys
           /\ x.pc \in OwnerPcs => x.d \in Digests /\ x.listed \in SUBSET Keys
BY DEF RequestStates, Idle, OnKey, OnLink, OnItem, OnSlot, OnDigest, ItemPcs, SenderPcs, OwnerPcs

LEMMA Records ==
    /\ \A k \in Keys, s \in {"insert", "reject", "issue_link"} :
           LET x == [pc |-> s, a |-> k] IN x \in RequestStates /\ x.pc = s
    /\ \A k \in Keys, i \in Links, v \in Verdicts :
           LET x == [pc |-> "spend_link", a |-> k, l |-> i, verdict |-> v]
           IN  x \in RequestStates /\ x.pc = "spend_link"
    /\ \A k \in Keys, s \in ItemPcs, b \in BOOLEAN :
           LET x == [pc |-> s, a |-> k, item |-> b] IN x \in RequestStates /\ x.pc = s
    /\ \A i \in Slots, L \in SUBSET Keys :
           LET x == [pc |-> "claim_slot", slot |-> i, listed |-> L]
           IN  x \in RequestStates /\ x.pc = "claim_slot" /\ x.listed = L
    /\ \A i \in Digests, L \in SUBSET Keys :
           LET x == [pc |-> "token", d |-> i, listed |-> L]
           IN  x \in RequestStates /\ x.pc = "token" /\ x.d = i /\ x.listed = L
BY DEF RequestStates, OnKey, OnLink, OnItem, OnSlot, OnDigest, ItemPcs, OwnerPcs

LEMMA ItemMoves ==
    ASSUME NEW x \in RequestStates, x.pc \in ItemPcs, NEW s \in ItemPcs
    PROVE  LET y == [x EXCEPT !.pc = s] IN y \in RequestStates /\ y.pc = s /\ y.a = x.a
<1>1. x \in OnItem
  BY DEF RequestStates, Idle, OnKey, OnLink, OnItem, OnSlot, OnDigest, ItemPcs, SenderPcs, OwnerPcs
<1> QED
  BY <1>1 DEF RequestStates, OnItem, ItemPcs

LEMMA LinkMoves ==
    ASSUME NEW x \in RequestStates, x.pc = "spend_link"
    PROVE  LET y == [x EXCEPT !.pc = "decide"] IN y \in RequestStates /\ y.pc = "decide"
<1>1. x \in OnLink
  BY DEF RequestStates, Idle, OnKey, OnLink, OnItem, OnSlot, OnDigest, SenderPcs, OwnerPcs
<1> QED
  BY <1>1 DEF RequestStates, OnLink

LEMMA DigestMoves ==
    ASSUME NEW x \in RequestStates, x.pc \in OwnerPcs, NEW s \in OwnerPcs
    PROVE  LET y == [x EXCEPT !.pc = s]
           IN  y \in RequestStates /\ y.pc = s /\ y.d = x.d /\ y.listed = x.listed
<1>1. x \in OnDigest
  BY DEF RequestStates, Idle, OnKey, OnLink, OnItem, OnSlot, OnDigest, SenderPcs, OwnerPcs
<1> QED
  BY <1>1 DEF RequestStates, OnDigest, OwnerPcs

\* Request r goes on to state x, the others stay where they are.
Goes(r, x) == x \in RequestStates /\ req' = [req EXCEPT ![r] = x]

LEMMA GoesEffect ==
    ASSUME Types, NEW r \in Requests, NEW x, Goes(r, x)
    PROVE  /\ req' \in [Requests -> RequestStates]
           /\ req'[r] = x /\ \A q \in Requests \ {r} : req'[q] = req[q]
BY DEF Types, Goes

LEMMA MovesGoes ==
    ASSUME Types, NEW r \in Requests, NEW s, Moves(r, s), [req[r] EXCEPT !.pc = s] \in RequestStates
    PROVE  Goes(r, [req[r] EXCEPT !.pc = s])
BY DEF Types, Goes, Moves

LEMMA FinishesGoes ==
    ASSUME NEW r \in Requests, Finishes(r)
    PROVE  Goes(r, Idle)
BY DEF Finishes, Becomes, Goes, RequestStates

-----------------------------------------------------------------------------
(* What keeps each part.                                                   *)

\* A request that is not r keeps the row it has claimed.
ClaimKept(q) ==
    /\ IsSender(q) => action'[req[q].a] = action[req[q].a] /\ mails'[req[q].a] = mails[req[q].a]
    /\ IsOwner(q) => /\ status'[req[q].d] = status[req[q].d]
                     /\ inbox'[req[q].d] = inbox[req[q].d]
                     /\ \/ dtoken'[req[q].d] = dtoken[req[q].d]
                        \/ (dtoken[req[q].d] = "active" /\ dtoken'[req[q].d] = "expired")

LEMMA StaysSound ==
    ASSUME NEW q \in Requests, req'[q] = req[q], ClaimKept(q), SenderSound(q), OwnerSound(q)
    PROVE  SenderSound(q)' /\ OwnerSound(q)'
<1>1. SenderSound(q)'
  BY DEF SenderSound, IsSender, ClaimKept, At
<1>2. OwnerSound(q)'
  BY DEF OwnerSound, IsOwner, ClaimKept, At
<1> QED
  BY <1>1, <1>2

LEMMA RequestStep ==
    ASSUME Types, RequestsSound, ClaimsUnique, NEW r \in Requests, NEW x, Goes(r, x),
           \A q \in Requests \ {r} : ClaimKept(q),
           SenderSound(r)', OwnerSound(r)', x.pc = "claim_slot" => x.listed # {},
           x.pc \in SenderPcs => \A q \in Requests \ {r} : IsSender(q) => req[q].a # x.a,
           x.pc \in OwnerPcs => \A q \in Requests \ {r} : IsOwner(q) => req[q].d # x.d
    PROVE  RequestsSound' /\ ClaimsUnique'
<1>1. req'[r] = x /\ \A q \in Requests \ {r} : req'[q] = req[q]
  BY GoesEffect
<1>2. ASSUME NEW q \in Requests \ {r}
      PROVE  SenderSound(q)' /\ OwnerSound(q)' /\ (At(q, "claim_slot") => req[q].listed # {})'
  <2>1. SenderSound(q)' /\ OwnerSound(q)'
    BY <1>1, StaysSound DEF RequestsSound
  <2> QED
    BY <1>1, <2>1 DEF RequestsSound, At
<1>3. RequestsSound'
  BY <1>1, <1>2 DEF RequestsSound, At
<1>4. ClaimsUnique'
  BY <1>1 DEF ClaimsUnique, IsSender, IsOwner
<1> QED
  BY <1>3, <1>4

LEMMA ActionStep ==
    ASSUME Types, ActionsSound, OneActive, NEW k \in Keys,
           \A a \in Keys \ {k} : /\ action'[a] = action[a] /\ mails'[a] = mails[a]
                                 /\ told'[a] = told[a] /\ (a \in approved' <=> a \in approved),
           ActionSound(k)',
           action'[k] \in Active =>
               action[k] \in Active \/ \A b \in Keys : b[1] = k[1] => action[b] \notin Active
    PROVE  ActionsSound' /\ OneActive'
<1>1. ActionsSound'
  BY DEF ActionsSound, ActionSound
<1>2. OneActive'
  BY DEF OneActive
<1> QED
  BY <1>1, <1>2

LEMMA DigestStep ==
    ASSUME Types, DigestsSound, OnePerSlot, NEW k \in Digests,
           \A d \in Digests \ {k} : /\ status'[d] = status[d] /\ slot'[d] = slot[d] /\ items'[d] = items[d]
                                    /\ inbox'[d] = inbox[d] /\ dtoken'[d] = dtoken[d],
           DigestSound(k)',
           status'[k] \in {"sending", "sent"} =>
               \/ status[k] \in {"sending", "sent"} /\ slot'[k] = slot[k]
               \/ \A d \in Digests \ {k} : slot[d] = slot'[k] => status[d] \notin {"sending", "sent"}
    PROVE  DigestsSound' /\ OnePerSlot'
<1>1. DigestsSound'
  BY DEF DigestsSound, DigestSound
<1>2. OnePerSlot'
  BY DEF OnePerSlot
<1> QED
  BY <1>1, <1>2

\* Steps that only read: the rows stay, the request claims nothing.
Rows == <<rule, actions, mails, told, links, digests>>

LEMMA RowsKept ==
    ASSUME IInv, UNCHANGED <<actions, mails, told, links, digests>>
    PROVE  LinksSound' /\ ActionsSound' /\ OneActive' /\ DigestsSound' /\ OnePerSlot' /\
           \A q \in Requests : ClaimKept(q)
<1>0. UNCHANGED <<action, approved, mails, told, link, linkOf, status, slot, items, dtoken, inbox>>
  BY DEF actions, links, digests, deliveries
<1>1. LinksSound' /\ ActionsSound' /\ OneActive'
  BY <1>0 DEF LinksSound, ActionsSound, ActionSound, OneActive, IInv
<1>2. DigestsSound' /\ OnePerSlot'
  BY <1>0 DEF DigestsSound, DigestSound, OnePerSlot, IInv
<1>3. \A q \in Requests : ClaimKept(q)
  BY <1>0 DEF ClaimKept
<1> QED
  BY <1>1, <1>2, <1>3

Plain(x) == x.pc \notin SenderPcs \cup OwnerPcs

LEMMA PlainSound ==
    ASSUME Types, NEW r \in Requests, NEW x, Goes(r, x), Plain(x)
    PROVE  SenderSound(r)' /\ OwnerSound(r)'
BY GoesEffect DEF Plain, SenderSound, OwnerSound, IsSender, IsOwner

LEMMA ReadSound ==
    ASSUME IInv, NEW r \in Requests, NEW x, Goes(r, x), Plain(x),
           x.pc = "claim_slot" => x.listed # {},
           UNCHANGED Rows
    PROVE  IInv'
<1>1. Types'
  BY GoesEffect DEF IInv, Types, Rows, rule, actions, links, digests, deliveries
<1>2. /\ LinksSound' /\ ActionsSound' /\ OneActive' /\ DigestsSound' /\ OnePerSlot'
      /\ \A q \in Requests : ClaimKept(q)
  BY RowsKept DEF Rows
<1>3. RequestsSound' /\ ClaimsUnique'
  BY <1>2, PlainSound, RequestStep DEF IInv, Plain
<1> QED
  BY <1>1, <1>2, <1>3 DEF IInv

LEMMA IdlePlain == Idle \in RequestStates /\ Plain(Idle) /\ Idle.pc # "claim_slot"
BY DEF RequestStates, Plain, Idle, SenderPcs, OwnerPcs

LEMMA ReadersSound ==
    ASSUME IInv, NEW r \in Requests,
           \/ EvaluateRule(r) \/ ReadForReject(r) \/ ReadForLink(r) \/ OpenLink(r) \/ ReadForSend(r)
           \/ CollectDigest(r) \/ Abandon(r)
    PROVE  IInv'
<1>1. UNCHANGED Rows
  BY DEF EvaluateRule, ReadForReject, ReadForLink, OpenLink, ReadForSend, CollectDigest, Abandon, Rows
<1>2. \E x : Goes(r, x) /\ Plain(x) /\ (x.pc = "claim_slot" => x.listed # {})
  <2> USE DEF Becomes, Goes, Plain, SenderPcs, OwnerPcs
  <2>1. CASE EvaluateRule(r)
    <3>1. PICK c \in Candidates : Becomes(r, [pc |-> "insert", a |-> <<c, version>>])
      BY <2>1 DEF EvaluateRule
    <3>2. <<c, version>> \in Keys
      BY DEF Keys, IInv, Types
    <3> QED
      BY <3>1, <3>2, Records
  <2>2. CASE ReadForReject(r)
    BY <2>2, Records DEF ReadForReject
  <2>3. CASE ReadForLink(r)
    BY <2>3, Records DEF ReadForLink
  <2>4. CASE OpenLink(r)
    <3>1. PICK i \in Links, v \in Verdicts :
            link[i] = "active" /\ Becomes(r, [pc |-> "spend_link", a |-> linkOf[i], l |-> i, verdict |-> v])
      BY <2>4 DEF OpenLink, Verdicts
    <3>2. linkOf[i] \in Keys
      BY <3>1 DEF IInv, LinksSound
    <3> QED
      BY <3>1, <3>2, Records
  <2>5. CASE ReadForSend(r)
    <3>1. PICK k \in Keys : Becomes(r, [pc |-> "claim_send", a |-> k, item |-> FALSE])
      BY <2>5 DEF ReadForSend
    <3> DEFINE x == [pc |-> "claim_send", a |-> k, item |-> FALSE]
    <3>2. x \in RequestStates /\ x.pc = "claim_send"
      BY Records DEF ItemPcs
    <3> QED
      BY <3>1, <3>2
  <2>6. CASE CollectDigest(r)
    <3>1. PICK s \in Slots, L \in SUBSET Keys :
            L # {} /\ Becomes(r, [pc |-> "claim_slot", slot |-> s, listed |-> L])
      BY <2>6 DEF CollectDigest
    <3> DEFINE x == [pc |-> "claim_slot", slot |-> s, listed |-> L]
    <3>2. x \in RequestStates /\ x.pc = "claim_slot" /\ x.listed = L
      BY Records
    <3> QED
      BY <3>1, <3>2
  <2>7. CASE Abandon(r)
    BY <2>7, IdlePlain DEF Abandon, Finishes
  <2> QED
    BY <2>1, <2>2, <2>3, <2>4, <2>5, <2>6, <2>7
<1> QED
  BY <1>1, <1>2, ReadSound

-----------------------------------------------------------------------------
(* Writes on an action.                                                    *)

\* What an action is on the other keys stays.
OthersKept(k) ==
    \A a \in Keys \ {k} : /\ action'[a] = action[a] /\ mails'[a] = mails[a]
                          /\ told'[a] = told[a] /\ (a \in approved' <=> a \in approved)

LEMMA KeyStep ==
    ASSUME IInv, Types', NEW r \in Requests, NEW x, Goes(r, x), NEW k \in Keys,
           UNCHANGED <<links, digests>>, OthersKept(k), ActionSound(k)',
           action'[k] \in Active =>
               action[k] \in Active \/ \A b \in Keys : b[1] = k[1] => action[b] \notin Active,
           action[k] = "sending" => IsSender(r) /\ req[r].a = k,
           x.pc \notin OwnerPcs /\ x.pc # "claim_slot",
           x.pc \in SenderPcs => x.a = k /\ action'[k] = "sending" /\ (x.pc = "mail" => mails'[k] = 0)
    PROVE  IInv'
<1>1. req'[r] = x /\ \A q \in Requests \ {r} : req'[q] = req[q]
  BY GoesEffect DEF IInv
<1>2. LinksSound' /\ DigestsSound' /\ OnePerSlot'
  BY DEF IInv, links, digests, deliveries, LinksSound, DigestsSound, DigestSound, OnePerSlot
<1>3. ActionsSound' /\ OneActive'
  BY ActionStep DEF IInv, OthersKept
<1>4. \A q \in Requests \ {r} : IsSender(q) => req[q].a \in Keys \ {k}
  <2> SUFFICES ASSUME NEW q \in Requests \ {r}, IsSender(q) PROVE req[q].a \in Keys \ {k}
    OBVIOUS
  <2>1. req[q].a \in Keys /\ action[req[q].a] = "sending"
    BY Shapes DEF IInv, Types, IsSender, ItemPcs, RequestsSound, SenderSound
  <2> QED
    BY <2>1 DEF IInv, ClaimsUnique
<1>5. \A q \in Requests \ {r} : ClaimKept(q)
  <2> SUFFICES ASSUME NEW q \in Requests \ {r} PROVE ClaimKept(q)
    OBVIOUS
  <2>1. IsSender(q) => action'[req[q].a] = action[req[q].a] /\ mails'[req[q].a] = mails[req[q].a]
    BY <1>4 DEF OthersKept
  <2>2. UNCHANGED <<status, inbox, dtoken>>
    BY DEF digests, deliveries
  <2> QED
    BY <2>1, <2>2 DEF ClaimKept
<1>6. SenderSound(r)' /\ OwnerSound(r)'
  BY <1>1 DEF SenderSound, OwnerSound, IsSender, IsOwner, At
<1>7. RequestsSound' /\ ClaimsUnique'
  BY <1>4, <1>5, <1>6, RequestStep DEF IInv
<1> QED
  BY <1>2, <1>3, <1>7 DEF IInv

LEMMA KeyOf ==
    ASSUME IInv, NEW r \in Requests,
           req[r].pc \in {"insert", "reject", "issue_link", "spend_link", "decide"} \cup ItemPcs
    PROVE  /\ req[r] \in RequestStates /\ req[r].a \in Keys /\ ActionSound(req[r].a)
           /\ mails[req[r].a] \in Nat /\ told[req[r].a] \subseteq Verdicts
BY Shapes DEF IInv, Types, ActionsSound

LEMMA TypesAt ==
    ASSUME IInv, NEW r \in Requests, NEW x, Goes(r, x), UNCHANGED <<rule, links, digests>>,
           action' \in [Keys -> ActionStates], approved' \subseteq Keys,
           mails' \in [Keys -> Nat], told' \in [Keys -> SUBSET Verdicts]
    PROVE  Types'
BY GoesEffect DEF IInv, Types, rule, links, digests, deliveries

LEMMA CreateSound ==
    ASSUME IInv, NEW r \in Requests, CreatePendingAction(r)
    PROVE  IInv'
<1>0. PICK k \in Keys : k = req[r].a
  BY KeyOf DEF CreatePendingAction, At
<1>1. ActionSound(k) /\ mails[k] \in Nat
  BY DEF IInv, ActionsSound, Types
<1>2. Goes(r, Idle) /\ UNCHANGED <<rule, approved, mails, told, links, digests>>
  BY FinishesGoes DEF CreatePendingAction
<1>3. CASE ~IndexesAdmit(k)
  BY <1>0, <1>2, <1>3, IdlePlain, ReadSound DEF CreatePendingAction, Rows, actions
<1>4. CASE IndexesAdmit(k)
  <2>1. action' = [action EXCEPT ![k] = "pending_approval"] /\ action[k] = "none"
    BY <1>0, <1>4 DEF CreatePendingAction, IndexesAdmit
  <2>2. Types'
    <3>1. action' \in [Keys -> ActionStates] /\ approved \subseteq Keys
      BY <2>1 DEF IInv, Types, ActionStates
    <3>2. mails' \in [Keys -> Nat] /\ told' \in [Keys -> SUBSET Verdicts] /\ approved' \subseteq Keys
      BY <1>2, <3>1 DEF IInv, Types
    <3> QED
      BY <1>2, <3>1, <3>2, TypesAt
  <2>3. action'[k] = "pending_approval" /\ OthersKept(k)
    BY <1>1, <1>2, <2>1 DEF IInv, Types, OthersKept
  <2>4. ActionSound(k)'
    BY <1>1, <1>2, <2>1, <2>3 DEF ActionSound
  <2>5. \A b \in Keys : b[1] = k[1] => action[b] \notin Active
    BY <1>4 DEF IndexesAdmit
  <2>6. action[k] # "sending" /\ UNCHANGED <<links, digests>>
    BY <1>2, <2>1
  <2>7. Idle.pc \notin SenderPcs /\ Idle.pc \notin OwnerPcs /\ Idle.pc # "claim_slot"
    BY IdlePlain DEF Plain
  <2> QED
    BY <1>1, <1>2, <2>2, <2>3, <2>4, <2>5, <2>6, <2>7, KeyStep
<1> QED
  BY <1>3, <1>4

\* A verdict is written on a pending action, and told or not.
LEMMA DecisionSound ==
    ASSUME IInv, NEW r \in Requests, NEW x, Goes(r, x), NEW k \in Keys, action[k] = "pending_approval",
           Approves(k) \/ Rejects(k),
           \/ UNCHANGED told
           \/ Approves(k) /\ Tells(k, "approved")
           \/ Rejects(k) /\ Tells(k, "rejected"),
           UNCHANGED <<rule, mails, links, digests>>,
           Plain(x) /\ x.pc # "claim_slot"
    PROVE  IInv'
<1>1. ActionSound(k) /\ mails[k] \in Nat /\ told[k] = {}
  BY DEF IInv, ActionsSound, ActionSound, Types, Verdicts
<1>2. /\ action' \in [Keys -> ActionStates] /\ approved' \subseteq Keys
      /\ told' \in [Keys -> SUBSET Verdicts] /\ mails' \in [Keys -> Nat]
  BY DEF IInv, Types, Approves, Rejects, Tells, Verdicts, ActionStates
<1>3. Types'
  BY <1>2, TypesAt
<1>4. OthersKept(k)
  BY DEF IInv, Types, Approves, Rejects, Tells, OthersKept
<1>5. ActionSound(k)' /\ action'[k] \in {"approved", "rejected"}
  <2>1. CASE Approves(k)
    <3>1. action'[k] = "approved" /\ k \in approved'
      BY <2>1 DEF Approves, IInv, Types
    <3>2. told'[k] \subseteq {"approved"}
      BY <1>1, <2>1, <3>1 DEF Approves, Rejects, Tells, IInv, Types
    <3> QED
      BY <1>1, <3>1, <3>2 DEF ActionSound
  <2>2. CASE Rejects(k)
    <3>1. action'[k] = "rejected"
      BY <2>2 DEF Rejects, IInv, Types
    <3>2. told'[k] \subseteq {"rejected"}
      BY <1>1, <2>2, <3>1 DEF Approves, Rejects, Tells, IInv, Types
    <3> QED
      BY <1>1, <3>1, <3>2 DEF ActionSound
  <2> QED
    BY <2>1, <2>2
<1>6. action[k] \in Active
  BY DEF Active
<1> QED
  BY <1>3, <1>4, <1>5, <1>6, KeyStep DEF Plain

\* A verdict that the row already carries is told again, or nothing is.
LEMMA RetellSound ==
    ASSUME IInv, NEW r \in Requests, NEW x, Goes(r, x), NEW k \in Keys,
           \/ UNCHANGED told
           \/ action[k] = "sent" /\ Tells(k, "approved")
           \/ action[k] = "rejected" /\ Tells(k, "rejected"),
           UNCHANGED <<rule, actions, mails, links, digests>>,
           Plain(x) /\ x.pc # "claim_slot"
    PROVE  IInv'
<1>1. CASE UNCHANGED told
  BY <1>1, ReadSound DEF Rows
<1>2. CASE ~UNCHANGED told
  <2>1. ActionSound(k) /\ UNCHANGED <<action, approved, mails>> /\ action[k] \in {"sent", "rejected"}
    BY <1>2 DEF IInv, ActionsSound, actions
  <2>2. told' \in [Keys -> SUBSET Verdicts]
    BY <1>2 DEF IInv, Types, Tells, Verdicts
  <2>3. Types'
    BY <2>1, <2>2, TypesAt DEF IInv, Types
  <2>4. OthersKept(k)
    BY <1>2, <2>1 DEF IInv, Types, Tells, OthersKept
  <2>5. /\ action[k] = "sent" => told'[k] = told[k] \cup {"approved"}
        /\ action[k] = "rejected" => told'[k] = told[k] \cup {"rejected"}
    BY <1>2, <2>1 DEF IInv, Types, Tells
  <2>6. ActionSound(k)'
    BY <2>1, <2>5 DEF ActionSound
  <2> QED
    BY <2>1, <2>3, <2>4, <2>6, KeyStep DEF Plain
<1> QED
  BY <1>1, <1>2

LEMMA VerdictsSound ==
    ASSUME IInv, NEW r \in Requests,
           Reject(r) \/ DecideByLink(r) \/ MarkDigestApprovalActionApproved(r)
    PROVE  IInv'
<1>1. PICK k \in Keys : k = req[r].a
  BY KeyOf DEF Reject, DecideByLink, MarkDigestApprovalActionApproved, At, ItemPcs
<1>2. CASE Reject(r)
  <2>1. Goes(r, Idle) /\ UNCHANGED <<rule, mails, links, digests>>
    BY <1>2, FinishesGoes DEF Reject
  <2>2. \/ action[k] = "pending_approval" /\ Rejects(k) /\ Tells(k, "rejected")
        \/ UNCHANGED <<actions, told>>
    BY <1>1, <1>2 DEF Reject, InState
  <2> QED
    BY <2>1, <2>2, IdlePlain, DecisionSound, RetellSound
<1>3. CASE DecideByLink(r)
  <2>1. Goes(r, Idle) /\ UNCHANGED <<rule, mails, links, digests>>
    BY <1>3, FinishesGoes DEF DecideByLink
  <2>2. req[r].verdict \in Verdicts
    BY <1>3, Shapes DEF DecideByLink, At, IInv, Types
  <2>3. \/ action[k] = "pending_approval" /\ Approves(k) /\ Tells(k, "approved")
        \/ action[k] = "pending_approval" /\ Rejects(k) /\ Tells(k, "rejected")
        \/ UNCHANGED <<actions, told>>
    BY <1>1, <1>3, <2>2 DEF DecideByLink, InState, Verdicts
  <2> QED
    BY <2>1, <2>3, IdlePlain, DecisionSound, RetellSound
<1>4. CASE MarkDigestApprovalActionApproved(r)
  <2>1. UNCHANGED <<rule, mails, told, links, digests>>
    BY <1>4 DEF MarkDigestApprovalActionApproved
  <2>2. CASE Approves(k) /\ action[k] = "pending_approval" /\ Moves(r, "claim_send")
    <3> DEFINE x == [req[r] EXCEPT !.pc = "claim_send"]
    <3>1. x \in RequestStates /\ x.pc = "claim_send"
      BY <1>4, ItemMoves DEF MarkDigestApprovalActionApproved, At, ItemPcs, IInv, Types
    <3>2. Goes(r, x)
      BY <2>2, <3>1, MovesGoes DEF IInv
    <3>3. Plain(x) /\ x.pc # "claim_slot"
      BY <3>1 DEF Plain, SenderPcs, OwnerPcs
    <3> HIDE DEF x
    <3> QED
      BY <2>1, <2>2, <3>2, <3>3, DecisionSound
  <2>3. CASE UNCHANGED actions /\ Finishes(r)
    BY <2>1, <2>3, FinishesGoes, IdlePlain, RetellSound
  <2> QED
    BY <1>1, <1>4, <2>2, <2>3 DEF MarkDigestApprovalActionApproved, InState
<1> QED
  BY <1>2, <1>3, <1>4

LEMMA IdleStays ==
    ASSUME IInv, NEW r \in Requests, At(r, "idle"), UNCHANGED req
    PROVE  Goes(r, req[r]) /\ Plain(req[r]) /\ req[r].pc # "claim_slot"
BY DEF Goes, Plain, At, IInv, Types, SenderPcs, OwnerPcs

LEMMA DigestLinkSound ==
    ASSUME IInv, NEW r \in Requests, ApproveDigestItem(r) \/ RejectDigestItem(r)
    PROVE  IInv'
<1>1. UNCHANGED <<rule, actions, mails, links, digests>> /\ At(r, "idle")
  BY DEF ApproveDigestItem, RejectDigestItem
<1>2. PICK k \in Keys :
        \/ action[k] = "sent" /\ Tells(k, "approved") /\ UNCHANGED req
        \/ action[k] = "rejected" /\ Tells(k, "rejected") /\ UNCHANGED req
        \/ /\ \E s \in {"claim_send", "approve"} : Becomes(r, [pc |-> s, a |-> k, item |-> TRUE])
           /\ UNCHANGED told
        \/ Becomes(r, [pc |-> "reject", a |-> k]) /\ UNCHANGED told
  BY DEF ApproveDigestItem, RejectDigestItem
<1>3. CASE UNCHANGED req
  <2>1. Goes(r, req[r]) /\ Plain(req[r]) /\ req[r].pc # "claim_slot"
    BY <1>1, <1>3, IdleStays
  <2>2. \/ UNCHANGED told
        \/ action[k] = "sent" /\ Tells(k, "approved")
        \/ action[k] = "rejected" /\ Tells(k, "rejected")
    BY <1>2
  <2> QED
    BY <1>1, <2>1, <2>2, RetellSound
<1>4. ASSUME NEW s \in {"claim_send", "approve"}, UNCHANGED told,
             Becomes(r, [pc |-> s, a |-> k, item |-> TRUE])
      PROVE  IInv'
  <2> DEFINE x == [pc |-> s, a |-> k, item |-> TRUE]
  <2>1. x \in RequestStates /\ x.pc = s
    BY Records DEF ItemPcs
  <2>2. Goes(r, x) /\ Plain(x) /\ x.pc # "claim_slot"
    BY <1>4, <2>1 DEF Becomes, Goes, Plain, SenderPcs, OwnerPcs
  <2> HIDE DEF x
  <2> QED
    BY <1>1, <1>4, <2>2, RetellSound
<1>5. CASE UNCHANGED told /\ Becomes(r, [pc |-> "reject", a |-> k])
  <2> DEFINE x == [pc |-> "reject", a |-> k]
  <2>1. x \in RequestStates /\ x.pc = "reject"
    BY Records
  <2>2. Goes(r, x) /\ Plain(x) /\ x.pc # "claim_slot"
    BY <1>5, <2>1 DEF Becomes, Goes, Plain, SenderPcs, OwnerPcs
  <2> HIDE DEF x
  <2> QED
    BY <1>1, <1>5, <2>2, RetellSound
<1> QED
  BY <1>2, <1>3, <1>4, <1>5

-----------------------------------------------------------------------------
(* Sending.                                                                *)

LEMMA ClaimSendSound ==
    ASSUME IInv, NEW r \in Requests, ClaimSend(r)
    PROVE  IInv'
<1>1. PICK k \in Keys : k = req[r].a
  BY KeyOf DEF ClaimSend, At, ItemPcs
<1>2. UNCHANGED <<rule, approved, mails, links, digests>>
  BY DEF ClaimSend
<1>3. CASE ~InState(k, "approved")
  <2>1. /\ Goes(r, Idle) /\ UNCHANGED action
        /\ UNCHANGED told \/ (action[k] = "sent" /\ Tells(k, "approved"))
    BY <1>1, <1>3, FinishesGoes DEF ClaimSend
  <2> QED
    BY <1>2, <2>1, IdlePlain, RetellSound DEF actions
<1>4. CASE InState(k, "approved")
  <2> DEFINE x == [req[r] EXCEPT !.pc = "mail"]
  <2>1. action' = [action EXCEPT ![k] = "sending"] /\ UNCHANGED told /\ Moves(r, "mail")
    BY <1>1, <1>4 DEF ClaimSend
  <2>2. x \in RequestStates /\ x.pc = "mail" /\ x.a = k
    BY <1>1, ItemMoves DEF ClaimSend, At, ItemPcs, SenderPcs, IInv, Types
  <2>3. Goes(r, x)
    BY <2>1, <2>2, MovesGoes DEF IInv
  <2> HIDE DEF x
  <2>4. ActionSound(k) /\ mails[k] \in Nat /\ action[k] = "approved"
    BY <1>4 DEF IInv, ActionsSound, Types, InState
  <2>5. mails[k] = 0
    BY <2>4 DEF ActionSound
  <2>6. action'[k] = "sending" /\ OthersKept(k)
    BY <1>2, <2>1 DEF IInv, Types, OthersKept
  <2>7. ActionSound(k)'
    BY <1>2, <2>1, <2>4, <2>5, <2>6 DEF ActionSound
  <2>8. Types'
    <3>1. action' \in [Keys -> ActionStates]
      BY <2>1 DEF IInv, Types, ActionStates
    <3> QED
      BY <1>2, <2>1, <2>3, <3>1, TypesAt DEF IInv, Types
  <2>9. action[k] \in Active /\ x.pc \notin OwnerPcs /\ x.pc # "claim_slot" /\ mails'[k] = 0
    BY <1>2, <2>2, <2>4, <2>5 DEF Active, OwnerPcs
  <2> QED
    BY <1>2, <2>2, <2>3, <2>4, <2>6, <2>7, <2>8, <2>9, KeyStep
<1> QED
  BY <1>3, <1>4

\* A sender is alone with an action that is sending.
LEMMA SenderHolds ==
    ASSUME IInv, NEW r \in Requests, IsSender(r)
    PROVE  /\ req[r] \in RequestStates /\ req[r].a \in Keys /\ action[req[r].a] = "sending"
           /\ mails[req[r].a] \in Nat /\ ActionSound(req[r].a)
           /\ At(r, "mail") => mails[req[r].a] = 0
<1>1. req[r].pc \in ItemPcs
  BY DEF IsSender, ItemPcs
<1> QED
  BY <1>1, KeyOf DEF IInv, RequestsSound, SenderSound

LEMMA MailCandidateSound ==
    ASSUME IInv, NEW r \in Requests, MailCandidate(r)
    PROVE  IInv'
<1>1. IsSender(r) /\ UNCHANGED <<rule, actions, told, links, digests>>
  BY DEF MailCandidate, At, IsSender, SenderPcs
<1>2. PICK k \in Keys : k = req[r].a
  BY <1>1, SenderHolds
<1>3. action[k] = "sending" /\ mails[k] = 0 /\ ActionSound(k) /\ UNCHANGED <<action, approved>>
  BY <1>1, <1>2, SenderHolds DEF MailCandidate, actions
<1>4. PICK s \in {"mark_sent", "mark_failed"} :
        Moves(r, s) /\ (UNCHANGED mails \/ mails' = [mails EXCEPT ![k] = @ + 1])
  BY <1>2 DEF MailCandidate
<1> DEFINE x == [req[r] EXCEPT !.pc = s]
<1>5. x \in RequestStates /\ x.pc = s /\ x.a = k
  BY <1>1, <1>2, SenderHolds, ItemMoves DEF IsSender, ItemPcs, SenderPcs
<1>6. Goes(r, x)
  BY <1>4, <1>5, MovesGoes DEF IInv
<1> HIDE DEF x
<1>7. mails'[k] \in {0, 1} /\ mails' \in [Keys -> Nat] /\ OthersKept(k)
  BY <1>1, <1>3, <1>4 DEF IInv, Types, OthersKept
<1>8. ActionSound(k)'
  BY <1>1, <1>3, <1>7 DEF ActionSound
<1>9. Types'
  BY <1>1, <1>3, <1>6, <1>7, TypesAt DEF IInv, Types
<1>10. action[k] \in Active /\ x.pc \notin OwnerPcs /\ x.pc # "claim_slot" /\ x.pc # "mail" /\ action'[k] = "sending"
  BY <1>3, <1>5 DEF Active, OwnerPcs
<1> QED
  BY <1>1, <1>2, <1>5, <1>6, <1>7, <1>8, <1>9, <1>10, KeyStep

LEMMA MarkSound ==
    ASSUME IInv, NEW r \in Requests, MarkSchedulingEmailSent(r) \/ MarkSchedulingEmailFailed(r)
    PROVE  IInv'
<1>1. IsSender(r) /\ Goes(r, Idle) /\ UNCHANGED <<rule, approved, mails, links, digests>>
  BY FinishesGoes DEF MarkSchedulingEmailSent, MarkSchedulingEmailFailed, At, IsSender, SenderPcs
<1>2. PICK k \in Keys : k = req[r].a
  BY <1>1, SenderHolds
<1>3. action[k] = "sending" /\ ActionSound(k) /\ mails[k] \in Nat
  BY <1>1, <1>2, SenderHolds
<1>4. \/ action' = [action EXCEPT ![k] = "sent"] /\ Tells(k, "approved")
      \/ action' = [action EXCEPT ![k] = "failed"] /\ UNCHANGED told
  BY <1>2 DEF MarkSchedulingEmailSent, MarkSchedulingEmailFailed
<1>5. /\ action' \in [Keys -> ActionStates] /\ action'[k] \in {"sent", "failed"}
      /\ told' \in [Keys -> SUBSET Verdicts] /\ told'[k] \subseteq told[k] \cup {"approved"}
  BY <1>4 DEF IInv, Types, Tells, ActionStates, Verdicts
<1>6. OthersKept(k)
  BY <1>1, <1>4 DEF IInv, Types, Tells, OthersKept
<1>7. ActionSound(k)'
  BY <1>1, <1>3, <1>5 DEF ActionSound
<1>8. Types'
  BY <1>1, <1>5, TypesAt DEF IInv, Types
<1>9. /\ action[k] \in Active /\ Idle.pc \notin OwnerPcs /\ Idle.pc \notin SenderPcs
      /\ Idle.pc # "claim_slot"
  BY <1>3, IdlePlain DEF Active, Plain
<1> QED
  BY <1>1, <1>2, <1>6, <1>7, <1>8, <1>9, KeyStep

-----------------------------------------------------------------------------
(* Links, and steps of nobody.                                             *)

LEMMA NobodySound ==
    ASSUME IInv, Types', UNCHANGED req, \A q \in Requests : ClaimKept(q)
    PROVE  RequestsSound' /\ ClaimsUnique'
<1>1. RequestsSound'
  BY StaysSound DEF IInv, RequestsSound, At
<1>2. ClaimsUnique'
  BY DEF IInv, ClaimsUnique, IsSender, IsOwner
<1> QED
  BY <1>1, <1>2

LEMMA LinkRest ==
    ASSUME IInv, UNCHANGED <<actions, mails, told, digests>>
    PROVE  ActionsSound' /\ OneActive' /\ DigestsSound' /\ OnePerSlot' /\ \A q \in Requests : ClaimKept(q)
<1>1. UNCHANGED <<action, approved, mails, told, status, slot, items, dtoken, inbox>>
  BY DEF actions, digests, deliveries
<1>2. ActionsSound' /\ OneActive'
  BY <1>1 DEF ActionsSound, ActionSound, OneActive, IInv
<1>3. DigestsSound' /\ OnePerSlot'
  BY <1>1 DEF DigestsSound, DigestSound, OnePerSlot, IInv
<1>4. \A q \in Requests : ClaimKept(q)
  BY <1>1 DEF ClaimKept
<1> QED
  BY <1>2, <1>3, <1>4

LEMMA LinkStep ==
    ASSUME IInv, NEW r \in Requests, NEW x, Goes(r, x), Plain(x), x.pc # "claim_slot",
           UNCHANGED <<rule, actions, mails, told, digests>>,
           link' \in [Links -> {"none", "active", "expired", "used", "rejected"}],
           linkOf' \in [Links -> Keys \cup {None}], LinksSound'
    PROVE  IInv'
<1>1. Types'
  BY GoesEffect DEF IInv, Types, rule, actions, digests, deliveries
<1>2. ActionsSound' /\ OneActive' /\ DigestsSound' /\ OnePerSlot' /\ \A q \in Requests : ClaimKept(q)
  BY LinkRest
<1>3. RequestsSound' /\ ClaimsUnique'
  BY <1>2, PlainSound, RequestStep DEF IInv, Plain
<1> QED
  BY <1>1, <1>2, <1>3 DEF IInv

LEMMA IssueLinkSound ==
    ASSUME IInv, NEW r \in Requests, IssueLink(r)
    PROVE  IInv'
<1>1. req[r].a \in Keys
  BY KeyOf DEF IssueLink, At
<1>2. PICK i \in Links :
        link' = [link EXCEPT ![i] = "active"] /\ linkOf' = [linkOf EXCEPT ![i] = req[r].a]
  BY DEF IssueLink
<1>3. /\ link' \in [Links -> {"none", "active", "expired", "used", "rejected"}]
      /\ linkOf' \in [Links -> Keys \cup {None}]
  BY <1>1, <1>2 DEF IInv, Types
<1>4. LinksSound'
  BY <1>1, <1>2 DEF IInv, Types, LinksSound
<1>5. Goes(r, Idle) /\ UNCHANGED <<rule, actions, mails, told, digests>>
  BY FinishesGoes DEF IssueLink
<1> QED
  BY <1>3, <1>4, <1>5, IdlePlain, LinkStep

LEMMA SpendLinkSound ==
    ASSUME IInv, NEW r \in Requests, SpendLink(r)
    PROVE  IInv'
<1>1. req[r].l \in Links /\ req[r] \in RequestStates /\ req[r].pc = "spend_link"
  BY Shapes DEF SpendLink, At, IInv, Types
<1>2. UNCHANGED <<rule, actions, mails, told, linkOf, digests>>
  BY DEF SpendLink
<1>3. CASE Finishes(r) /\ UNCHANGED link
  BY <1>2, <1>3, FinishesGoes, IdlePlain, ReadSound DEF Rows, links
<1>4. ASSUME NEW s \in {"used", "rejected"}, link' = [link EXCEPT ![req[r].l] = s], Moves(r, "decide")
      PROVE  IInv'
  <2> DEFINE x == [req[r] EXCEPT !.pc = "decide"]
  <2>1. x \in RequestStates /\ x.pc = "decide"
    BY <1>1, LinkMoves
  <2>2. Goes(r, x) /\ Plain(x) /\ x.pc # "claim_slot"
    BY <1>4, <2>1, MovesGoes DEF IInv, Plain, SenderPcs, OwnerPcs
  <2> HIDE DEF x
  <2>3. /\ link' \in [Links -> {"none", "active", "expired", "used", "rejected"}]
        /\ linkOf' \in [Links -> Keys \cup {None}] /\ LinksSound'
    BY <1>1, <1>2, <1>4 DEF IInv, Types, LinksSound
  <2> QED
    BY <1>2, <2>2, <2>3, LinkStep
<1> QED
  BY <1>3, <1>4 DEF SpendLink

LEMMA ClockSound ==
    ASSUME IInv, PatchRule \/ ExpireLink
    PROVE  IInv'
<1>1. UNCHANGED <<actions, mails, told, digests, req>>
  BY DEF PatchRule, ExpireLink
<1>2. /\ version' \in 1..MaxVersion
      /\ link' \in [Links -> {"none", "active", "expired", "used", "rejected"}]
      /\ linkOf' \in [Links -> Keys \cup {None}] /\ LinksSound'
  <2>1. CASE PatchRule
    BY <2>1, AutomationBounds DEF PatchRule, IInv, Types, LinksSound, links
  <2>2. CASE ExpireLink
    BY <2>2 DEF ExpireLink, IInv, Types, LinksSound, rule
  <2> QED
    BY <2>1, <2>2
<1>3. Types'
  BY <1>1, <1>2 DEF IInv, Types, actions, digests, deliveries
<1>4. ActionsSound' /\ OneActive' /\ DigestsSound' /\ OnePerSlot' /\ \A q \in Requests : ClaimKept(q)
  BY <1>1, LinkRest
<1> QED
  BY <1>1, <1>2, <1>3, <1>4, NobodySound DEF IInv

-----------------------------------------------------------------------------
(* The digest.                                                             *)

OtherDigestsKept(k) ==
    \A d \in Digests \ {k} : /\ status'[d] = status[d] /\ slot'[d] = slot[d] /\ items'[d] = items[d]
                             /\ inbox'[d] = inbox[d] /\ dtoken'[d] = dtoken[d]

DigestTypes ==
    /\ status' \in [Digests -> {"none", "sending", "sent", "failed"}]
    /\ slot' \in [Digests -> Slots \cup {CHOOSE s \in Slots : TRUE}]
    /\ items' \in [Digests -> SUBSET Keys] /\ inbox' \in [Digests -> SUBSET Keys]
    /\ dtoken' \in [Digests -> {"none", "active", "expired", "revoked"}]

LEMMA DigestRest ==
    ASSUME IInv, UNCHANGED <<actions, mails, told, links>>
    PROVE  LinksSound' /\ ActionsSound' /\ OneActive'
BY DEF IInv, actions, links, LinksSound, ActionsSound, ActionSound, OneActive

LEMMA DigestKeyStep ==
    ASSUME IInv, NEW r \in Requests, NEW x, Goes(r, x), NEW k \in Digests, DigestTypes,
           UNCHANGED <<rule, actions, mails, told, links>>, OtherDigestsKept(k), DigestSound(k)',
           status'[k] \in {"sending", "sent"} =>
               \/ status[k] \in {"sending", "sent"} /\ slot'[k] = slot[k]
               \/ \A d \in Digests \ {k} : slot[d] = slot'[k] => status[d] \notin {"sending", "sent"},
           status[k] = "sending" => IsOwner(r) /\ req[r].d = k,
           x.pc \notin SenderPcs /\ x.pc # "claim_slot",
           x.pc \in OwnerPcs => x.d = k, OwnerSound(r)'
    PROVE  IInv'
<1>1. req'[r] = x /\ \A q \in Requests \ {r} : req'[q] = req[q]
  BY GoesEffect DEF IInv
<1>2. Types'
  BY GoesEffect DEF IInv, Types, DigestTypes, rule, actions, links
<1>3. DigestsSound' /\ OnePerSlot'
  BY DigestStep DEF IInv, OtherDigestsKept
<1>4. LinksSound' /\ ActionsSound' /\ OneActive'
  BY DigestRest
<1>5. \A q \in Requests \ {r} : IsOwner(q) => req[q].d \in Digests \ {k}
  <2> SUFFICES ASSUME NEW q \in Requests \ {r}, IsOwner(q) PROVE req[q].d \in Digests \ {k}
    OBVIOUS
  <2>1. req[q].d \in Digests /\ status[req[q].d] = "sending"
    BY Shapes DEF IInv, Types, IsOwner, RequestsSound, OwnerSound
  <2> QED
    BY <2>1 DEF IInv, ClaimsUnique
<1>6. \A q \in Requests \ {r} : ClaimKept(q)
  <2> SUFFICES ASSUME NEW q \in Requests \ {r} PROVE ClaimKept(q)
    OBVIOUS
  <2>1. UNCHANGED <<action, mails>>
    BY DEF actions
  <2>2. IsOwner(q) => /\ status'[req[q].d] = status[req[q].d] /\ inbox'[req[q].d] = inbox[req[q].d]
                      /\ dtoken'[req[q].d] = dtoken[req[q].d]
    BY <1>5 DEF OtherDigestsKept
  <2> QED
    BY <2>1, <2>2 DEF ClaimKept
<1>7. SenderSound(r)'
  BY <1>1 DEF SenderSound, IsSender
<1>8. RequestsSound' /\ ClaimsUnique'
  BY <1>5, <1>6, <1>7, RequestStep DEF IInv
<1> QED
  BY <1>2, <1>3, <1>4, <1>8 DEF IInv

\* An owner is alone with a digest that is sending.
LEMMA OwnerHolds ==
    ASSUME IInv, NEW r \in Requests, IsOwner(r)
    PROVE  /\ req[r] \in RequestStates /\ req[r].pc \in OwnerPcs
           /\ req[r].d \in Digests /\ req[r].listed \in SUBSET Keys
           /\ status[req[r].d] = "sending" /\ req[r].listed # {}
           /\ At(r, "token") => inbox[req[r].d] = {}
           /\ At(r, "mail_digest") => inbox[req[r].d] = {} /\ dtoken[req[r].d] \in {"active", "expired"}
           /\ At(r, "mark_digest_sent") =>
                  inbox[req[r].d] = req[r].listed /\ dtoken[req[r].d] \in {"active", "expired"}
           /\ At(r, "fail_digest") /\ inbox[req[r].d] # {} => dtoken[req[r].d] = "revoked"
<1>1. req[r] \in RequestStates /\ req[r].pc \in OwnerPcs
  BY DEF IInv, Types, IsOwner
<1>2. req[r].d \in Digests /\ req[r].listed \in SUBSET Keys
  BY <1>1, Shapes
<1> QED
  BY <1>1, <1>2 DEF IInv, RequestsSound, OwnerSound

LEMMA ClaimSlotSound ==
    ASSUME IInv, NEW r \in Requests, ClaimSlot(r)
    PROVE  IInv'
<1>1. req[r].slot \in Slots /\ req[r].listed \in SUBSET Keys /\ req[r].listed # {}
  BY Shapes DEF ClaimSlot, At, IInv, Types, RequestsSound
<1>2. UNCHANGED <<rule, actions, mails, told, links, items, dtoken, inbox>>
  BY DEF ClaimSlot
<1>3. CASE Finishes(r) /\ UNCHANGED <<status, slot>>
  BY <1>2, <1>3, FinishesGoes, IdlePlain, ReadSound DEF Rows, digests, deliveries
<1>4. CASE SlotFree(req[r].slot) /\ ~(Finishes(r) /\ UNCHANGED <<status, slot>>)
  <2>1. PICK k \in Digests :
          /\ status[k] = "none" /\ status' = [status EXCEPT ![k] = "sending"]
          /\ slot' = [slot EXCEPT ![k] = req[r].slot]
          /\ Becomes(r, [pc |-> "token", d |-> k, listed |-> req[r].listed])
    BY <1>4 DEF ClaimSlot
  <2>2. PICK L \in SUBSET Keys : L = req[r].listed
    BY <1>1
  <2> DEFINE x == [pc |-> "token", d |-> k, listed |-> L]
  <2>3. x \in RequestStates /\ x.pc = "token" /\ x.d = k /\ x.listed = L
    BY Records
  <2>4. Goes(r, x)
    BY <2>1, <2>2, <2>3 DEF Becomes, Goes
  <2> HIDE DEF x
  <2>5. DigestTypes /\ OtherDigestsKept(k)
    BY <1>1, <1>2, <2>1 DEF IInv, Types, DigestTypes, OtherDigestsKept
  <2>6. status'[k] = "sending" /\ inbox'[k] = {} /\ dtoken'[k] = "none"
    BY <1>2, <2>1 DEF IInv, Types, DigestsSound, DigestSound
  <2>7. DigestSound(k)'
    BY <2>6 DEF DigestSound
  <2>8. \A d \in Digests \ {k} : slot[d] = slot'[k] => status[d] \notin {"sending", "sent"}
    BY <1>4, <2>1 DEF SlotFree, IInv, Types
  <2>9. req'[r] = x
    BY <2>4, GoesEffect DEF IInv
  <2>10. OwnerSound(r)'
    BY <1>1, <2>2, <2>3, <2>6, <2>9 DEF OwnerSound, At
  <2>11. x.pc \notin SenderPcs /\ x.pc # "claim_slot"
    BY <2>3 DEF SenderPcs
  <2> QED
    BY <1>2, <2>1, <2>3, <2>4, <2>5, <2>7, <2>8, <2>10, <2>11, DigestKeyStep
<1> QED
  BY <1>3, <1>4 DEF ClaimSlot

\* An owner goes on with its digest: what it needs to know of the step.
LEMMA OwnerStep ==
    ASSUME IInv, NEW r \in Requests, IsOwner(r), NEW k \in Digests, k = req[r].d,
           NEW L, L = req[r].listed, NEW s \in OwnerPcs, Moves(r, s),
           UNCHANGED <<rule, actions, mails, told, links, deliveries>>, DigestTypes, OtherDigestsKept(k),
           s # "token",
           s = "mail_digest" => inbox'[k] = {} /\ dtoken'[k] \in {"active", "expired"},
           s = "mark_digest_sent" => inbox'[k] = L /\ dtoken'[k] \in {"active", "expired"},
           s = "fail_digest" /\ inbox'[k] # {} => dtoken'[k] = "revoked"
    PROVE  IInv'
<1>1. status[k] = "sending" /\ L # {} /\ req[r] \in RequestStates /\ req[r].pc \in OwnerPcs
  BY OwnerHolds
<1> DEFINE x == [req[r] EXCEPT !.pc = s]
<1>2. x \in RequestStates /\ x.pc = s /\ x.d = k /\ x.listed = L
  BY <1>1, DigestMoves
<1>3. Goes(r, x)
  BY <1>2, MovesGoes DEF IInv
<1> HIDE DEF x
<1>4. req'[r] = x
  BY <1>3, GoesEffect DEF IInv
<1>5. status'[k] = "sending" /\ slot'[k] = slot[k]
  BY <1>1 DEF deliveries
<1>6. OwnerSound(r)' /\ DigestSound(k)'
  BY <1>1, <1>2, <1>4, <1>5 DEF OwnerSound, At, DigestSound
<1>7. x.pc \notin SenderPcs /\ x.pc # "claim_slot"
  BY <1>2 DEF SenderPcs, OwnerPcs
<1> QED
  BY <1>1, <1>2, <1>3, <1>5, <1>6, <1>7, DigestKeyStep

LEMMA OwnersSound ==
    ASSUME IInv, NEW r \in Requests, CreateDigestToken(r) \/ MailDigest(r) \/ RevokeDigestToken(r)
    PROVE  IInv'
<1>1. IsOwner(r) /\ UNCHANGED <<rule, actions, mails, told, links, deliveries>>
  BY DEF CreateDigestToken, MailDigest, RevokeDigestToken, At, IsOwner, OwnerPcs
<1>2. PICK k \in Digests : k = req[r].d
  BY <1>1, OwnerHolds
<1>3. PICK L \in SUBSET Keys : L = req[r].listed
  BY <1>1, OwnerHolds
<1>4. UNCHANGED <<status, slot, items>>
  BY <1>1 DEF deliveries
<1>5. CASE CreateDigestToken(r)
  <2>1. PICK s \in {"mail_digest", "fail_digest"} :
          /\ Moves(r, s) /\ (s = "mail_digest" => dtoken' = [dtoken EXCEPT ![k] = "active"])
          /\ dtoken' \in {dtoken, [dtoken EXCEPT ![k] = "active"]}
    BY <1>2, <1>5 DEF CreateDigestToken
  <2>2. inbox[k] = {} /\ inbox' = inbox
    BY <1>1, <1>2, <1>5, OwnerHolds DEF CreateDigestToken
  <2>3. DigestTypes /\ OtherDigestsKept(k) /\ (s = "mail_digest" => dtoken'[k] = "active")
    BY <1>4, <2>1, <2>2 DEF IInv, Types, DigestTypes, OtherDigestsKept
  <2> QED
    BY <1>1, <1>2, <1>3, <2>1, <2>2, <2>3, OwnerStep DEF OwnerPcs
<1>6. CASE MailDigest(r)
  <2>1. PICK s \in {"mark_digest_sent", "revoke"} :
          /\ Moves(r, s) /\ (s = "mark_digest_sent" => inbox' = [inbox EXCEPT ![k] = L])
          /\ inbox' \in {inbox, [inbox EXCEPT ![k] = L]}
    BY <1>2, <1>3, <1>6 DEF MailDigest
  <2>2. dtoken[k] \in {"active", "expired"} /\ dtoken' = dtoken
    BY <1>1, <1>2, <1>6, OwnerHolds DEF MailDigest
  <2>3. DigestTypes /\ OtherDigestsKept(k) /\ (s = "mark_digest_sent" => inbox'[k] = L)
    BY <1>4, <2>1, <2>2 DEF IInv, Types, DigestTypes, OtherDigestsKept
  <2> QED
    BY <1>1, <1>2, <1>3, <2>1, <2>2, <2>3, OwnerStep DEF OwnerPcs
<1>7. CASE RevokeDigestToken(r)
  <2>1. dtoken' = [dtoken EXCEPT ![k] = "revoked"] /\ inbox' = inbox /\ Moves(r, "fail_digest")
    BY <1>2, <1>7 DEF RevokeDigestToken
  <2>2. DigestTypes /\ OtherDigestsKept(k) /\ dtoken'[k] = "revoked"
    BY <1>4, <2>1 DEF IInv, Types, DigestTypes, OtherDigestsKept
  <2> QED
    BY <1>1, <1>2, <1>3, <2>1, <2>2, OwnerStep DEF OwnerPcs
<1> QED
  BY <1>5, <1>6, <1>7

LEMMA EndsDigestSound ==
    ASSUME IInv, NEW r \in Requests, MarkDigestDeliveryFailed(r) \/ MarkDigestDeliverySent(r)
    PROVE  IInv'
<1>1. IsOwner(r)
  BY DEF MarkDigestDeliveryFailed, MarkDigestDeliverySent, At, IsOwner, OwnerPcs
<1>2. PICK k \in Digests : k = req[r].d
  BY <1>1, OwnerHolds
<1>3. PICK L \in SUBSET Keys : L = req[r].listed
  BY <1>1, OwnerHolds
<1>4. /\ status' \in {[status EXCEPT ![k] = "failed"], [status EXCEPT ![k] = "sent"]}
      /\ items' = [items EXCEPT ![k] = L] /\ Goes(r, Idle)
      /\ UNCHANGED <<rule, actions, mails, told, links, slot, dtoken, inbox>>
  BY <1>2, <1>3, FinishesGoes DEF MarkDigestDeliveryFailed, MarkDigestDeliverySent, EndsDigest
<1>5. DigestTypes /\ OtherDigestsKept(k) /\ status'[k] \in {"failed", "sent"} /\ items'[k] = L
  BY <1>4 DEF IInv, Types, DigestTypes, OtherDigestsKept
<1>6. status[k] = "sending" /\ L # {}
  BY <1>1, <1>2, <1>3, OwnerHolds
<1>7. DigestSound(k)'
  <2>1. CASE MarkDigestDeliveryFailed(r)
    <3>1. status'[k] = "failed"
      BY <1>2, <2>1 DEF MarkDigestDeliveryFailed, EndsDigest, IInv, Types
    <3>2. inbox[k] # {} => dtoken[k] = "revoked"
      BY <1>1, <1>2, <2>1, OwnerHolds DEF MarkDigestDeliveryFailed
    <3> QED
      BY <1>4, <3>1, <3>2 DEF DigestSound
  <2>2. CASE MarkDigestDeliverySent(r)
    <3>1. status'[k] = "sent"
      BY <1>2, <2>2 DEF MarkDigestDeliverySent, EndsDigest, IInv, Types
    <3>2. inbox[k] = L /\ dtoken[k] \in {"active", "expired"}
      BY <1>1, <1>2, <1>3, <2>2, OwnerHolds DEF MarkDigestDeliverySent
    <3> QED
      BY <1>4, <1>5, <1>6, <3>1, <3>2 DEF DigestSound
  <2> QED
    BY <2>1, <2>2
<1>8. Idle.pc \notin SenderPcs /\ Idle.pc # "claim_slot" /\ Idle.pc \notin OwnerPcs
  BY IdlePlain DEF Plain
<1>9. OwnerSound(r)'
  BY <1>4, PlainSound, IdlePlain DEF IInv
<1> QED
  BY <1>1, <1>2, <1>4, <1>5, <1>6, <1>7, <1>8, <1>9, DigestKeyStep

LEMMA ExpireDigestTokenSound ==
    ASSUME IInv, ExpireDigestToken
    PROVE  IInv'
<1>1. PICK k \in Digests : dtoken[k] = "active" /\ dtoken' = [dtoken EXCEPT ![k] = "expired"]
  BY DEF ExpireDigestToken
<1>2. UNCHANGED <<rule, actions, mails, told, links, status, slot, items, inbox, req>>
  BY DEF ExpireDigestToken, deliveries
<1>3. Types'
  BY <1>1, <1>2 DEF IInv, Types, rule, actions, links
<1>4. DigestSound(k)'
  BY <1>1, <1>2 DEF IInv, Types, DigestsSound, DigestSound
<1>5. DigestsSound' /\ OnePerSlot'
  BY <1>1, <1>2, <1>4, DigestStep DEF IInv, Types
<1>6. LinksSound' /\ ActionsSound' /\ OneActive'
  BY <1>2, DigestRest
<1>7. ASSUME NEW q \in Requests PROVE ClaimKept(q)
  <2>1. IsOwner(q) => req[q].d \in Digests
    BY OwnerHolds
  <2>2. UNCHANGED <<action, mails, status, inbox>>
    BY <1>2 DEF actions
  <2> QED
    BY <1>1, <2>1, <2>2 DEF ClaimKept, IInv, Types
<1>8. RequestsSound' /\ ClaimsUnique'
  BY <1>2, <1>3, <1>7, NobodySound
<1> QED
  BY <1>3, <1>5, <1>6, <1>8 DEF IInv

-----------------------------------------------------------------------------
(* The invariant.                                                          *)

LEMMA InitSound ==
    ASSUME Init
    PROVE  IInv
<1>1. Types
  BY AutomationBounds DEF Init, Types, ActionStates, RequestStates
<1>2. LinksSound /\ ActionsSound /\ OneActive
  BY DEF Init, LinksSound, ActionsSound, ActionSound, OneActive, Active
<1>3. DigestsSound /\ OnePerSlot
  BY DEF Init, DigestsSound, DigestSound, OnePerSlot
<1>4. \A r \in Requests : ~IsSender(r) /\ ~IsOwner(r) /\ ~At(r, "claim_slot")
  BY DEF Init, Idle, IsSender, IsOwner, At, SenderPcs, OwnerPcs
<1>5. RequestsSound /\ ClaimsUnique
  BY <1>4 DEF RequestsSound, ClaimsUnique, SenderSound, OwnerSound
<1> QED
  BY <1>1, <1>2, <1>3, <1>5 DEF IInv

LEMMA StutterSound ==
    ASSUME IInv, UNCHANGED vars
    PROVE  IInv'
<1>1. UNCHANGED <<rule, actions, mails, told, links, digests, req>>
  BY DEF vars
<1>2. Types'
  BY <1>1 DEF IInv, Types, rule, actions, links, digests, deliveries
<1>3. /\ LinksSound' /\ ActionsSound' /\ OneActive' /\ DigestsSound' /\ OnePerSlot'
      /\ \A q \in Requests : ClaimKept(q)
  BY <1>1, RowsKept
<1> QED
  BY <1>1, <1>2, <1>3, NobodySound DEF IInv

LEMMA StepSound ==
    ASSUME IInv, [Next]_vars
    PROVE  IInv'
<1>1. CASE PatchRule \/ ExpireLink
  BY <1>1, ClockSound
<1>2. CASE ExpireDigestToken
  BY <1>2, ExpireDigestTokenSound
<1>3. ASSUME NEW r \in Requests, Evaluating(r) PROVE IInv'
  BY <1>3, ReadersSound, CreateSound DEF Evaluating
<1>4. ASSUME NEW r \in Requests, Linking(r) PROVE IInv'
  BY <1>4, ReadersSound, IssueLinkSound, SpendLinkSound, VerdictsSound DEF Linking
<1>5. ASSUME NEW r \in Requests, Sending(r) PROVE IInv'
  BY <1>5, ReadersSound, ClaimSendSound, MailCandidateSound, MarkSound DEF Sending
<1>6. ASSUME NEW r \in Requests, Digesting(r) PROVE IInv'
  BY <1>6, ReadersSound, ClaimSlotSound, OwnersSound, EndsDigestSound DEF Digesting
<1>7. ASSUME NEW r \in Requests, Deciding(r) PROVE IInv'
  BY <1>7, ReadersSound, VerdictsSound, DigestLinkSound DEF Deciding
<1>8. ASSUME NEW r \in Requests, Abandon(r) PROVE IInv'
  BY <1>8, ReadersSound
<1>9. CASE UNCHANGED vars
  BY <1>9, StutterSound
<1> QED
  BY <1>1, <1>2, <1>3, <1>4, <1>5, <1>6, <1>7, <1>8, <1>9 DEF Next

(* The inductive invariant holds throughout: it relates the state of every *)
(* action and digest to what was mailed, told and claimed for it.          *)
THEOREM Invariance == Spec => []IInv
<1>1. Init => IInv
  BY InitSound
<1>2. IInv /\ [Next]_vars => IInv'
  BY StepSound
<1> QED
  BY <1>1, <1>2, PTL DEF Spec

(* No interleaving of requests, cut short or not, takes a variable out of  *)
(* its type: a request that reads a row's key, link, slot or digest has    *)
(* one.                                                                    *)
THEOREM TypesHold == Spec => []Types
BY Invariance, PTL DEF IInv

LEMMA VerdictHolds ==
    ASSUME IInv
    PROVE  OneVerdict
<1> SUFFICES ASSUME NEW k \in Keys
             PROVE  /\ Cardinality(told[k]) <= 1
                    /\ "rejected" \in told[k] => action[k] = "rejected" /\ mails[k] = 0
                    /\ "approved" \in told[k] => k \in approved /\ action[k] # "rejected"
  BY DEF OneVerdict
<1>1. told[k] \subseteq {"approved", "rejected"} /\ ActionSound(k)
  BY DEF IInv, Types, ActionsSound, Verdicts
<1>2. told[k] = {} \/ told[k] = {"approved"} \/ told[k] = {"rejected"}
  BY <1>1 DEF ActionSound
<1>3. Cardinality({}) = 0 /\ \A v : Cardinality({v}) = 1
  BY FS_EmptySet, FS_Singleton
<1>4. Cardinality(told[k]) = 0 \/ Cardinality(told[k]) = 1
  BY <1>2, <1>3
<1> QED
  BY <1>1, <1>4 DEF ActionSound

(* Whoever decides, through the application, a link or a digest, and       *)
(* however the requests interleave, an action has one verdict: a confirmed *)
(* rejection stands and nothing is e-mailed for it, a confirmed approval   *)
(* is on the row.                                                          *)
THEOREM OneVerdictEach == Spec => []OneVerdict
BY Invariance, VerdictHolds, PTL

LEMMA InvitationHolds ==
    ASSUME IInv
    PROVE  InvitedOnce
<1>1. ASSUME NEW k \in Keys
      PROVE  mails[k] <= 1 /\ (mails[k] = 1 => k \in approved)
  BY DEF IInv, ActionsSound, ActionSound
<1>2. ASSUME NEW j \in Keys, NEW k \in Keys, j[1] = k[1], j # k, mails[j] = 1, mails[k] = 1
      PROVE  "failed" \in {action[j], action[k]}
  <2>1. action[j] \in {"sending", "sent", "failed"} /\ action[k] \in {"sending", "sent", "failed"}
    BY <1>2 DEF IInv, ActionsSound, ActionSound
  <2> QED
    BY <1>2, <2>1 DEF IInv, OneActive, Active
<1> QED
  BY <1>1, <1>2 DEF InvitedOnce

(* A candidate is e-mailed at most once for an approved action, and for a  *)
(* second action only when one of the two was recorded as failed.          *)
THEOREM InvitedAtMostOnce == Spec => []InvitedOnce
BY Invariance, InvitationHolds, PTL

LEMMA DigestHolds ==
    ASSUME IInv
    PROVE  OneLiveDigest
<1>1. ASSUME NEW d \in Digests, NEW e \in Digests, inbox[d] # {}, inbox[e] # {}, slot[d] = slot[e],
             status[d] # "failed", status[e] # "failed"
      PROVE  d = e
  <2>1. status[d] \in {"sending", "sent"} /\ status[e] \in {"sending", "sent"}
    BY <1>1 DEF IInv, Types, DigestsSound, DigestSound
  <2> QED
    BY <1>1, <2>1 DEF IInv, OnePerSlot
<1>2. \A d \in Digests : DigestSound(d)
  BY DEF IInv, DigestsSound
<1> QED
  BY <1>1, <1>2 DEF OneLiveDigest, DigestSound

(* A recipient has one digest for a slot unless one was recorded as        *)
(* failed; the link of a digest recorded as sent opens what its e-mail     *)
(* lists, and the link of a failed digest that arrived is revoked.         *)
THEOREM OneDigestLives == Spec => []OneLiveDigest
BY Invariance, DigestHolds, PTL
=============================================================================
