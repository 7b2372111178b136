-------------------------- MODULE InterviewCredits --------------------------
(***************************************************************************)
(* Interview allowances and rollover credits of one client on the rollover *)
(* model.  Nothing stores a balance: what paid for an interview is worked  *)
(* out on every read by replaying the used interviews in the order they    *)
(* completed.  Closing a role mints its unused allowance as a credit, and  *)
(* reopening it revokes the credit; both are side effects of a role-status *)
(* request, run after the status is written, in several database calls,    *)
(* any of which may fail without failing the request.                      *)
(*                                                                         *)
(* A timestamp is taken before the write that stores it: a write may store *)
(* any time from when its caller could first have taken it until now.      *)
(* Finished interviews never share a timestamp (the code breaks such ties  *)
(* by id), and all processes read one clock.                               *)
(***************************************************************************)
EXTENDS Integers, FiniteSets, BilledClient

CONSTANTS
    Requests,     \* role-status requests
    MaxCredits,   \* bound on the credits ever minted
    Allowance,    \* included interviews of every role
    Window,       \* rollover_days
    MaxTime       \* bound on the clock

ASSUME CreditParameters ==
    MaxCredits \in Nat /\ Allowance \in Nat /\ Window \in Nat \ {0} /\ MaxTime \in Nat
ASSUME FiniteInterviews == IsFiniteSet(Interviews)
ASSUME NoneIsNoRole == None \notin Roles

CreditIds == 1..MaxCredits
Times == 0..MaxTime
Never == MaxTime + Window + 1    \* revoked_at is null

VARIABLES
    now,
    open,       \* roles.status is active
    stage,      \* interviews: idle, running, ending, completed, used
    role,       \* the role of a started interview
    endedAt,    \* when the write that ended it began, as long as it is not dated
    dated,      \* interviews.completed_at is set
    orderedAt,  \* completed_at, or the updated_at of a used row as long as that is null
    minted,     \* how many credits exist; their ids are 1..minted
    source,     \* interview_credits.source_role_id
    quantity,   \* ... quantity
    mintedAt, expiresAt, revokedAt,
    step,       \* where each role-status request stands
    target,     \* the role it changes
    closedAt,   \* the closed_at it wrote
    since,      \* when it read what it acts on
    leftover,   \* the own_remaining_interviews it read
    held        \* the credit it is going to revoke

interviews == <<stage, role, endedAt, dated, orderedAt>>
credits    == <<minted, source, quantity, mintedAt, expiresAt, revokedAt>>
requests   == <<step, target, closedAt, since, leftover, held>>
creditVars == <<now, open, interviews, credits, requests>>

----------------------------------------------------------------------------
(* allocateInterviewRows: the replay.                                      *)

\* creditIsLiveAt, for an interview ordered at time t
LiveAt(c, t) == mintedAt[c] <= t /\ t < expiresAt[c] /\ t < revokedAt[c]

\* What pays for an interview: its role, the meter, a credit, or nothing yet.
Nothing == [by |-> "nothing", credit |-> 0]
Own == [by |-> "own", credit |-> 0]
Usage == [by |-> "usage", credit |-> 0]
FromCredit(c) == [by |-> "credit", credit |-> c]

\* In an allocation p: what credit c paid, and role r itself.
PaidBy(p, c) == {i \in Interviews : p[i] = FromCredit(c)}
OwnOf(p, r) == {i \in Interviews : p[i] = Own /\ role[i] = r}

\* Credits that can pay at time t when p has been paid so far.
Spendable(p, t) ==
    {c \in 1..minted : LiveAt(c, t) /\ Cardinality(PaidBy(p, c)) < quantity[c]}

\* Earliest expiry first, then the smaller id.
EarliestExpiry(S) ==
    CHOOSE c \in S : \A d \in S : expiresAt[c] < expiresAt[d]
                                    \/ (expiresAt[c] = expiresAt[d] /\ c <= d)

\* Own allowance first, then a credit, then the meter.
Payer(p, i, t) ==
    IF Cardinality(OwnOf(p, role[i])) < Allowance THEN Own
    ELSE IF Spendable(p, t) # {} THEN FromCredit(EarliestExpiry(Spendable(p, t)))
    ELSE Usage

\* What has been paid after replaying the used interviews up to time t.
Replay[t \in -1..MaxTime] ==
    IF t = -1 THEN [i \in Interviews |-> Nothing]
    ELSE LET p == Replay[t - 1]
         IN  [i \in Interviews |->
                 IF stage[i] = "used" /\ orderedAt[i] = t THEN Payer(p, i, t) ELSE p[i]]

Allocation == Replay[MaxTime]

Revoked(c) == revokedAt[c] # Never

\* counters.drawn_from_revoked
DrawnFromRevoked(p, r) ==
    Cardinality(UNION {PaidBy(p, c) : c \in {d \in 1..minted : Revoked(d) /\ source[d] = r}})

AtLeastZero(n) == IF n < 0 THEN 0 ELSE n

OwnRemaining(r) ==
    LET p == Allocation
    IN  AtLeastZero(Allowance - Cardinality(OwnOf(p, r)) - DrawnFromRevoked(p, r))

\* credit_balance > 0
HoldsCredit ==
    \E c \in 1..minted :
        ~Revoked(c) /\ now < expiresAt[c] /\ Cardinality(PaidBy(Allocation, c)) < quantity[c]

----------------------------------------------------------------------------
CreditInit ==
    /\ now = 0
    /\ open = [r \in Roles |-> TRUE]
    /\ stage = [i \in Interviews |-> "idle"]
    /\ role = [i \in Interviews |-> None]
    /\ endedAt = [i \in Interviews |-> -1]
    /\ dated = [i \in Interviews |-> FALSE]
    /\ orderedAt = [i \in Interviews |-> -1]
    /\ minted = 0
    /\ source = [c \in CreditIds |-> None]
    /\ quantity = [c \in CreditIds |-> 0]
    /\ mintedAt = [c \in CreditIds |-> 0]
    /\ expiresAt = [c \in CreditIds |-> 0]
    /\ revokedAt = [c \in CreditIds |-> Never]
    /\ step = [q \in Requests |-> "idle"]
    /\ target = [q \in Requests |-> None]
    /\ closedAt = [q \in Requests |-> 0]
    /\ since = [q \in Requests |-> 0]
    /\ leftover = [q \in Requests |-> 0]
    /\ held = [q \in Requests |-> 0]

TimePasses ==
    /\ now < MaxTime
    /\ now' = now + 1
    /\ UNCHANGED <<open, interviews, credits, requests>>

\* createTavusInterview refuses when remaining_interviews <= 0.
StartInterview(i, r) ==
    /\ stage[i] = "idle" /\ open[r]
    /\ OwnRemaining(r) > 0 \/ HoldsCredit
    /\ stage' = [stage EXCEPT ![i] = "running"]
    /\ role' = [role EXCEPT ![i] = r]
    /\ UNCHANGED <<now, open, endedAt, dated, orderedAt, credits, requests>>

\* The write that ends the interview begins.
EndInterview(i) ==
    /\ stage[i] = "running"
    /\ stage' = [stage EXCEPT ![i] = "ending"]
    /\ endedAt' = [endedAt EXCEPT ![i] = now]
    /\ UNCHANGED <<now, open, role, dated, orderedAt, credits, requests>>

\* Interview i is ordered at a time taken after it ended, and no other's; when the
\* write that stores it began within that span is left open.
OrderInterview(i) ==
    \E t \in endedAt[i]..now :
        /\ \A j \in Interviews \ {i} : orderedAt[j] # t
        /\ orderedAt' = [orderedAt EXCEPT ![i] = t]

\* isUsedInterviewRow: until the row is dated, updated_at orders it.
BecomeUsed(i) ==
    /\ stage' = [stage EXCEPT ![i] = "used"]
    /\ IF dated[i] THEN UNCHANGED orderedAt ELSE OrderInterview(i)
    /\ UNCHANGED <<now, open, role, endedAt, dated, credits, requests>>

\* finalize_interview_final_transcript_reconciliation, or the insert of a text
\* interview, makes the interview used
CompleteInterview(i) == stage[i] = "ending" /\ BecomeUsed(i)

\* ... or, without substantive evidence, not yet: a stronger transcript may.
CompleteUnused(i) ==
    /\ stage[i] = "ending"
    /\ stage' = [stage EXCEPT ![i] = "completed"]
    /\ UNCHANGED <<now, open, role, endedAt, dated, orderedAt, credits, requests>>

ScoreInterview(i) == stage[i] = "completed" /\ BecomeUsed(i)

\* Any other write of the row moves updated_at (set_updated_at_interviews).
TouchInterview(i) ==
    /\ stage[i] = "used" /\ ~dated[i]
    /\ OrderInterview(i)
    /\ UNCHANGED <<now, open, stage, role, endedAt, dated, credits, requests>>

AlwaysStamps(i) == i \in Interviews

\* completed_at is still null
MayStamp(i) == ~dated[i]

\* markInterviewCompleted: a call of its own after the write, which may fail,
\* and which a redelivered event repeats.
StampInterview(i) ==
    /\ stage[i] \in {"completed", "used"} /\ MayStamp(i)
    /\ dated' = [dated EXCEPT ![i] = TRUE]
    /\ endedAt' = [endedAt EXCEPT ![i] = -1]
    /\ OrderInterview(i)
    /\ UNCHANGED <<now, open, stage, role, credits, requests>>

----------------------------------------------------------------------------
(* PATCH /roles/:id/status                                                 *)

WriteStatus(q, r, active) ==
    /\ step[q] = "idle"
    /\ open' = [open EXCEPT ![r] = active]
    /\ target' = [target EXCEPT ![q] = r]
    /\ closedAt' = [closedAt EXCEPT ![q] = now]
    /\ step' = [step EXCEPT ![q] = IF active THEN "find" ELSE "look"]
    /\ UNCHANGED <<now, interviews, credits, since, leftover, held>>

\* The request is answered; nothing is left of it.
Answer(q) ==
    /\ step' = [step EXCEPT ![q] = "done"]
    /\ target' = [target EXCEPT ![q] = None]
    /\ closedAt' = [closedAt EXCEPT ![q] = 0]
    /\ since' = [since EXCEPT ![q] = 0]
    /\ leftover' = [leftover EXCEPT ![q] = 0]
    /\ held' = [held EXCEPT ![q] = 0]

LiveCredits(r) == {c \in 1..minted : source[c] = r /\ ~Revoked(c)}

\* mintCreditForClosedRole: is there a live credit of this role already?
MintLooks(q) ==
    /\ step[q] = "look"
    /\ IF LiveCredits(target[q]) # {} THEN Answer(q)
       ELSE /\ step' = [step EXCEPT ![q] = "measure"]
            /\ UNCHANGED <<target, closedAt, since, leftover, held>>
    /\ UNCHANGED <<now, open, interviews, credits>>

MintMeasures(q) ==
    /\ step[q] = "measure"
    /\ IF OwnRemaining(target[q]) = 0 THEN Answer(q)
       ELSE /\ step' = [step EXCEPT ![q] = "insert"]
            /\ since' = [since EXCEPT ![q] = now]
            /\ leftover' = [leftover EXCEPT ![q] = OwnRemaining(target[q])]
            /\ UNCHANGED <<target, closedAt, held>>
    /\ UNCHANGED <<now, open, interviews, credits>>

\* minted_at or revoked_at: taken after the read and before the write
TakenSince(q) == since[q]..now

AdmitsAny(r) == r \in Roles

\* interview_credits_source_role_uidx: one live credit per role
IndexAdmits(r) == LiveCredits(r) = {}

MintInserts(q) ==
    LET c == minted + 1
        r == target[q]
    IN  /\ step[q] = "insert" /\ c \in CreditIds /\ IndexAdmits(r)
        /\ minted' = c
        /\ source' = [source EXCEPT ![c] = r]
        /\ quantity' = [quantity EXCEPT ![c] = leftover[q]]
        /\ \E t \in TakenSince(q) : mintedAt' = [mintedAt EXCEPT ![c] = t]
        /\ expiresAt' = [expiresAt EXCEPT ![c] = closedAt[q] + Window]
        /\ Answer(q)
        /\ UNCHANGED <<now, open, interviews, revokedAt>>

\* The index refuses the row: another close won.
MintLoses(q) ==
    /\ step[q] = "insert" /\ ~IndexAdmits(target[q])
    /\ Answer(q)
    /\ UNCHANGED <<now, open, interviews, credits>>

\* revokeCreditForReopenedRole
RevokeFinds(q) ==
    /\ step[q] = "find"
    /\ IF LiveCredits(target[q]) = {} THEN Answer(q)
       ELSE /\ step' = [step EXCEPT ![q] = "revoke"]
            /\ since' = [since EXCEPT ![q] = now]
            /\ \E c \in LiveCredits(target[q]) : held' = [held EXCEPT ![q] = c]
            /\ UNCHANGED <<target, closedAt, leftover>>
    /\ UNCHANGED <<now, open, interviews, credits>>

MayRevoke(c) == ~Revoked(c)

\* Updates nothing when the credit was revoked meanwhile.
RevokeWrites(q) ==
    /\ step[q] = "revoke"
    /\ IF MayRevoke(held[q])
       THEN \E t \in TakenSince(q) : revokedAt' = [revokedAt EXCEPT ![held[q]] = t]
       ELSE UNCHANGED revokedAt
    /\ Answer(q)
    /\ UNCHANGED <<now, open, interviews, minted, source, quantity, mintedAt, expiresAt>>

\* A failure is logged and swallowed; a crash has the same effect.
SyncFails(q) ==
    /\ step[q] \notin {"idle", "done"}
    /\ Answer(q)
    /\ UNCHANGED <<now, open, interviews, credits>>

Sync(q) ==
    \/ MintLooks(q) \/ MintMeasures(q) \/ MintInserts(q) \/ MintLoses(q)
    \/ RevokeFinds(q) \/ RevokeWrites(q)

CreditWork ==
    \/ TimePasses
    \/ \E i \in Interviews : \/ \E r \in Roles : StartInterview(i, r)
                             \/ EndInterview(i) \/ CompleteInterview(i) \/ CompleteUnused(i)
                             \/ ScoreInterview(i) \/ TouchInterview(i) \/ StampInterview(i)
    \/ \E q \in Requests : \/ \E r \in Roles, active \in BOOLEAN : WriteStatus(q, r, active)
                           \/ Sync(q)

CreditNext == CreditWork \/ \E q \in Requests : SyncFails(q)

CreditSpec == CreditInit /\ [][CreditNext]_creditVars

----------------------------------------------------------------------------
(* Properties.                                                             *)

\* Every variable stays in its type.
CreditTypes ==
    /\ now \in Times
    /\ open \in [Roles -> BOOLEAN]
    /\ stage \in [Interviews -> {"idle", "running", "ending", "completed", "used"}]
    /\ role \in [Interviews -> Roles \cup {None}]
    /\ endedAt \in [Interviews -> Times \cup {-1}]
    /\ dated \in [Interviews -> BOOLEAN]
    /\ orderedAt \in [Interviews -> Times \cup {-1}]
    /\ minted \in 0..MaxCredits
    /\ source \in [CreditIds -> Roles \cup {None}]
    /\ quantity \in [CreditIds -> 0..Allowance]
    /\ mintedAt \in [CreditIds -> Times]
    /\ expiresAt \in [CreditIds -> 0..(MaxTime + Window)]
    /\ revokedAt \in [CreditIds -> Times \cup {Never}]
    /\ step \in [Requests -> {"idle", "look", "measure", "insert", "find", "revoke", "done"}]
    /\ target \in [Requests -> Roles \cup {None}]
    /\ closedAt \in [Requests -> Times]
    /\ since \in [Requests -> Times]
    /\ leftover \in [Requests -> 0..Allowance]
    /\ held \in [Requests -> 0..MaxCredits]

\* Closes of a role that race, repeat or fail never leave it two live credits.
OneLiveCredit == \A r \in Roles : Cardinality(LiveCredits(r)) <= 1

\* Interview i may still come to be used, or ordered, at time t or before.
MayYetPrecede(i, t) ==
    \/ stage[i] \in {"ending", "completed", "used"} /\ ~dated[i] /\ endedAt[i] <= t
    \/ stage[i] = "completed" /\ dated[i] /\ orderedAt[i] <= t

\* A credit may still be minted or revoked as of time t or before.
MayYetAffect(q, t) == step[q] \in {"insert", "revoke"} /\ since[q] <= t

\* Interview i has its completed_at, and nothing begun up to then is under way.
Settled(i) ==
    /\ stage[i] = "used" /\ dated[i] /\ orderedAt[i] < now
    /\ \A j \in Interviews \ {i} : ~MayYetPrecede(j, orderedAt[i])
    /\ \A q \in Requests : ~MayYetAffect(q, orderedAt[i])

\* The payer of a settled interview is final: redelivered events, late scores and
\* stamps, credits minted, revoked or expired and further interviews never change
\* it again.  Until it is settled, each of them can (see README.md).
SettledPayersStay ==
    [][\A i \in Interviews :
          Settled(i) => Settled(i)' /\ Allocation'[i] = Allocation[i]]_creditVars
=============================================================================
