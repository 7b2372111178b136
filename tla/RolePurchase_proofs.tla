----------------------- MODULE RolePurchase_proofs -----------------------
(***************************************************************************)
(* Proofs about RolePurchase, for any finite sets of orders, credits and   *)
(* sessions.  Nobody holds a lock on a purchase, so what a handler may     *)
(* conclude rests on what only grows: the roles and their links, the       *)
(* roles that are documented, and a row's way to failed or finalized.      *)
(***************************************************************************)
EXTENDS RolePurchase, FiniteSetTheorems, TLAPS

-----------------------------------------------------------------------------
(* The inductive invariant.                                                *)

\* Where a request stands tells how far its purchase and its checkout are.
RequestSound(o) ==
    /\ at[o].pc \in {"asked", "claim", "insert_row"} => row[o] = "none"
    /\ at[o].pc = "upload" => row[o] # "none"
    /\ at[o].pc \in {"asked", "claim", "insert_row", "upload"} => \A s \in Sessions : session[o][s] = "none"
    /\ Finalizing(o) => plan[o] = "usage"

\* A session was opened for a purchase that exists and is paid per role.
SessionsSound ==
    \A o \in Orders, s \in Sessions :
        session[o][s] # "none" => row[o] # "none" /\ plan[o] = "per_role"

\* A handler at work has an event that was raised and is deduplicated; a
\* handler that found the row taken only sees it go on from there.
EventSound(e) ==
    /\ at[e].pc # "idle" => e \in deduped /\ Raised(e)
    /\ at[e].pc = "decline" => e.kind = "declined"
    /\ at[e].pc \in {"pay", "claim", "recheck"} \/ Finalizing(e) => e.kind = "settled"
    /\ at[e].pc = "recheck" => row[e.order] \in {"finalizing", "finalized", "failed"}
    /\ at[e].pc = "answer" /\ e.kind = "settled" => row[e.order] \in {"finalized", "failed"}

\* A finalizer works on a role of its own purchase.
FinalizerSound(w) ==
    /\ at[w].pc \in {"enrich", "finalize"} => at[w].role \in Linked(OrderOf(w))
    /\ at[w].pc = "finalize" => at[w].role \in documented

\* A purchase names a role exactly when it is finalized, and the role is its own.
FinalSound ==
    \A o \in Orders :
        /\ final[o] # 0 => row[o] = "finalized"
        /\ row[o] = "finalized" => final[o] \in Linked(o) \cap documented

WorkerSound(w) ==
    /\ w \in Orders => RequestSound(w)
    /\ w \in Events => EventSound(w)
    /\ FinalizerSound(w)

Places == \A w \in Workers : WorkerSound(w)

\* The roles made on a credit whose insert was answered.
Answered(c) == {i \in DOMAIN roles : roles[i].credit = c} \ unheard

\* Who holds a credit is alone with it, and knows the role made on it.
Holds(o, c) == at[o].pc \in {"create", "release", "use"} /\ at[o].credit = c

CreditsSound ==
    /\ \A c \in Credits :
         /\ credit[c].status \in {"unused", "voided"} => Answered(c) = {}
         /\ credit[c].status = "used" => Answered(c) = {credit[c].role}
         /\ credit[c].status = "claimed" => Answered(c) = {} \/ \E i \in Nat : Answered(c) = {i}
    /\ \A o \in Orders, c \in Credits : Holds(o, c) =>
         /\ credit[c].status = "claimed"
         /\ Answered(c) = IF at[o].pc = "use" THEN {at[o].role} ELSE {}
         /\ \A p \in Orders : Holds(p, c) => p = o

\* The sessions of a purchase whose handlers are about to insert a role.
Settled(o, s) == [order |-> o, session |-> s, kind |-> "settled"]
Creating(o) == {s \in Sessions : at[Settled(o, s)].pc = "create_role"}

\* Roles made and roles about to be made are covered by payments.
Counted ==
    \A o \in Orders :
        IF plan[o] = "usage"
        THEN Cardinality(Linked(o)) + (IF at[o].pc = "create_role" THEN 1 ELSE 0) <= 1
        ELSE Cardinality(Linked(o)) + Cardinality(Creating(o)) <= Cardinality(Paid(o))

IInv == TypeOK /\ SessionsSound /\ Places /\ FinalSound /\ CreditsSound /\ Counted

-----------------------------------------------------------------------------
(* Records.                                                                *)

States == Plain \cup Crediting \cup Using \cup Searching \cup Building
PlainPlaces == {"idle", "asked", "claim", "insert_row", "upload",
                "read", "decline", "pay", "recheck", "answer"}

\* The place of a worker tells what its record holds.
LEMMA Shapes ==
  ASSUME NEW x \in States
  PROVE  /\ x.pc \in PlainPlaces => x \in Plain
         /\ x.pc \in {"create", "release"} => x \in Crediting
         /\ x.pc = "use" => x \in Using
         /\ x.pc \in {"lookup", "create_role"} => x \in Searching
         /\ x.pc \in {"enrich", "finalize"} => x \in Building
         /\ x.pc \in PlainPlaces \cup {"create", "release", "use", "lookup", "create_role", "enrich", "finalize"}
  BY DEF States, Plain, Crediting, Using, Searching, Building, PlainPlaces

\* One worker changes its record, the others keep theirs.
Goes(w, x) ==
    /\ x \in States
    /\ at' \in [Workers -> States]
    /\ at'[w] = x
    /\ \A v \in Workers \ {w} : at'[v] = at[v]

LEMMA Changes ==
  ASSUME TypeOK, NEW w \in Workers, NEW x \in States, Becomes(w, x)
  PROVE  Goes(w, x)
  BY DEF TypeOK, Becomes, States, Goes

LEMMA PlainMoves ==
  ASSUME TypeOK, NEW w \in Workers, at[w].pc \in PlainPlaces, NEW pc \in PlainPlaces, Moves(w, pc)
  PROVE  \E x \in States : x.pc = pc /\ Goes(w, x)
<1> DEFINE x == [at[w] EXCEPT !.pc = pc]
<1>1. at[w] \in Plain
  BY Shapes DEF TypeOK, States
<1>2. x \in States /\ x.pc = pc
  BY <1>1 DEF States, Plain, PlainPlaces
<1>3. Becomes(w, x)
  BY DEF Moves, Becomes
<1> QED
  BY <1>2, <1>3, Changes

LEMMA IdleMoves ==
  ASSUME TypeOK, NEW w \in Workers, Becomes(w, Idle)
  PROVE  \E x \in States : x.pc = "idle" /\ Goes(w, x)
<1>1. Idle \in States /\ Idle.pc = "idle"
  BY DEF States, Plain, Idle
<1> QED
  BY <1>1, Changes

\* A worker begins to search for a role of the purchase.
LEMMA SearchMoves ==
  ASSUME TypeOK, NEW w \in Workers, NEW n \in 1..2, Becomes(w, [pc |-> "lookup", attempt |-> n])
  PROVE  \E x \in States : x.pc = "lookup" /\ Goes(w, x)
<1> DEFINE x == [pc |-> "lookup", attempt |-> n]
<1>1. x \in States /\ x.pc = "lookup"
  BY DEF States, Searching
<1> QED
  BY <1>1, Changes

LEMMA CreditMoves ==
  ASSUME TypeOK, NEW o \in Orders, at[o].pc = "create", Moves(o, "release")
  PROVE  \E x \in States : x.pc = "release" /\ x.credit = at[o].credit /\ Goes(o, x)
<1> DEFINE x == [at[o] EXCEPT !.pc = "release"]
<1>0. o \in Workers
  BY DEF Workers
<1>1. at[o] \in Crediting
  BY <1>0, Shapes DEF TypeOK, States
<1>2. x \in States /\ x.pc = "release" /\ x.credit = at[o].credit
  BY <1>1 DEF States, Crediting
<1>3. Becomes(o, x)
  BY DEF Moves, Becomes
<1> QED
  BY <1>0, <1>2, <1>3, Changes

LEMMA CreateMoves ==
  ASSUME TypeOK, NEW w \in Workers, at[w].pc = "lookup", Moves(w, "create_role")
  PROVE  \E x \in States : x.pc = "create_role" /\ Goes(w, x)
<1> DEFINE x == [at[w] EXCEPT !.pc = "create_role"]
<1>1. at[w] \in Searching
  BY Shapes DEF TypeOK, States
<1>2. x \in States /\ x.pc = "create_role"
  BY <1>1 DEF States, Searching
<1>3. Becomes(w, x)
  BY DEF Moves, Becomes
<1> QED
  BY <1>2, <1>3, Changes

LEMMA FinalizeMoves ==
  ASSUME TypeOK, NEW w \in Workers, at[w].pc = "enrich", Moves(w, "finalize")
  PROVE  \E x \in States : x.pc = "finalize" /\ x.role = at[w].role /\ Goes(w, x)
<1> DEFINE x == [at[w] EXCEPT !.pc = "finalize"]
<1>1. at[w] \in Building
  BY Shapes DEF TypeOK, States
<1>2. x \in States /\ x.pc = "finalize" /\ x.role = at[w].role
  BY <1>1 DEF States, Building
<1>3. Becomes(w, x)
  BY DEF Moves, Becomes
<1> QED
  BY <1>2, <1>3, Changes

-----------------------------------------------------------------------------
(* What every step leaves as it is.                                        *)

\* Roles and payments stay, and a row does not come back from where it is;
\* only the worker of the step loses its deduplication or begins a checkout.
Grows(w) ==
    /\ plan' = plan
    /\ \A i \in DOMAIN roles : i \in DOMAIN roles' /\ roles'[i] = roles[i]
    /\ documented \subseteq documented'
    /\ \A o \in Orders :
         /\ row[o] # "none" => row'[o] # "none"
         /\ row[o] \in {"finalizing", "finalized", "failed"} => row'[o] \in {"finalizing", "finalized", "failed"}
         /\ row[o] \in {"finalized", "failed"} => row'[o] \in {"finalized", "failed"}
    /\ \A e \in Events : Raised(e) => Raised(e)'
    /\ \A o \in Orders \ {w} :
         /\ row[o] = "none" => row'[o] = "none"
         /\ (\A s \in Sessions : session[o][s] = "none") => \A s \in Sessions : session'[o][s] = "none"
    /\ deduped \ {w} \subseteq deduped'

\* A worker that takes no step stays sound.
LEMMA BystanderSound ==
  ASSUME TypeOK, NEW w, NEW v \in Workers, v # w, Grows(w), at'[v] = at[v], WorkerSound(v)
  PROVE  WorkerSound(v)'
<1>1. ASSUME v \in Orders PROVE RequestSound(v)'
  BY <1>1 DEF WorkerSound, RequestSound, Grows, Finalizing
<1>2. ASSUME v \in Events PROVE EventSound(v)'
  <2>1. v.order \in Orders
    BY <1>2 DEF Events
  <2> QED
    BY <1>2, <2>1 DEF WorkerSound, EventSound, Grows, Finalizing
<1>3. FinalizerSound(v)'
  BY DEF WorkerSound, FinalizerSound, Grows, Linked, OrderOf
<1> QED
  BY <1>1, <1>2, <1>3 DEF WorkerSound

LEMMA MoverSound ==
  ASSUME TypeOK, Places, NEW w \in Workers, NEW x, Goes(w, x), Grows(w), WorkerSound(w)'
  PROVE  Places'
  BY BystanderSound DEF Places, Goes

\* A step that leaves the tables alone.
LEMMA TablesRest ==
  ASSUME TypeOK, SessionsSound, FinalSound, NEW w,
         UNCHANGED <<plan, row, final, roles, documented, session>>, deduped \ {w} \subseteq deduped'
  PROVE  Grows(w) /\ SessionsSound' /\ FinalSound'
  BY DEF Grows, SessionsSound, FinalSound, Linked, Raised

-----------------------------------------------------------------------------
(* Credits and counts where a step does not touch them.                    *)

LEMMA LinkedFinite ==
  ASSUME TypeOK, NEW o
  PROVE  IsFiniteSet(Linked(o))
<1>1. IsFiniteSet(1..Len(roles)) /\ Linked(o) \in SUBSET (1..Len(roles))
  BY FS_Interval DEF TypeOK, Linked
<1> QED
  BY <1>1, FS_Subset

LEMMA SessionsFinite ==
  ASSUME NEW o
  PROVE  /\ IsFiniteSet(Paid(o)) /\ IsFiniteSet(Creating(o))
         /\ IsFiniteSet(Paid(o)') /\ IsFiniteSet(Creating(o)')
<1>1. /\ Paid(o) \in SUBSET Sessions /\ Creating(o) \in SUBSET Sessions
      /\ Paid(o)' \in SUBSET Sessions /\ Creating(o)' \in SUBSET Sessions
  BY DEF Paid, Creating
<1> QED
  BY <1>1, FS_Subset, RolePurchaseAssumption

\* No credit changes, no role is made on one, and nobody takes hold of one.
LEMMA CreditsRest ==
  ASSUME CreditsSound, UNCHANGED credit,
         \A c \in Credits : Answered(c)' = Answered(c),
         \A o \in Orders, c \in Credits : Holds(o, c)' => Holds(o, c) /\ at'[o] = at[o]
  PROVE  CreditsSound'
  BY DEF CreditsSound

\* No role is made for a purchase, and nobody new is about to make one.
LEMMA CountsRest ==
  ASSUME TypeOK, Counted, plan' = plan,
         \A o \in Orders :
           /\ Linked(o)' = Linked(o)
           /\ Paid(o) \subseteq Paid(o)'
           /\ Creating(o)' \subseteq Creating(o)
           /\ at'[o].pc = "create_role" => at[o].pc = "create_role"
  PROVE  Counted'
<1> SUFFICES ASSUME NEW o \in Orders
             PROVE  (IF plan[o] = "usage"
                     THEN Cardinality(Linked(o)) + (IF at[o].pc = "create_role" THEN 1 ELSE 0) <= 1
                     ELSE Cardinality(Linked(o)) + Cardinality(Creating(o)) <= Cardinality(Paid(o)))'
  BY DEF Counted
<1>1. Cardinality(Linked(o)) \in Nat
  BY LinkedFinite, FS_CardinalityType
<1>2. /\ Cardinality(Paid(o)) \in Nat /\ Cardinality(Paid(o)') \in Nat
      /\ Cardinality(Creating(o)) \in Nat /\ Cardinality(Creating(o)') \in Nat
  BY SessionsFinite, FS_CardinalityType
<1>3. Cardinality(Paid(o)) <= Cardinality(Paid(o)')
  BY SessionsFinite, FS_Subset
<1>4. Cardinality(Creating(o)') <= Cardinality(Creating(o))
  BY SessionsFinite, FS_Subset
<1>5. Cardinality(Linked(o)') = Cardinality(Linked(o))
  OBVIOUS
<1> QED
  BY <1>1, <1>2, <1>3, <1>4, <1>5 DEF Counted

\* A worker goes to a place where it neither holds a credit nor makes a role.
LEMMA Quiet ==
  ASSUME TypeOK, CreditsSound, Counted, NEW w \in Workers, NEW x, Goes(w, x),
         x = at[w] \/ x.pc \notin {"create", "release", "use", "create_role"},
         UNCHANGED <<plan, made, credit>>,
         \A o \in Orders : Paid(o) \subseteq Paid(o)'
  PROVE  CreditsSound' /\ Counted'
<1>1. \A v \in Workers : at'[v] = at[v] \/ at'[v].pc \notin {"create", "release", "use", "create_role"}
  BY DEF Goes
<1>2. \A o \in Orders : o \in Workers
  BY DEF Workers
<1>3. \A o \in Orders, s \in Sessions : Settled(o, s) \in Workers
  BY DEF Settled, Workers, Events
<1>4. CreditsSound'
  <2>1. \A c \in Credits : Answered(c)' = Answered(c)
    BY DEF Answered, made
  <2>2. \A o \in Orders, c \in Credits : Holds(o, c)' => Holds(o, c) /\ at'[o] = at[o]
    BY <1>1, <1>2 DEF Holds
  <2> QED
    BY <2>1, <2>2, CreditsRest
<1>5. Counted'
  <2>1. \A o \in Orders : Linked(o)' = Linked(o)
    BY DEF Linked, made
  <2>2. \A o \in Orders : Creating(o)' \subseteq Creating(o)
    <3> SUFFICES ASSUME NEW o \in Orders, NEW s \in Sessions, at'[Settled(o, s)].pc = "create_role"
                 PROVE  at[Settled(o, s)].pc = "create_role"
      BY DEF Creating
    <3> QED
      BY <1>1, <1>3
  <2>3. \A o \in Orders : at'[o].pc = "create_role" => at[o].pc = "create_role"
    BY <1>1, <1>2
  <2> QED
    BY <2>1, <2>2, <2>3, CountsRest
<1> QED
  BY <1>4, <1>5

-----------------------------------------------------------------------------
(* The invariant is inductive: steps that only move a worker.              *)

LEMMA MoveStep ==
  ASSUME IInv, NEW w \in Workers, NEW x, Goes(w, x),
         x.pc \notin {"create", "release", "use", "create_role"},
         UNCHANGED <<plan, purchase, made, documented, credit, session>>,
         deduped \ {w} \subseteq deduped', deduped' \subseteq Events,
         WorkerSound(w)'
  PROVE  IInv'
<1> USE DEF IInv
<1>1. TypeOK'
  BY DEF TypeOK, purchase, made, Goes, States
<1>2. Grows(w) /\ SessionsSound' /\ FinalSound'
  BY TablesRest DEF purchase, made
<1>3. Places'
  BY <1>2, MoverSound
<1>4. CreditsSound' /\ Counted'
  BY Quiet DEF Paid
<1> QED
  BY <1>1, <1>2, <1>3, <1>4

\* A request that is not at work is sound, whatever the tables say.
LEMMA IdleSound ==
  ASSUME NEW w \in Workers, at'[w].pc = "idle"
  PROVE  WorkerSound(w)'
  BY DEF WorkerSound, RequestSound, EventSound, FinalizerSound, Finalizing

LEMMA Apart ==
  /\ \A o \in Orders : o \in Workers /\ o \notin Events /\ OrderOf(o) = o
  /\ \A e \in Events : e \in Workers /\ e \notin Orders /\ e.order \in Orders /\ OrderOf(e) = e.order
  BY RolePurchaseAssumption DEF Workers, Events, OrderOf

LEMMA RequestMoves ==
  ASSUME IInv, NEW o \in Orders, FindCredit(o) \/ FinalizeUsage(o) \/ RetryUsage(o) \/ RequestEnds(o)
  PROVE  IInv'
<1> USE DEF IInv
<1>1. o \in Workers /\ o \notin Events /\ OrderOf(o) = o /\ WorkerSound(o)
  BY Apart DEF Places
<1>2. UNCHANGED <<plan, purchase, made, documented, credit, session, deduped>>
  BY DEF FindCredit, FinalizeUsage, RetryUsage, RequestEnds
<1>3. deduped \ {o} \subseteq deduped' /\ deduped' \subseteq Events
  BY <1>2 DEF TypeOK
<1>4. CASE FindCredit(o)
  <2>1. at[o].pc = "asked" /\ (Moves(o, "claim") \/ Moves(o, "insert_row"))
    BY <1>4 DEF FindCredit, At
  <2>2. PICK x \in States : x.pc \in {"claim", "insert_row"} /\ Goes(o, x)
    BY <1>1, <2>1, PlainMoves DEF PlainPlaces
  <2>3. WorkerSound(o)'
    BY <1>1, <1>2, <2>1, <2>2 DEF WorkerSound, RequestSound, FinalizerSound, Finalizing, Goes, purchase
  <2> QED
    BY <1>1, <1>2, <1>3, <2>2, <2>3, MoveStep
<1>5. CASE FinalizeUsage(o)
  <2>1. plan[o] = "usage" /\ Becomes(o, [pc |-> "lookup", attempt |-> 1])
    BY <1>5 DEF FinalizeUsage
  <2>2. PICK x \in States : x.pc = "lookup" /\ Goes(o, x)
    BY <1>1, <2>1, SearchMoves
  <2>3. WorkerSound(o)'
    BY <1>1, <1>2, <2>1, <2>2 DEF WorkerSound, RequestSound, FinalizerSound, Finalizing, Goes, purchase
  <2> QED
    BY <1>1, <1>2, <1>3, <2>2, <2>3, MoveStep
<1>6. CASE RetryUsage(o)
  <2>1. Finalizing(o) /\ Becomes(o, [pc |-> "lookup", attempt |-> 2])
    BY <1>6 DEF RetryUsage
  <2>2. PICK x \in States : x.pc = "lookup" /\ Goes(o, x)
    BY <1>1, <2>1, SearchMoves
  <2>3. WorkerSound(o)'
    BY <1>1, <1>2, <2>1, <2>2 DEF WorkerSound, RequestSound, FinalizerSound, Finalizing, Goes, purchase
  <2> QED
    BY <1>1, <1>2, <1>3, <2>2, <2>3, MoveStep
<1>7. CASE RequestEnds(o)
  <2>1. PICK x \in States : x.pc = "idle" /\ Goes(o, x)
    BY <1>1, <1>7, IdleMoves DEF RequestEnds
  <2> QED
    BY <1>1, <1>2, <1>3, <2>1, MoveStep, IdleSound DEF Goes
<1> QED
  BY <1>4, <1>5, <1>6, <1>7

LEMMA EventMoves ==
  ASSUME IInv, NEW e \in Events,
         \/ Deliver(e) \/ ReadPurchase(e) \/ JoinPurchase(e)
         \/ AnswerEvent(e) \/ EventFails(e) \/ EventStops(e)
  PROVE  IInv'
<1> USE DEF IInv
<1>1. /\ e \in Workers /\ e \notin Orders /\ e.order \in Orders /\ OrderOf(e) = e.order
      /\ WorkerSound(e)
  BY Apart DEF Places
<1>2. UNCHANGED <<plan, purchase, made, documented, credit, session>>
  BY DEF Deliver, ReadPurchase, JoinPurchase, AnswerEvent, EventFails, EventStops
<1>3. deduped \ {e} \subseteq deduped' /\ deduped' \subseteq Events
  BY DEF TypeOK, Deliver, ReadPurchase, JoinPurchase, AnswerEvent, EventFails, EventStops
<1>4. Raised(e)' = Raised(e)
  BY <1>2 DEF Raised
<1>5. CASE Deliver(e)
  <2>1. Raised(e) /\ e \notin deduped /\ e \in deduped' /\ Moves(e, "read")
    BY <1>5 DEF Deliver
  <2>2. at[e].pc = "idle"
    BY <1>1, <2>1 DEF WorkerSound, EventSound
  <2>3. PICK x \in States : x.pc = "read" /\ Goes(e, x)
    BY <1>1, <2>1, <2>2, PlainMoves DEF PlainPlaces
  <2>4. WorkerSound(e)'
    BY <1>1, <1>4, <2>1, <2>3 DEF WorkerSound, EventSound, FinalizerSound, Finalizing, Goes
  <2> QED
    BY <1>1, <1>2, <1>3, <2>3, <2>4, MoveStep
<1>6. CASE ReadPurchase(e)
  <2>1. /\ at[e].pc = "read" /\ deduped' = deduped
        /\ \/ e.kind = "declined" /\ Moves(e, "decline")
           \/ e.kind = "settled" /\ Moves(e, "pay")
           \/ e.kind = "settled" /\ final[e.order] # 0 /\ Moves(e, "answer")
    BY <1>6 DEF ReadPurchase, At, Events
  <2>2. PICK x \in States :
           /\ Goes(e, x)
           /\ \/ e.kind = "declined" /\ x.pc = "decline"
              \/ e.kind = "settled" /\ x.pc = "pay"
              \/ e.kind = "settled" /\ final[e.order] # 0 /\ x.pc = "answer"
    BY <1>1, <2>1, PlainMoves DEF PlainPlaces
  <2>3. x.pc = "answer" => row[e.order] = "finalized"
    BY <1>1, <2>2 DEF FinalSound
  <2>4. WorkerSound(e)'
    BY <1>1, <1>2, <1>4, <2>1, <2>2, <2>3
       DEF WorkerSound, EventSound, FinalizerSound, Finalizing, Goes, purchase
  <2> QED
    BY <1>1, <1>2, <1>3, <2>2, <2>4, MoveStep
<1>7. CASE JoinPurchase(e)
  <2> DEFINE answer == [pc |-> "answer"]
  <2>1. /\ at[e].pc = "recheck" /\ deduped' = deduped
        /\ \/ Becomes(e, [pc |-> "lookup", attempt |-> 1])
           \/ ~InProgress(e.order) /\ Becomes(e, answer)
    BY <1>7 DEF JoinPurchase, At
  <2>2. answer \in States /\ answer.pc = "answer"
    BY DEF States, Plain
  <2>3. PICK x \in States :
           Goes(e, x) /\ (x.pc = "lookup" \/ (~InProgress(e.order) /\ x.pc = "answer"))
    BY <1>1, <2>1, <2>2, SearchMoves, Changes
  <2>4. e.kind = "settled" /\ row[e.order] \in {"finalizing", "finalized", "failed"}
    BY <1>1, <2>1 DEF WorkerSound, EventSound
  <2>5. x.pc = "answer" => row[e.order] \in {"finalized", "failed"}
    BY <1>1, <2>3, <2>4 DEF InProgress, FinalSound
  <2>6. WorkerSound(e)'
    BY <1>1, <1>2, <1>4, <2>1, <2>3, <2>4, <2>5
       DEF WorkerSound, EventSound, FinalizerSound, Finalizing, Goes, purchase
  <2> QED
    BY <1>1, <1>2, <1>3, <2>3, <2>6, MoveStep
<1>8. CASE AnswerEvent(e) \/ EventFails(e) \/ EventStops(e)
  <2>1. PICK x \in States : x.pc = "idle" /\ Goes(e, x)
    BY <1>1, <1>8, IdleMoves DEF AnswerEvent, EventFails, EventStops
  <2> QED
    BY <1>1, <1>2, <1>3, <2>1, MoveStep, IdleSound DEF Goes
<1> QED
  BY <1>5, <1>6, <1>7, <1>8

-----------------------------------------------------------------------------
(* Steps on the purchase's row.                                            *)

RowStates == {"none", "pending", "paid", "finalizing", "finalized", "failed"}

\* How a row goes on: the request inserts it, handlers take it forward, and
\* it may fail before it is finalized.
Forward(w) ==
    \A o \in Orders :
        \/ row'[o] = row[o]
        \/ o = w /\ row[o] = "none" /\ row'[o] \in {"pending", "finalizing"}
        \/ row[o] \in {"pending", "paid"} /\ row'[o] \in {"paid", "finalizing", "failed"}
        \/ row[o] = "finalizing" /\ row'[o] = "failed"

LEMMA RowStep ==
  ASSUME IInv, NEW w \in Workers, NEW x, Goes(w, x),
         x.pc \notin {"create", "release", "use", "create_role"},
         UNCHANGED <<plan, final, made, documented, credit, session, deduped>>,
         row' \in [Orders -> RowStates], Forward(w),
         WorkerSound(w)'
  PROVE  IInv'
<1> USE DEF IInv
<1>1. TypeOK'
  BY DEF TypeOK, made, Goes, States, RowStates
<1>2. Grows(w)
  BY DEF Grows, Forward, made, Raised
<1>3. SessionsSound'
  BY <1>2 DEF SessionsSound, Grows
<1>4. FinalSound'
  BY DEF FinalSound, Forward, Linked, made
<1>5. Places'
  BY <1>2, MoverSound
<1>6. CreditsSound' /\ Counted'
  BY Quiet DEF Paid
<1> QED
  BY <1>1, <1>3, <1>4, <1>5, <1>6

LEMMA RequestRowSteps ==
  ASSUME IInv, NEW o \in Orders, InsertRow(o) \/ FailUpload(o)
  PROVE  IInv'
<1> USE DEF IInv
<1>1. o \in Workers /\ o \notin Events /\ OrderOf(o) = o /\ WorkerSound(o)
  BY Apart DEF Places
<1>2. CASE InsertRow(o)
  <2>1. /\ at[o].pc = "insert_row" /\ Moves(o, "upload")
        /\ UNCHANGED <<plan, final, made, documented, credit, session, deduped>>
    BY <1>2 DEF InsertRow, At
  <2>2. PICK x \in States : x.pc = "upload" /\ Goes(o, x)
    BY <1>1, <2>1, PlainMoves DEF PlainPlaces
  <2>3. row[o] = "none" /\ \A s \in Sessions : session[o][s] = "none"
    BY <1>1, <2>1 DEF WorkerSound, RequestSound
  <2>4. row' \in [Orders -> RowStates] /\ Forward(o) /\ row'[o] # "none"
    BY <1>2, <2>3 DEF InsertRow, TypeOK, RowStates, Forward
  <2>5. WorkerSound(o)'
    BY <1>1, <2>1, <2>2, <2>3, <2>4 DEF WorkerSound, RequestSound, FinalizerSound, Finalizing, Goes
  <2> QED
    BY <1>1, <2>1, <2>2, <2>4, <2>5, RowStep
<1>3. CASE FailUpload(o)
  <2>1. UNCHANGED <<plan, final, made, documented, credit, session, deduped>>
    BY <1>3 DEF FailUpload
  <2>2. PICK x \in States : x.pc = "idle" /\ Goes(o, x)
    BY <1>1, <1>3, IdleMoves DEF FailUpload
  <2>3. row' \in [Orders -> RowStates] /\ Forward(o)
    BY <1>3 DEF FailUpload, TypeOK, RowStates, Forward
  <2> QED
    BY <1>1, <2>1, <2>2, <2>3, RowStep, IdleSound DEF Goes
<1> QED
  BY <1>2, <1>3

LEMMA EventRowSteps ==
  ASSUME IInv, NEW e \in Events, MarkFailed(e) \/ MarkPaid(e) \/ ClaimPurchase(e)
  PROVE  IInv'
<1> USE DEF IInv
<1>1. /\ e \in Workers /\ e \notin Orders /\ e.order \in Orders /\ OrderOf(e) = e.order
      /\ WorkerSound(e)
  BY Apart DEF Places
<1>2. UNCHANGED <<plan, final, made, documented, credit, session, deduped>>
  BY DEF MarkFailed, MarkPaid, ClaimPurchase
<1>3. Raised(e)' = Raised(e)
  BY <1>2 DEF Raised
<1>4. row \in [Orders -> RowStates]
  BY DEF TypeOK, RowStates
<1>5. CASE MarkFailed(e)
  <2>1. at[e].pc = "decline" /\ Moves(e, "answer")
    BY <1>5 DEF MarkFailed, At
  <2>2. PICK x \in States : x.pc = "answer" /\ Goes(e, x)
    BY <1>1, <2>1, PlainMoves DEF PlainPlaces
  <2>3. row' \in [Orders -> RowStates] /\ Forward(e)
    BY <1>1, <1>4, <1>5 DEF MarkFailed, RowStates, Forward
  <2>4. WorkerSound(e)'
    BY <1>1, <1>2, <1>3, <2>1, <2>2 DEF WorkerSound, EventSound, FinalizerSound, Finalizing, Goes
  <2> QED
    BY <1>1, <1>2, <2>2, <2>3, <2>4, RowStep
<1>6. CASE MarkPaid(e)
  <2>1. at[e].pc = "pay" /\ Moves(e, "claim")
    BY <1>6 DEF MarkPaid, At
  <2>2. PICK x \in States : x.pc = "claim" /\ Goes(e, x)
    BY <1>1, <2>1, PlainMoves DEF PlainPlaces
  <2>3. row' \in [Orders -> RowStates] /\ Forward(e)
    BY <1>1, <1>4, <1>6 DEF MarkPaid, Unfinalized, RowStates, Forward
  <2>4. WorkerSound(e)'
    BY <1>1, <1>2, <1>3, <2>1, <2>2 DEF WorkerSound, EventSound, FinalizerSound, Finalizing, Goes
  <2> QED
    BY <1>1, <1>2, <2>2, <2>3, <2>4, RowStep
<1>7. CASE ClaimPurchase(e)
  <2>1. /\ at[e].pc = "claim"
        /\ \/ Unfinalized(e.order) /\ Becomes(e, [pc |-> "lookup", attempt |-> 1])
           \/ ~Unfinalized(e.order) /\ Moves(e, "recheck") /\ row' = row
    BY <1>7 DEF ClaimPurchase, At
  <2>2. PICK x \in States :
           Goes(e, x) /\ (x.pc = "lookup" \/ (x.pc = "recheck" /\ ~Unfinalized(e.order) /\ row' = row))
    BY <1>1, <2>1, SearchMoves, PlainMoves DEF PlainPlaces
  <2>3. row' \in [Orders -> RowStates] /\ Forward(e)
    BY <1>1, <1>4, <1>7 DEF ClaimPurchase, Unfinalized, RowStates, Forward
  <2>4. e.kind = "settled" /\ row[e.order] # "none"
    BY <1>1, <2>1 DEF WorkerSound, EventSound, SessionsSound, Raised, Events
  <2>5. x.pc = "recheck" => row'[e.order] \in {"finalizing", "finalized", "failed"}
    BY <1>1, <1>4, <2>2, <2>4 DEF Unfinalized, FinalSound, RowStates
  <2>6. WorkerSound(e)'
    BY <1>1, <1>2, <1>3, <2>1, <2>2, <2>4, <2>5
       DEF WorkerSound, EventSound, FinalizerSound, Finalizing, Goes
  <2> QED
    BY <1>1, <1>2, <2>2, <2>3, <2>6, RowStep
<1> QED
  BY <1>5, <1>6, <1>7

-----------------------------------------------------------------------------
(* Steps on the checkout's sessions.                                       *)

SessionStates == {"none", "open", "paid", "waiting", "paid_late", "declined"}

\* A checkout is opened once; what is paid or declined stays so.
SessionStep(w) ==
    /\ session' \in [Orders -> [Sessions -> SessionStates]]
    /\ \A o \in Orders \ {w} : session'[o] = session[o]
    /\ \A o \in Orders, s \in Sessions :
         session[o][s] \in {"paid", "paid_late", "declined"} => session'[o][s] = session[o][s]
    /\ \A s \in Sessions :
         w \in Orders /\ session'[w][s] # "none" => row[w] # "none" /\ plan[w] = "per_role"

LEMMA CheckoutStep ==
  ASSUME IInv, NEW o \in Orders, NEW x, Goes(o, x),
         x = at[o] \/ x.pc = "idle",
         UNCHANGED <<plan, purchase, made, documented, credit, deduped>>,
         SessionStep(o), RequestSound(o)'
  PROVE  IInv'
<1> USE DEF IInv
<1>1. o \in Workers /\ o \notin Events /\ OrderOf(o) = o /\ WorkerSound(o)
  BY Apart DEF Places
<1>2. TypeOK'
  BY DEF TypeOK, purchase, made, Goes, States, SessionStep, SessionStates
<1>3. \A e \in Events : Raised(e) => Raised(e)'
  <2> SUFFICES ASSUME NEW e \in Events, Raised(e) PROVE Raised(e)'
    OBVIOUS
  <2>1. e.order \in Orders /\ e.session \in Sessions
    BY DEF Events
  <2> QED
    BY <2>1 DEF Raised, SessionStep
<1>4. Grows(o)
  BY <1>3 DEF Grows, purchase, made, SessionStep
<1>5. SessionsSound'
  BY DEF SessionsSound, SessionStep, purchase
<1>6. FinalSound'
  BY DEF FinalSound, purchase, made, Linked
<1>7. WorkerSound(o)'
  BY <1>1 DEF WorkerSound, FinalizerSound, Goes, Linked, made
<1>8. Places'
  BY <1>1, <1>4, <1>7, MoverSound
<1>9. \A p \in Orders : Paid(p) \subseteq Paid(p)'
  BY DEF Paid, SessionStep
<1>10. CreditsSound' /\ Counted'
  BY <1>1, <1>9, Quiet
<1> QED
  BY <1>2, <1>5, <1>6, <1>8, <1>10

LEMMA CheckoutSteps ==
  ASSUME IInv, NEW o \in Orders, OpenSessions(o) \/ \E s \in Sessions : CustomerStep(o, s)
  PROVE  IInv'
<1> USE DEF IInv
<1>1. o \in Workers /\ WorkerSound(o) /\ RequestSound(o)
  BY Apart DEF Places, WorkerSound
<1>2. session \in [Orders -> [Sessions -> SessionStates]]
  BY DEF TypeOK, SessionStates
<1>3. CASE OpenSessions(o)
  <2>1. /\ at[o].pc = "upload" /\ plan[o] = "per_role"
        /\ UNCHANGED <<plan, purchase, made, documented, credit, deduped>>
    BY <1>3 DEF OpenSessions, At
  <2>2. PICK x \in States : x.pc = "idle" /\ Goes(o, x)
    BY <1>1, <1>3, IdleMoves DEF OpenSessions
  <2>3. PICK open \in SUBSET Sessions :
          session' = [session EXCEPT ![o] = [s \in Sessions |-> IF s \in open THEN "open" ELSE "none"]]
    BY <1>3 DEF OpenSessions
  <2>4. row[o] # "none" /\ \A s \in Sessions : session[o][s] = "none"
    BY <1>1, <2>1 DEF RequestSound
  <2>5. SessionStep(o)
    BY <1>2, <2>1, <2>3, <2>4 DEF SessionStep, SessionStates
  <2>6. RequestSound(o)'
    BY <1>1, <2>2, IdleSound DEF Goes, WorkerSound
  <2> QED
    BY <2>1, <2>2, <2>5, <2>6, CheckoutStep
<1>4. ASSUME NEW s \in Sessions, CustomerStep(o, s) PROVE IInv'
  <2>1. /\ UNCHANGED <<plan, purchase, made, documented, credit, deduped, at>>
        /\ session[o][s] \in {"open", "waiting"}
        /\ \E y \in SessionStates : session' = [session EXCEPT ![o][s] = y]
    BY <1>4 DEF CustomerStep, Pay, Settle, SessionStates
  <2>2. PICK y \in SessionStates : session' = [session EXCEPT ![o][s] = y]
    BY <2>1
  <2>3. /\ session' \in [Orders -> [Sessions -> SessionStates]]
        /\ \A p \in Orders \ {o} : session'[p] = session[p]
        /\ \A t \in Sessions \ {s} : session'[o][t] = session[o][t]
    BY <1>2, <2>2
  <2>4. row[o] # "none" /\ plan[o] = "per_role"
    BY <2>1 DEF SessionsSound
  <2>5. SessionStep(o)
    BY <2>1, <2>3, <2>4 DEF SessionStep
  <2>6. Goes(o, at[o])
    BY <1>1, <2>1 DEF Goes, TypeOK, States
  <2>7. RequestSound(o)'
    BY <1>1, <2>1, <2>4 DEF RequestSound, Finalizing, purchase
  <2> QED
    BY <2>1, <2>5, <2>6, <2>7, CheckoutStep
<1> QED
  BY <1>3, <1>4

-----------------------------------------------------------------------------
(* Steps on roles and credits.                                             *)

RoleRecords == [order : Orders \cup {None}, credit : Credits \cup {None}]
CreditRecords == [status : {"unused", "voided", "claimed", "used"}, role : Nat]

LEMMA InsertRole ==
  ASSUME TypeOK, NEW role \in RoleRecords, roles' = Append(roles, role),
         unheard' = unheard \/ unheard' = unheard \cup {Len(roles) + 1}
  PROVE  /\ Len(roles) + 1 \in Nat /\ Len(roles) + 1 \notin DOMAIN roles
         /\ roles' \in Seq(RoleRecords)
         /\ DOMAIN roles' = DOMAIN roles \cup {Len(roles) + 1}
         /\ roles'[Len(roles) + 1] = role
         /\ \A i \in DOMAIN roles : roles'[i] = roles[i]
         /\ unheard' \subseteq DOMAIN roles'
<1> DEFINE R == RoleRecords
<1>1. roles \in Seq(R) /\ role \in R /\ unheard \subseteq DOMAIN roles
  BY DEF TypeOK, RoleRecords
<1> HIDE DEF R
<1>2. /\ Len(roles) \in Nat /\ DOMAIN roles = 1..Len(roles)
      /\ Append(roles, role) \in Seq(R)
      /\ Len(Append(roles, role)) = Len(roles) + 1
      /\ \A i \in 1..Len(roles) : Append(roles, role)[i] = roles[i]
      /\ Append(roles, role)[Len(roles) + 1] = role
  BY <1>1
<1>3. DOMAIN Append(roles, role) = 1..(Len(roles) + 1)
  BY <1>2
<1> QED
  BY <1>1, <1>2, <1>3 DEF R

\* The tables of a step that at most adds a role, prepares one or moves a credit.
LEMMA RolesStep ==
  ASSUME IInv, NEW w \in Workers, NEW x, Goes(w, x),
         UNCHANGED <<plan, purchase, session>>,
         deduped \ {w} \subseteq deduped', deduped' \subseteq Events,
         roles' \in Seq(RoleRecords),
         \A i \in DOMAIN roles : i \in DOMAIN roles' /\ roles'[i] = roles[i],
         documented \subseteq documented', documented' \subseteq DOMAIN roles', unheard' \subseteq DOMAIN roles',
         credit' \in [Credits -> CreditRecords],
         WorkerSound(w)'
  PROVE  TypeOK' /\ SessionsSound' /\ FinalSound' /\ Places'
<1> USE DEF IInv
<1>1. TypeOK'
  BY DEF TypeOK, purchase, Goes, States, RoleRecords, CreditRecords
<1>2. Grows(w)
  BY DEF Grows, purchase, Raised
<1>3. SessionsSound'
  BY DEF SessionsSound, purchase
<1>4. FinalSound'
  <2>1. \A o \in Orders : Linked(o) \subseteq Linked(o)'
    BY DEF Linked
  <2> QED
    BY <2>1 DEF FinalSound, purchase
<1>5. Places'
  BY <1>2, MoverSound
<1> QED
  BY <1>1, <1>3, <1>4, <1>5

\* A request that holds a credit, or is done with one.
LEMMA CreditorSound ==
  ASSUME NEW o \in Orders, at'[o].pc \in {"create", "release", "use", "idle"}
  PROVE  WorkerSound(o)'
<1>1. o \in Workers /\ o \notin Events
  BY Apart
<1> QED
  BY <1>1 DEF WorkerSound, RequestSound, FinalizerSound, Finalizing

\* A role made on a credit is linked to no purchase.
LEMMA CreditCounts ==
  ASSUME TypeOK, Counted, NEW o \in Orders, NEW x, Goes(o, x), x.pc # "create_role",
         UNCHANGED <<plan, session>>,
         roles' = roles \/ \E c \in Credits : roles' = Append(roles, Role(None, c)),
         unheard' = unheard \/ unheard' = unheard \cup {Len(roles) + 1}
  PROVE  Counted'
<1>1. \A p \in Orders : Linked(p)' = Linked(p)
  <2>1. CASE roles' = roles
    BY <2>1 DEF Linked
  <2>2. ASSUME NEW c \in Credits, roles' = Append(roles, Role(None, c))
        PROVE  \A p \in Orders : Linked(p)' = Linked(p)
    <3>1. Role(None, c) \in RoleRecords /\ Role(None, c).order = None /\ None \notin Orders
      BY RolePurchaseAssumption DEF Role, RoleRecords
    <3> QED
      BY <2>2, <3>1, InsertRole DEF Linked
  <2> QED
    BY <2>1, <2>2
<1>2. \A v \in Workers : at'[v].pc = "create_role" => at[v].pc = "create_role"
  BY DEF Goes
<1>3. \A p \in Orders : p \in Workers /\ \A s \in Sessions : Settled(p, s) \in Workers
  BY DEF Settled, Workers, Events
<1>4. \A p \in Orders : Creating(p)' \subseteq Creating(p) /\ Paid(p)' = Paid(p)
  BY <1>2, <1>3 DEF Creating, Paid
<1> QED
  BY <1>1, <1>2, <1>3, <1>4, CountsRest

LEMMA ClaimCreditStep ==
  ASSUME IInv, NEW o \in Orders, ClaimCredit(o)
  PROVE  IInv'
<1> USE DEF IInv
<1>1. o \in Workers /\ o \notin Events /\ OrderOf(o) = o /\ WorkerSound(o)
  BY Apart DEF Places
<1>2. /\ at[o].pc = "claim"
      /\ UNCHANGED <<plan, purchase, made, documented, session, deduped>>
  BY DEF ClaimCredit, At
<1>3. deduped \ {o} \subseteq deduped' /\ deduped' \subseteq Events
  BY <1>2 DEF TypeOK
<1>4. ASSUME NEW c \in Claimable,
             credit' = [credit EXCEPT ![c].status = "claimed"],
             Becomes(o, [pc |-> "create", credit |-> c])
      PROVE  IInv'
  <2> DEFINE x == [pc |-> "create", credit |-> c]
  <2>1. c \in Credits /\ credit[c].status = "unused"
    BY <1>4 DEF Claimable, Unused
  <2>2. x \in States /\ x.pc = "create" /\ x.credit = c
    BY <2>1 DEF States, Crediting
  <2>3. Goes(o, x)
    BY <1>1, <1>4, <2>2, Changes
  <2> HIDE DEF x
  <2>4. /\ credit' \in [Credits -> CreditRecords]
        /\ credit'[c].status = "claimed"
        /\ \A d \in Credits \ {c} : credit'[d] = credit[d]
    BY <1>4, <2>1 DEF TypeOK, CreditRecords
  <2>5. TypeOK' /\ SessionsSound' /\ FinalSound' /\ Places'
    <3>1. WorkerSound(o)'
      BY <2>2, <2>3, CreditorSound DEF Goes
    <3> QED
      BY <1>1, <1>2, <1>3, <2>3, <2>4, <3>1, RolesStep DEF TypeOK, made, RoleRecords
  <2>6. Counted'
    BY <1>2, <2>2, <2>3, CreditCounts DEF made
  <2>7. CreditsSound'
    <3>1. \A d \in Credits : Answered(d)' = Answered(d)
      BY <1>2 DEF Answered, made
    <3>2. Answered(c) = {} /\ \A p \in Orders : ~Holds(p, c)
      BY <2>1 DEF CreditsSound
    <3>3. \A p \in Orders, d \in Credits : Holds(p, d)' => (p = o /\ d = c) \/ (p # o /\ Holds(p, d) /\ at'[p] = at[p])
      BY <2>2, <2>3, Apart DEF Holds, Goes
    <3>4. at'[o].pc = "create"
      BY <2>2, <2>3 DEF Goes
    <3> QED
      BY <2>1, <2>4, <3>1, <3>2, <3>3, <3>4 DEF CreditsSound
  <2> QED
    BY <2>5, <2>6, <2>7
<1>5. ASSUME Moves(o, "insert_row"), credit' = credit PROVE IInv'
  <2>1. PICK x \in States : x.pc = "insert_row" /\ Goes(o, x)
    BY <1>1, <1>2, <1>5, PlainMoves DEF PlainPlaces
  <2>2. WorkerSound(o)'
    BY <1>1, <1>2, <2>1 DEF WorkerSound, RequestSound, FinalizerSound, Finalizing, Goes, purchase
  <2> QED
    BY <1>1, <1>2, <1>3, <1>5, <2>1, <2>2, MoveStep
<1> QED
  BY <1>4, <1>5 DEF ClaimCredit

LEMMA CreateCreditStep ==
  ASSUME IInv, NEW o \in Orders, CreateCreditRole(o)
  PROVE  IInv'
<1> USE DEF IInv
<1>a. o \in Workers /\ at[o].pc = "create" /\ at[o].credit \in Credits /\ Len(roles) + 1 \in Nat
  BY Apart, Shapes DEF CreateCreditRole, At, TypeOK, States, Crediting
<1>b. PICK c \in Credits : c = at[o].credit
  BY <1>a
<1>c. PICK n \in Nat : n = Len(roles) + 1
  BY <1>a
<1> DEFINE x == [pc |-> "use", credit |-> c, role |-> n]
<1>1. o \in Workers /\ at[o].pc = "create" /\ c = at[o].credit
  BY <1>a, <1>b
<1>2. /\ UNCHANGED <<plan, purchase, documented, credit, session, deduped>>
      /\ \/ roles' = Append(roles, Role(None, c)) /\ unheard' = unheard /\ Becomes(o, x)
         \/ roles' = Append(roles, Role(None, c)) /\ unheard' = unheard \cup {n} /\ Moves(o, "release")
         \/ roles' = roles /\ unheard' = unheard /\ Moves(o, "release")
  BY <1>b, <1>c DEF CreateCreditRole, InsertHeard, InsertUnheard, made
<1>3. x \in States /\ x.pc = "use" /\ x.credit = c /\ x.role = n
  BY <1>1 DEF States, Using, TypeOK
<1>4. Role(None, c) \in RoleRecords /\ Role(None, c).credit = c
  BY <1>1 DEF Role, RoleRecords
<1>5. \/ n \notin DOMAIN roles /\ roles' = Append(roles, Role(None, c)) /\ unheard' = unheard /\ Goes(o, x)
      \/ /\ \/ roles' = Append(roles, Role(None, c)) /\ unheard' = unheard \cup {n}
            \/ roles' = roles /\ unheard' = unheard
         /\ \E y \in States : y.pc = "release" /\ y.credit = c /\ Goes(o, y)
  BY <1>1, <1>2, <1>3, <1>4, <1>c, Changes, CreditMoves, InsertRole
<1> HIDE DEF x
<1>6. PICK y \in States :
        /\ y.pc \in {"use", "release"} /\ y.credit = c /\ Goes(o, y)
        /\ y.pc = "use" => y.role = n /\ n \notin unheard' /\ roles' = Append(roles, Role(None, c))
        /\ y.pc = "release" => (roles' = roles /\ unheard' = unheard) \/ n \in unheard'
        /\ unheard' = unheard \/ unheard' = unheard \cup {n}
        /\ roles' = roles \/ roles' = Append(roles, Role(None, c))
        /\ roles' = roles => unheard' = unheard
  <2>1. unheard \subseteq DOMAIN roles
    BY DEF TypeOK
  <2> QED
    BY <1>3, <1>5, <2>1
<1>7. /\ roles' \in Seq(RoleRecords) /\ unheard' \subseteq DOMAIN roles'
      /\ \A i \in DOMAIN roles : i \in DOMAIN roles' /\ roles'[i] = roles[i]
      /\ roles' # roles => /\ DOMAIN roles' = DOMAIN roles \cup {n} /\ n \notin DOMAIN roles
                           /\ roles'[n].credit = c
  <2>1. CASE roles' = roles
    BY <1>6, <2>1 DEF TypeOK, RoleRecords
  <2>2. CASE roles' = Append(roles, Role(None, c))
    BY <1>4, <1>6, <1>c, <2>2, InsertRole
  <2> QED
    BY <1>6, <2>1, <2>2
<1>8. TypeOK' /\ SessionsSound' /\ FinalSound' /\ Places'
  <2>1. WorkerSound(o)'
    BY <1>6, CreditorSound DEF Goes
  <2>2. documented' \subseteq DOMAIN roles' /\ deduped' \subseteq Events /\ credit' \in [Credits -> CreditRecords]
    BY <1>2, <1>7 DEF TypeOK, CreditRecords
  <2> QED
    BY <1>1, <1>2, <1>6, <1>7, <2>1, <2>2, RolesStep
<1>9. Counted'
  BY <1>1, <1>2, <1>6, <1>c, CreditCounts
<1>10. CreditsSound'
  <2>1. Holds(o, c)
    BY <1>1 DEF Holds
  <2>2. /\ Answered(c) = {} /\ credit[c].status = "claimed"
        /\ \A p \in Orders : Holds(p, c) => p = o
    BY <1>1, <2>1 DEF CreditsSound
  <2>3. \A d \in Credits \ {c} : Answered(d)' = Answered(d)
    BY <1>6, <1>7 DEF Answered
  <2>4. Answered(c)' = IF y.pc = "use" THEN {n} ELSE {}
    <3>1. CASE y.pc = "use"
      <4>1. roles' # roles /\ n \notin unheard' /\ unheard' \cap DOMAIN roles = unheard
        <5>1. roles' # roles
          BY <1>4, <1>6, <1>c, <3>1, InsertRole
        <5>2. unheard \subseteq DOMAIN roles
          BY DEF TypeOK
        <5> QED
          BY <1>6, <3>1, <5>1, <5>2
      <4> QED
        BY <1>7, <2>2, <3>1, <4>1 DEF Answered
    <3>2. CASE y.pc = "release"
      BY <1>6, <1>7, <2>2, <3>2 DEF Answered
    <3> QED
      BY <1>6, <3>1, <3>2
  <2>5. \A p \in Orders, d \in Credits : Holds(p, d)' => (p = o /\ d = c) \/ (p # o /\ d # c /\ Holds(p, d) /\ at'[p] = at[p])
    BY <1>6, <2>2, Apart DEF Holds, Goes
  <2>6. at'[o] = y
    BY <1>6 DEF Goes
  <2>7. Answered(c)' = {} \/ \E i \in Nat : Answered(c)' = {i}
    BY <2>4
  <2> QED
    BY <1>1, <1>2, <1>6, <2>2, <2>3, <2>4, <2>5, <2>6, <2>7 DEF CreditsSound
<1> QED
  BY <1>8, <1>9, <1>10

\* A request gives its credit back, or notes the role made on it.
LEMMA SettleCreditStep ==
  ASSUME IInv, NEW o \in Orders, ReleaseCredit(o) \/ UseCredit(o)
  PROVE  IInv'
<1> USE DEF IInv
<1>a. /\ o \in Workers /\ at[o].pc \in {"release", "use"} /\ at[o].credit \in Credits
      /\ at[o].pc = "use" => at[o].role \in Nat
  BY Apart, Shapes DEF ReleaseCredit, UseCredit, At, TypeOK, States, Crediting, Using
<1>b. PICK c \in Credits : c = at[o].credit
  BY <1>a
<1>1. /\ o \in Workers /\ at[o].pc \in {"release", "use"} /\ c = at[o].credit
      /\ at[o].pc = "use" => at[o].role \in Nat
  BY <1>a, <1>b
<1>2. UNCHANGED <<plan, purchase, made, session, deduped>>
  BY DEF ReleaseCredit, UseCredit
<1>3. PICK x \in States : x.pc = "idle" /\ Goes(o, x)
  BY <1>1, IdleMoves DEF ReleaseCredit, UseCredit
<1>4. Holds(o, c)
  BY <1>1 DEF Holds
<1>5. /\ Answered(c) = IF at[o].pc = "use" THEN {at[o].role} ELSE {}
      /\ credit[c].status = "claimed"
      /\ \A p \in Orders : Holds(p, c) => p = o
  BY <1>1, <1>4 DEF CreditsSound
<1>6. /\ credit' \in [Credits -> CreditRecords]
      /\ \A d \in Credits \ {c} : credit'[d] = credit[d]
      /\ \/ credit'[c] = credit[c]
         \/ at[o].pc = "release" /\ credit'[c].status = "unused"
         \/ at[o].pc = "use" /\ credit'[c].status = "used" /\ credit'[c].role = at[o].role
  <2>1. CASE ReleaseCredit(o)
    BY <1>1, <2>1 DEF ReleaseCredit, At, TypeOK, CreditRecords
  <2>2. CASE UseCredit(o)
    <3> DEFINE used == [status |-> "used", role |-> at[o].role]
    <3>1. at[o].pc = "use" /\ (credit' = [credit EXCEPT ![c] = used] \/ credit' = credit)
      BY <1>1, <2>2 DEF UseCredit, At
    <3>2. used \in CreditRecords /\ used.status = "used" /\ used.role = at[o].role
      BY <1>1, <3>1 DEF CreditRecords
    <3>3. credit \in [Credits -> CreditRecords]
      BY DEF TypeOK, CreditRecords
    <3> HIDE DEF used
    <3> QED
      BY <3>1, <3>2, <3>3
  <2> QED
    BY <2>1, <2>2
<1>7. documented \subseteq documented' /\ documented' \subseteq DOMAIN roles
  <2>1. CASE ReleaseCredit(o)
    BY <2>1 DEF ReleaseCredit, TypeOK
  <2>2. CASE UseCredit(o)
    <3>1. at[o].role \in DOMAIN roles
      BY <1>5, <2>2 DEF Answered, UseCredit, At
    <3> QED
      BY <2>2, <3>1 DEF UseCredit, Documents, TypeOK
  <2> QED
    BY <2>1, <2>2
<1>8. TypeOK' /\ SessionsSound' /\ FinalSound' /\ Places'
  <2>1. WorkerSound(o)'
    BY <1>1, <1>3, IdleSound DEF Goes
  <2> QED
    BY <1>1, <1>2, <1>3, <1>6, <1>7, <2>1, RolesStep DEF TypeOK, made, RoleRecords
<1>9. Counted'
  BY <1>2, <1>3, CreditCounts DEF made
<1>10. CreditsSound'
  <2>1. \A d \in Credits : Answered(d)' = Answered(d)
    BY <1>2 DEF Answered, made
  <2>2. \A p \in Orders, d \in Credits : Holds(p, d)' => d # c /\ Holds(p, d) /\ at'[p] = at[p]
    BY <1>3, <1>5, Apart DEF Holds, Goes
  <2>3. /\ credit'[c].status \in {"unused", "voided"} => Answered(c)' = {}
        /\ credit'[c].status = "used" => Answered(c)' = {credit'[c].role}
        /\ credit'[c].status = "claimed" => Answered(c)' = {} \/ \E i \in Nat : Answered(c)' = {i}
    BY <1>1, <1>5, <1>6, <2>1
  <2> QED
    BY <1>6, <2>1, <2>2, <2>3 DEF CreditsSound
<1> QED
  BY <1>8, <1>9, <1>10

-----------------------------------------------------------------------------
(* Steps of a finalizer.                                                   *)

\* Only settled events finalize, and only requests of clients billed by usage.
LEMMA FinalizerKind ==
  ASSUME IInv, NEW w \in Workers, Finalizing(w)
  PROVE  /\ OrderOf(w) \in Orders
         /\ w \in Orders => w = OrderOf(w) /\ plan[w] = "usage"
         /\ w \in Events => /\ w \notin Orders /\ w.session \in Sessions
                            /\ w = Settled(OrderOf(w), w.session)
                            /\ Raised(w) /\ w \in deduped
                            /\ plan[OrderOf(w)] = "per_role" /\ row[OrderOf(w)] # "none"
         /\ w \in Orders \/ w \in Events
<1> USE DEF IInv
<1>1. WorkerSound(w)
  BY DEF Places
<1>2. CASE w \in Orders
  BY <1>1, <1>2, Apart DEF WorkerSound, RequestSound
<1>3. CASE w \in Events
  <2>1. w.kind = "settled" /\ Raised(w) /\ w \in deduped
    BY <1>1, <1>3 DEF WorkerSound, EventSound, Finalizing
  <2>2. w.session \in Sessions /\ w = [order |-> w.order, session |-> w.session, kind |-> "settled"]
    BY <1>3, <2>1 DEF Events
  <2>3. w.order \in Orders /\ OrderOf(w) = w.order /\ w \notin Orders
    BY <1>3, Apart
  <2>4. plan[w.order] = "per_role" /\ row[w.order] # "none"
    BY <2>1, <2>2, <2>3 DEF SessionsSound, Raised
  <2> QED
    BY <1>3, <2>1, <2>2, <2>3, <2>4 DEF Settled
<1> QED
  BY <1>2, <1>3 DEF Workers

\* A finalizer goes to another place of the finalization.
LEMMA FinalizerSoundMoves ==
  ASSUME IInv, NEW w \in Workers, Finalizing(w), NEW x, Goes(w, x),
         UNCHANGED <<plan, row, session, deduped>>,
         x.pc \in {"lookup", "create_role", "enrich", "finalize"},
         FinalizerSound(w)'
  PROVE  WorkerSound(w)'
<1> USE DEF IInv
<1>1. WorkerSound(w) /\ at'[w].pc \in {"lookup", "create_role", "enrich", "finalize"}
  BY DEF Places, Goes
<1>2. w \in Orders => RequestSound(w)'
  BY <1>1, FinalizerKind DEF RequestSound
<1>3. w \in Events => EventSound(w)'
  <2>1. ASSUME w \in Events PROVE Raised(w)' /\ w \in deduped' /\ w.kind = "settled"
    BY <1>1, <2>1 DEF WorkerSound, EventSound, Finalizing, Raised
  <2> QED
    BY <1>1, <2>1 DEF EventSound
<1> QED
  BY <1>2, <1>3 DEF WorkerSound

\* A finalizer searches for the newest role of the purchase.
LEMMA LookUpStep ==
  ASSUME IInv, NEW w \in Workers, LookUpRole(w)
  PROVE  IInv'
<1> USE DEF IInv
<1>1. /\ at[w].pc = "lookup" /\ Finalizing(w)
      /\ UNCHANGED <<plan, purchase, made, documented, credit, session, deduped>>
      /\ deduped \subseteq Events
  BY DEF LookUpRole, At, Finalizing, TypeOK
<1>2. at[w].attempt \in 1..2
  BY <1>1, Shapes DEF TypeOK, States, Searching
<1>3. ASSUME NEW i \in Linked(OrderOf(w)),
             Becomes(w, [pc |-> "enrich", attempt |-> at[w].attempt, role |-> i, recovered |-> TRUE])
      PROVE  IInv'
  <2> DEFINE x == [pc |-> "enrich", attempt |-> at[w].attempt, role |-> i, recovered |-> TRUE]
  <2>1. i \in Nat
    BY DEF Linked, TypeOK
  <2>2. x \in States /\ x.pc = "enrich" /\ x.role = i
    BY <1>2, <2>1 DEF States, Building
  <2>3. Goes(w, x)
    BY <1>3, <2>2, Changes
  <2> HIDE DEF x
  <2>4. FinalizerSound(w)'
    BY <1>1, <2>2, <2>3 DEF FinalizerSound, Goes, Linked, OrderOf, made
  <2>5. WorkerSound(w)'
    BY <1>1, <2>2, <2>3, <2>4, FinalizerSoundMoves DEF purchase
  <2> QED
    BY <1>1, <2>2, <2>3, <2>5, MoveStep
<1>4. ASSUME Linked(OrderOf(w)) = {}, Moves(w, "create_role") PROVE IInv'
  <2>1. PICK x \in States : x.pc = "create_role" /\ Goes(w, x)
    BY <1>1, <1>4, CreateMoves
  <2>2. WorkerSound(w)'
    <3>1. FinalizerSound(w)'
      BY <2>1 DEF FinalizerSound, Goes
    <3> QED
      BY <1>1, <2>1, <3>1, FinalizerSoundMoves DEF purchase
  <2>3. TypeOK' /\ SessionsSound' /\ FinalSound' /\ Places'
    BY <1>1, <2>1, <2>2, RolesStep DEF TypeOK, made, RoleRecords, CreditRecords
  <2>4. CreditsSound'
    <3>1. \A c \in Credits : Answered(c)' = Answered(c)
      BY <1>1 DEF Answered, made
    <3>2. \A o \in Orders, c \in Credits : Holds(o, c)' => Holds(o, c) /\ at'[o] = at[o]
      BY <2>1, Apart DEF Holds, Goes
    <3> QED
      BY <1>1, <3>1, <3>2, CreditsRest
  <2>5. Counted'
    <3> SUFFICES ASSUME NEW o \in Orders
                 PROVE  (IF plan[o] = "usage"
                         THEN Cardinality(Linked(o)) + (IF at[o].pc = "create_role" THEN 1 ELSE 0) <= 1
                         ELSE Cardinality(Linked(o)) + Cardinality(Creating(o)) <= Cardinality(Paid(o)))'
      BY DEF Counted
    <3>1. Linked(o)' = Linked(o) /\ Paid(o)' = Paid(o) /\ plan'[o] = plan[o]
      BY <1>1 DEF Linked, Paid, made
    <3>2. CASE o = OrderOf(w)
      <4>1. Cardinality(Linked(o)') = 0
        BY <1>4, <3>1, <3>2, FS_EmptySet
      <4>2. Creating(o)' \subseteq Paid(o)'
        <5> SUFFICES ASSUME NEW s \in Sessions, at'[Settled(o, s)].pc = "create_role"
                     PROVE  session'[o][s] \in {"paid", "paid_late"}
          BY DEF Creating, Paid
        <5>1. Settled(o, s) \in Workers /\ Settled(o, s) \in Events
          BY DEF Settled, Workers, Events
        <5>2. Raised(Settled(o, s))'
          BY <2>3, <5>1 DEF Places, WorkerSound, EventSound
        <5> QED
          BY <5>2 DEF Raised, Settled
      <4>3. /\ Cardinality(Creating(o)') \in Nat /\ Cardinality(Paid(o)') \in Nat
            /\ Cardinality(Creating(o)') <= Cardinality(Paid(o)')
        BY <4>2, SessionsFinite, FS_CardinalityType, FS_Subset
      <4> QED
        BY <4>1, <4>3
    <3>3. CASE o # OrderOf(w)
      <4>1. o # w /\ at'[o] = at[o]
        BY <2>1, <3>3, Apart DEF Goes
      <4>2. Creating(o)' = Creating(o)
        <5> SUFFICES ASSUME NEW s \in Sessions PROVE at'[Settled(o, s)] = at[Settled(o, s)]
          BY DEF Creating
        <5>1. /\ Settled(o, s) \in Workers /\ Settled(o, s) \in Events
              /\ Settled(o, s).order = o
          BY DEF Settled, Workers, Events
        <5>2. Settled(o, s) # w
          BY <3>3, <5>1, Apart
        <5> QED
          BY <2>1, <5>1, <5>2 DEF Goes
      <4> QED
        BY <3>1, <4>1, <4>2 DEF Counted
    <3> QED
      BY <3>2, <3>3
  <2> QED
    BY <2>3, <2>4, <2>5
<1> QED
  BY <1>3, <1>4 DEF LookUpRole, Found

\* A worker that was about to insert a role has inserted it: what it counted
\* as about to be made is made.
LEMMA InsertStep ==
  ASSUME IInv, NEW w \in Workers, at[w].pc = "create_role", NEW x, Goes(w, x),
         x.pc \notin {"create", "release", "use", "create_role"},
         roles' = Append(roles, Role(OrderOf(w), None)),
         unheard' = unheard \/ unheard' = unheard \cup {Len(roles) + 1},
         UNCHANGED <<plan, purchase, documented, credit, session>>,
         deduped \ {w} \subseteq deduped', deduped' \subseteq Events,
         WorkerSound(w)'
  PROVE  IInv'
<1> USE DEF IInv
<1>1. Finalizing(w)
  BY DEF Finalizing
<1>2. /\ Role(OrderOf(w), None) \in RoleRecords
      /\ Role(OrderOf(w), None).order = OrderOf(w) /\ Role(OrderOf(w), None).credit = None
  BY <1>1, FinalizerKind DEF Role, RoleRecords
<1>3. PICK n \in Nat : n = Len(roles) + 1
  BY <1>2, InsertRole
<1>4. /\ n \notin DOMAIN roles /\ roles' \in Seq(RoleRecords)
      /\ DOMAIN roles' = DOMAIN roles \cup {n}
      /\ roles'[n].order = OrderOf(w) /\ roles'[n].credit = None
      /\ \A i \in DOMAIN roles : roles'[i] = roles[i]
      /\ unheard' \subseteq DOMAIN roles'
      /\ unheard' = unheard \/ unheard' = unheard \cup {n}
  BY <1>2, <1>3, InsertRole
<1>5. TypeOK' /\ SessionsSound' /\ FinalSound' /\ Places'
  <2>1. documented \subseteq documented' /\ documented' \subseteq DOMAIN roles' /\ credit' \in [Credits -> CreditRecords]
    BY <1>4 DEF TypeOK, CreditRecords
  <2> QED
    BY <1>4, <2>1, RolesStep
<1>6. CreditsSound'
  <2>1. \A c \in Credits : Answered(c)' = Answered(c)
    BY <1>4, RolePurchaseAssumption DEF Answered
  <2>2. \A o \in Orders, c \in Credits : Holds(o, c)' => Holds(o, c) /\ at'[o] = at[o]
    BY Apart DEF Holds, Goes
  <2> QED
    BY <2>1, <2>2, CreditsRest
<1>7. Counted'
  <2> SUFFICES ASSUME NEW o \in Orders
               PROVE  (IF plan[o] = "usage"
                       THEN Cardinality(Linked(o)) + (IF at[o].pc = "create_role" THEN 1 ELSE 0) <= 1
                       ELSE Cardinality(Linked(o)) + Cardinality(Creating(o)) <= Cardinality(Paid(o)))'
    BY DEF Counted
  <2>1. Paid(o)' = Paid(o) /\ plan'[o] = plan[o]
    BY DEF Paid
  <2>2. \A s \in Sessions : /\ Settled(o, s) \in Workers /\ Settled(o, s) \in Events
                            /\ Settled(o, s).order = o /\ Settled(o, s).session = s
    BY DEF Settled, Workers, Events
  <2>3. CASE o = OrderOf(w)
    <3>1. Linked(o)' = Linked(o) \cup {n} /\ n \notin Linked(o)
      BY <1>4, <2>3 DEF Linked
    <3>2. /\ Cardinality(Linked(o)) \in Nat
          /\ Cardinality(Linked(o)') = Cardinality(Linked(o)) + 1
      BY <3>1, LinkedFinite, FS_AddElement, FS_CardinalityType
    <3>3. CASE w \in Orders
      <4>1. w = o /\ plan[o] = "usage" /\ at'[o].pc # "create_role"
        BY <1>1, <2>3, <3>3, FinalizerKind DEF Goes
      <4> QED
        BY <2>1, <3>2, <4>1 DEF Counted
    <3>4. CASE w \in Events
      <4>1. w = Settled(o, w.session) /\ w.session \in Sessions /\ plan[o] = "per_role"
        BY <1>1, <2>3, <3>4, FinalizerKind
      <4>2. w.session \in Creating(o) /\ Creating(o)' = Creating(o) \ {w.session}
        <5>1. w.session \in Creating(o) /\ w.session \notin Creating(o)'
          BY <4>1 DEF Creating, Goes
        <5>2. ASSUME NEW s \in Sessions, s # w.session PROVE at'[Settled(o, s)] = at[Settled(o, s)]
          <6>1. Settled(o, s) # w
            BY <2>2, <5>2
          <6> QED
            BY <2>2, <6>1 DEF Goes
        <5> QED
          BY <5>1, <5>2 DEF Creating
      <4>3. /\ Cardinality(Creating(o)) \in Nat /\ Cardinality(Paid(o)) \in Nat
            /\ Cardinality(Creating(o)') = Cardinality(Creating(o)) - 1
        <5>1. IsFiniteSet(Creating(o)) /\ IsFiniteSet(Paid(o))
          BY SessionsFinite
        <5>2. Cardinality(Creating(o)) \in Nat /\ Cardinality(Paid(o)) \in Nat
          BY <5>1, FS_CardinalityType
        <5>3. Cardinality(Creating(o) \ {w.session}) = Cardinality(Creating(o)) - 1
          BY <4>2, <5>1, FS_RemoveElement
        <5> QED
          BY <4>2, <5>2, <5>3
      <4>4. Cardinality(Linked(o)) + Cardinality(Creating(o)) <= Cardinality(Paid(o))
        BY <4>1 DEF Counted
      <4> QED
        BY <2>1, <3>2, <4>1, <4>3, <4>4
    <3> QED
      BY <1>1, <3>3, <3>4, FinalizerKind
  <2>4. CASE o # OrderOf(w)
    <3>1. Linked(o)' = Linked(o)
      BY <1>4, <2>4 DEF Linked
    <3>2. at'[o] = at[o]
      BY <2>4, Apart DEF Goes
    <3>3. Creating(o)' = Creating(o)
      <4> SUFFICES ASSUME NEW s \in Sessions PROVE at'[Settled(o, s)] = at[Settled(o, s)]
        BY DEF Creating
      <4>1. Settled(o, s) # w
        BY <2>2, <2>4, Apart
      <4> QED
        BY <2>2, <4>1 DEF Goes
    <3> QED
      BY <2>1, <3>1, <3>2, <3>3 DEF Counted
  <2> QED
    BY <2>3, <2>4
<1> QED
  BY <1>5, <1>6, <1>7

LEMMA CreateRoleStep ==
  ASSUME IInv, NEW w \in Workers, CreateRole(w)
  PROVE  IInv'
<1> USE DEF IInv
<1>1. /\ at[w].pc = "create_role" /\ Finalizing(w)
      /\ roles' = Append(roles, Role(OrderOf(w), None)) /\ unheard' = unheard
      /\ UNCHANGED <<plan, purchase, documented, credit, session, deduped>>
      /\ deduped \subseteq Events
      /\ Becomes(w, [pc |-> "enrich", attempt |-> at[w].attempt, role |-> Len(roles) + 1, recovered |-> FALSE])
  BY DEF CreateRole, InsertHeard, At, Finalizing, TypeOK
<1>2. at[w].attempt \in 1..2
  BY <1>1, Shapes DEF TypeOK, States, Searching
<1>3. /\ Role(OrderOf(w), None) \in RoleRecords /\ Role(OrderOf(w), None).order = OrderOf(w)
      /\ OrderOf(w)' = OrderOf(w)
  BY <1>1, FinalizerKind DEF Role, RoleRecords, OrderOf
<1>4. Len(roles) + 1 \in Nat /\ Len(roles) + 1 \in DOMAIN roles' /\ roles'[Len(roles) + 1].order = OrderOf(w)
  BY <1>1, <1>3, InsertRole
<1>5. PICK n \in Nat : n = Len(roles) + 1
  BY <1>4
<1> DEFINE x == [pc |-> "enrich", attempt |-> at[w].attempt, role |-> n, recovered |-> FALSE]
<1>6. x \in States /\ x.pc = "enrich" /\ x.role = n
  BY <1>2 DEF States, Building
<1>7. Goes(w, x)
  BY <1>1, <1>5, <1>6, Changes
<1> HIDE DEF x
<1>8. FinalizerSound(w)'
  BY <1>3, <1>4, <1>5, <1>6, <1>7 DEF FinalizerSound, Goes, Linked
<1>9. WorkerSound(w)'
  BY <1>1, <1>6, <1>7, <1>8, FinalizerSoundMoves DEF purchase
<1> QED
  BY <1>1, <1>6, <1>7, <1>9, InsertStep

LEMMA CreateUnheardStep ==
  ASSUME IInv, NEW w \in Workers, CreateRoleUnheard(w)
  PROVE  IInv'
<1> USE DEF IInv
<1>1. /\ at[w].pc = "create_role" /\ Finalizing(w)
      /\ roles' = Append(roles, Role(OrderOf(w), None)) /\ unheard' = unheard \cup {Len(roles) + 1}
      /\ UNCHANGED <<plan, purchase, documented, credit, session>>
      /\ deduped \ {w} \subseteq deduped' /\ deduped' \subseteq Events
  BY DEF CreateRoleUnheard, InsertUnheard, At, Finalizing, TypeOK
<1>2. Becomes(w, Idle) \/ (w \in Orders /\ deduped' = deduped /\ Becomes(w, [pc |-> "lookup", attempt |-> 2]))
  BY DEF CreateRoleUnheard
<1>3. PICK x \in States :
        Goes(w, x) /\ (x.pc = "idle" \/ (x.pc = "lookup" /\ deduped' = deduped))
  BY <1>2, IdleMoves, SearchMoves
<1>4. WorkerSound(w)'
  <2>1. CASE x.pc = "idle"
    BY <1>3, <2>1, IdleSound DEF Goes
  <2>2. CASE x.pc = "lookup"
    <3>1. FinalizerSound(w)'
      BY <1>3, <2>2 DEF FinalizerSound, Goes
    <3> QED
      BY <1>1, <1>3, <2>2, <3>1, FinalizerSoundMoves DEF purchase
  <2> QED
    BY <1>3, <2>1, <2>2
<1> QED
  BY <1>1, <1>3, <1>4, InsertStep

LEMMA EnrichStep ==
  ASSUME IInv, NEW w \in Workers, EnrichRole(w)
  PROVE  IInv'
<1> USE DEF IInv
<1>1. /\ at[w].pc = "enrich" /\ Finalizing(w) /\ Moves(w, "finalize")
      /\ documented' = documented \cup {at[w].role}
      /\ UNCHANGED <<plan, purchase, made, credit, session, deduped>>
      /\ deduped \subseteq Events
  BY DEF EnrichRole, Documents, At, Finalizing, TypeOK
<1>2. PICK x \in States : x.pc = "finalize" /\ x.role = at[w].role /\ Goes(w, x)
  BY <1>1, FinalizeMoves
<1>3. at[w].role \in Linked(OrderOf(w))
  BY <1>1 DEF Places, WorkerSound, FinalizerSound
<1>4. FinalizerSound(w)'
  BY <1>1, <1>2, <1>3 DEF FinalizerSound, Goes, Linked, OrderOf, made
<1>5. WorkerSound(w)'
  BY <1>1, <1>2, <1>4, FinalizerSoundMoves DEF purchase
<1>6. TypeOK' /\ SessionsSound' /\ FinalSound' /\ Places'
  <2>1. documented' \subseteq DOMAIN roles
    BY <1>1, <1>3 DEF TypeOK, Linked
  <2> QED
    BY <1>1, <1>2, <1>5, <2>1, RolesStep DEF TypeOK, made, RoleRecords, CreditRecords
<1>7. CreditsSound' /\ Counted'
  BY <1>1, <1>2, Quiet DEF Paid
<1> QED
  BY <1>6, <1>7

LEMMA FinalizeStep ==
  ASSUME IInv, NEW w \in Workers, FinalizeRow(w)
  PROVE  IInv'
<1> USE DEF IInv
<1>1. /\ at[w].pc = "finalize" /\ Finalizing(w)
      /\ UNCHANGED <<plan, made, documented, credit, session, deduped>>
      /\ w \in Orders => Becomes(w, Idle)
      /\ w \notin Orders => Becomes(w, [pc |-> "answer"])
  BY DEF FinalizeRow, At, Finalizing
<1>2. PICK o \in Orders : o = OrderOf(w)
  BY <1>1, FinalizerKind
<1>3. /\ final[o] = 0 /\ row[o] \in {"pending", "paid", "finalizing"}
      /\ row' = [row EXCEPT ![o] = "finalized"] /\ final' = [final EXCEPT ![o] = at[w].role]
  BY <1>2 DEF FinalizeRow
<1>4. at[w].role \in Linked(o) \cap documented /\ at[w].role \in Nat
  BY <1>1, <1>2 DEF Places, WorkerSound, FinalizerSound, Linked, TypeOK
<1>5. /\ row' \in [Orders -> RowStates] /\ final' \in [Orders -> Nat]
      /\ row'[o] = "finalized" /\ final'[o] = at[w].role
      /\ \A p \in Orders \ {o} : row'[p] = row[p] /\ final'[p] = final[p]
  BY <1>3, <1>4 DEF TypeOK, RowStates
<1>6. PICK x \in States :
        Goes(w, x) /\ (x.pc = "idle" \/ (x.pc = "answer" /\ w \in Events))
  <2>1. CASE w \in Orders
    BY <1>1, <2>1, IdleMoves
  <2>2. CASE w \notin Orders
    <3> DEFINE y == [pc |-> "answer"]
    <3>1. y \in States /\ y.pc = "answer"
      BY DEF States, Plain
    <3> QED
      BY <1>1, <2>2, <3>1, Changes DEF Workers
  <2> QED
    BY <2>1, <2>2
<1>7. TypeOK'
  BY <1>1, <1>5, <1>6 DEF TypeOK, made, Goes, States, RowStates
<1>8. Grows(w)
  BY <1>1, <1>3, <1>5 DEF Grows, made, Raised
<1>9. SessionsSound'
  BY <1>1, <1>8 DEF SessionsSound, Grows
<1>10. FinalSound'
  BY <1>1, <1>4, <1>5 DEF FinalSound, Linked, made
<1>11. WorkerSound(w)'
  <2>1. CASE x.pc = "idle"
    BY <1>6, <2>1, IdleSound DEF Goes
  <2>2. CASE x.pc = "answer" /\ w \in Events
    <3>1. /\ w \notin Orders /\ w.order = o /\ w \in deduped' /\ Raised(w)'
      BY <1>1, <1>2, <2>2, Apart, FinalizerKind DEF Raised
    <3> QED
      BY <1>5, <1>6, <2>2, <3>1 DEF WorkerSound, EventSound, FinalizerSound, Finalizing, Goes
  <2> QED
    BY <1>6, <2>1, <2>2
<1>12. Places'
  BY <1>6, <1>8, <1>11, MoverSound
<1>13. CreditsSound' /\ Counted'
  BY <1>1, <1>6, Quiet DEF Paid
<1> QED
  BY <1>7, <1>9, <1>10, <1>12, <1>13

-----------------------------------------------------------------------------
(* The theorems.                                                           *)

LEMMA InitSound ==
  ASSUME Init
  PROVE  IInv
<1> DEFINE asked == [pc |-> "asked"]
<1>1. /\ \A w \in Workers : at[w] = IF w \in Orders THEN asked ELSE Idle
      /\ asked \in Plain /\ Idle \in Plain /\ asked.pc = "asked" /\ Idle.pc = "idle"
  BY DEF Init, Plain, Idle
<1> HIDE DEF asked
<1>2. at \in [Workers -> Plain \cup Crediting \cup Using \cup Searching \cup Building]
  <2>1. at = [w \in Workers |-> IF w \in Orders THEN asked ELSE Idle]
    BY DEF Init, asked
  <2> QED
    BY <1>1, <2>1
<1>3. roles = <<>> /\ DOMAIN roles = {}
  BY DEF Init
<1>4. TypeOK
  <2>1. roles \in Seq([order : Orders \cup {None}, credit : Credits \cup {None}])
    BY <1>3
  <2>2. credit \in [Credits -> [status : {"unused", "voided", "claimed", "used"}, role : Nat]]
    BY DEF Init
  <2>3. /\ plan \in [Orders -> {"per_role", "usage"}]
        /\ row \in [Orders -> {"none", "pending", "paid", "finalizing", "finalized", "failed"}]
        /\ final \in [Orders -> Nat]
        /\ documented = {} /\ unheard = {} /\ deduped = {}
        /\ session \in [Orders -> [Sessions -> {"none", "open", "paid", "waiting", "paid_late", "declined"}]]
    BY DEF Init
  <2> QED
    BY <1>2, <2>1, <2>2, <2>3 DEF TypeOK
<1>5. \A o \in Orders :
        /\ row[o] = "none" /\ final[o] = 0 /\ Linked(o) = {}
        /\ \A s \in Sessions : session[o][s] = "none"
        /\ at[o] = asked
  BY <1>1, <1>3, Apart DEF Init, Linked
<1>6. SessionsSound /\ FinalSound
  BY <1>5 DEF SessionsSound, FinalSound
<1>7. Places
  <2> SUFFICES ASSUME NEW w \in Workers PROVE WorkerSound(w)
    BY DEF Places
  <2>1. w \in Orders => RequestSound(w)
    BY <1>1, <1>5 DEF RequestSound, Finalizing
  <2>2. w \in Events => EventSound(w)
    BY <1>1, Apart DEF EventSound, Finalizing
  <2>3. FinalizerSound(w)
    BY <1>1 DEF FinalizerSound
  <2> QED
    BY <2>1, <2>2, <2>3 DEF WorkerSound
<1>8. CreditsSound
  <2>1. \A c \in Credits : Answered(c) = {} /\ credit[c].status \in {"unused", "voided"}
    BY <1>3 DEF Answered, Init
  <2>2. \A o \in Orders, c \in Credits : ~Holds(o, c)
    BY <1>1, <1>5 DEF Holds
  <2> QED
    BY <2>1, <2>2 DEF CreditsSound
<1>9. Counted
  <2> SUFFICES ASSUME NEW o \in Orders
               PROVE  IF plan[o] = "usage"
                      THEN Cardinality(Linked(o)) + (IF at[o].pc = "create_role" THEN 1 ELSE 0) <= 1
                      ELSE Cardinality(Linked(o)) + Cardinality(Creating(o)) <= Cardinality(Paid(o))
    BY DEF Counted
  <2>1. Cardinality(Linked(o)) = 0
    BY <1>5, FS_EmptySet
  <2>2. Creating(o) = {}
    <3> SUFFICES ASSUME NEW s \in Sessions PROVE at[Settled(o, s)].pc # "create_role"
      BY DEF Creating
    <3>1. Settled(o, s) \in Workers
      BY DEF Settled, Workers, Events
    <3> QED
      BY <1>1, <3>1
  <2>3. Cardinality(Creating(o)) = 0 /\ Cardinality(Paid(o)) \in Nat
    BY <2>2, FS_EmptySet, SessionsFinite, FS_CardinalityType
  <2> QED
    BY <1>1, <1>5, <2>1, <2>3
<1> QED
  BY <1>4, <1>6, <1>7, <1>8, <1>9 DEF IInv

LEMMA StutterSound ==
  ASSUME IInv, UNCHANGED vars
  PROVE  IInv'
<1> USE DEF IInv, vars, purchase, made
<1>1. TypeOK' /\ SessionsSound' /\ FinalSound'
  BY DEF TypeOK, SessionsSound, FinalSound, Linked
<1>2. Places'
  BY DEF Places, WorkerSound, RequestSound, EventSound, FinalizerSound, Finalizing, Raised, Linked, OrderOf
<1>3. CreditsSound'
  BY DEF CreditsSound, Answered, Holds
<1>4. Counted'
  BY DEF Counted, Linked, Creating, Paid
<1> QED
  BY <1>1, <1>2, <1>3, <1>4

LEMMA NextSound ==
  ASSUME IInv, [Next]_vars
  PROVE  IInv'
<1>1. ASSUME NEW o \in Orders, RequestStep(o) PROVE IInv'
  BY <1>1, RequestMoves, RequestRowSteps, CheckoutSteps, ClaimCreditStep, CreateCreditStep, SettleCreditStep
     DEF RequestStep
<1>2. ASSUME NEW e \in Events, EventStep(e) PROVE IInv'
  BY <1>2, EventMoves, EventRowSteps DEF EventStep
<1>3. ASSUME NEW w \in Workers, FinalizerStep(w) PROVE IInv'
  BY <1>3, LookUpStep, CreateRoleStep, CreateUnheardStep, EnrichStep, FinalizeStep DEF FinalizerStep
<1>4. ASSUME NEW o \in Orders, NEW s \in Sessions, CustomerStep(o, s) PROVE IInv'
  BY <1>4, CheckoutSteps
<1> QED
  BY <1>1, <1>2, <1>3, <1>4, StutterSound DEF Next

LEMMA Invariance == Spec => []IInv
<1>1. Init => IInv
  BY InitSound
<1>2. IInv /\ [Next]_vars => IInv'
  BY NextSound
<1> QED
  BY <1>1, <1>2, PTL DEF Spec

\* Every variable keeps its type, for any orders, credits and sessions.
THEOREM TypeCorrect == Spec => []TypeOK
<1>1. IInv => TypeOK
  BY DEF IInv
<1> QED
  BY <1>1, Invariance, PTL

\* A purchase has no more roles than settled payments
\* (finalizePendingRolePurchase), however its handlers overlap.
THEOREM RolesArePaidFor == Spec => []RolesWithinPayments
<1>1. IInv => RolesWithinPayments
  <2> SUFFICES ASSUME IInv, NEW o \in Orders
               PROVE  Cardinality(Linked(o)) <= IF plan[o] = "usage" THEN 1 ELSE Cardinality(Paid(o))
    BY DEF RolesWithinPayments
  <2>1. Cardinality(Linked(o)) \in Nat
    BY LinkedFinite, FS_CardinalityType DEF IInv
  <2>2. Cardinality(Creating(o)) \in Nat /\ Cardinality(Paid(o)) \in Nat
    BY SessionsFinite, FS_CardinalityType
  <2> QED
    BY <2>1, <2>2 DEF IInv, Counted
<1> QED
  BY <1>1, Invariance, PTL

\* A settled payment that is answered has its role, linked, with its job
\* description and its document (the webhook's role purchase branch), or met a
\* purchase that had failed; nothing is said of the role's rubric.
THEOREM AnsweredHasRole == Spec => []SettledAnswerHasRole
<1>1. IInv => SettledAnswerHasRole
  <2> SUFFICES ASSUME IInv, NEW e \in Events, e.kind = "settled", at[e].pc = "answer"
               PROVE  \/ row[e.order] = "failed"
                      \/ row[e.order] = "finalized" /\ final[e.order] \in Linked(e.order) \cap documented
    BY DEF SettledAnswerHasRole, At
  <2>1. e \in Workers /\ e.order \in Orders
    BY Apart
  <2>2. row[e.order] \in {"finalized", "failed"}
    BY <2>1 DEF IInv, Places, WorkerSound, EventSound
  <2> QED
    BY <2>1, <2>2 DEF IInv, FinalSound
<1> QED
  BY <1>1, Invariance, PTL

\* A prepaid credit buys one role (claim_first_role_prepay_credit and what
\* follows it), whichever of the steps after the claim fails.
THEOREM OneRolePerCredit == Spec => []CreditBuysOneRole
<1>1. IInv => CreditBuysOneRole
  <2> SUFFICES ASSUME IInv, NEW c \in Credits
               PROVE  /\ Cardinality(Answered(c)) <= 1
                      /\ credit[c].status = "unused" => Answered(c) = {}
                      /\ credit[c].status = "used" => Answered(c) = {credit[c].role}
    BY DEF CreditBuysOneRole, Answered
  <2>1. credit[c].status \in {"unused", "voided", "claimed", "used"}
    BY DEF IInv, TypeOK
  <2>2. Answered(c) = {} \/ \E i : Answered(c) = {i}
    BY <2>1 DEF IInv, CreditsSound
  <2>3. Cardinality(Answered(c)) <= 1
    <3>1. Cardinality(Answered(c)) = 0 \/ Cardinality(Answered(c)) = 1
      BY <2>2, FS_EmptySet, FS_Singleton, Zenon
    <3> QED
      BY <3>1
  <2> QED
    BY <2>3 DEF IInv, CreditsSound
<1> QED
  BY <1>1, Invariance, PTL
=============================================================================
