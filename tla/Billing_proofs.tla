--------------------------- MODULE Billing_proofs ---------------------------
(***************************************************************************)
(* Proofs about the two modules of a client's billing, for any values of   *)
(* their constants.                                                        *)
(*                                                                         *)
(* UsageInvoicing: an invoice reserves once, when it has no row yet, so    *)
(* the price groups of its rows never change; and the rows of a group are  *)
(* stamped together, so what a retry still finds unstamped are whole       *)
(* groups of the invoice, the ones its items name.                         *)
(*                                                                         *)
(* InterviewCredits: no balance is stored, and the history of payers is a  *)
(* recursive function of the interviews and the credits.  A step changes   *)
(* these only at times that no used interview has completed after; what    *)
(* holds of the replay is shown from one time to the next, a least time    *)
(* at which it failed being the successor of one at which it held.         *)
(***************************************************************************)
EXTENDS UsageInvoicing, InterviewCredits, FiniteSetTheorems, WellFoundedInduction, TLAPS

-----------------------------------------------------------------------------
(* Price groups.                                                           *)

\* A price group of S is what one role has in S: every member of it is the
\* member that names it.
LEMMA GroupOfMember ==
    ASSUME NEW S, NEW g \in Groups(S), NEW i \in g
    PROVE  i \in S /\ g = {j \in S : roleOf[j] = roleOf[i]}
BY DEF Groups

LEMMA MemberHasGroup ==
    ASSUME NEW S, NEW i \in S
    PROVE  {j \in S : roleOf[j] = roleOf[i]} \in Groups(S)
BY DEF Groups

LEMMA GroupNotEmpty ==
    ASSUME NEW S, NEW g \in Groups(S)
    PROVE  g # {} /\ g \subseteq S
BY DEF Groups

\* Two price groups that share an interview are the same.
LEMMA GroupsDisjoint ==
    ASSUME NEW S, NEW g \in Groups(S), NEW h \in Groups(S), NEW i \in g \cap h
    PROVE  g = h
<1>1. g = {j \in S : roleOf[j] = roleOf[i]}
  BY GroupOfMember
<1>2. h = {j \in S : roleOf[j] = roleOf[i]}
  BY GroupOfMember
<1> QED
  BY <1>1, <1>2

\* A group of a part that keeps whole roles together is a group of the whole.
LEMMA GroupsOfPart ==
    ASSUME NEW S, NEW T \in SUBSET S,
           \A i \in T, j \in S : roleOf[j] = roleOf[i] => j \in T
    PROVE  Groups(T) \subseteq Groups(S)
<1> SUFFICES ASSUME NEW g \in Groups(T) PROVE g \in Groups(S)
  OBVIOUS
<1>1. PICK i \in g : TRUE
  BY GroupNotEmpty
<1>2. i \in T /\ g = {j \in T : roleOf[j] = roleOf[i]}
  BY <1>1, GroupOfMember
<1>3. g = {j \in S : roleOf[j] = roleOf[i]}
  BY <1>2
<1> QED
  BY <1>2, <1>3, MemberHasGroup

-----------------------------------------------------------------------------
(* The inductive invariant.                                                *)

\* An item on an invoice is for a price group of the rows reserved there.
ItemsWhole ==
    \A x \in ItemIds : itemOn[x] # None => itemFor[x] \in Groups(Rows(itemOn[x]))

\* What is stamped is reserved, and a price group is stamped as a whole.
StampedWhole ==
    \A i \in stamped :
        /\ ledger[i] # None
        /\ \A j \in Interviews : ledger[j] = ledger[i] /\ roleOf[j] = roleOf[i] => j \in stamped

\* A worker reserves on an invoice without rows, bills price groups of its
\* rows, and stamps one that has its item.
WorkerSound(v) ==
    /\ pc[v] = "reserve" => Rows(v) = {}
    /\ pc[v] \in {"bill", "stamp"} => lines[v] \subseteq Groups(Rows(v))
    /\ pc[v] = "stamp" => group[v] \in Groups(Rows(v)) /\ ItemsOf(v, group[v]) # {}

WorkersSound == \A v \in Invoices : WorkerSound(v)

IInv == TypeOK /\ ItemsWhole /\ StampedWhole /\ WorkersSound /\ NoDoubleCharge /\ StampedMeansCharged

-----------------------------------------------------------------------------
(* Types.                                                                  *)

LEMMA RowTypes ==
    ASSUME NEW v
    PROVE  Rows(v) \subseteq Interviews /\ Unstamped(v) \subseteq Interviews
BY DEF Rows, Unstamped

LEMMA GroupTypes ==
    ASSUME NEW S \in SUBSET Interviews
    PROVE  Groups(S) \subseteq SUBSET Interviews
BY DEF Groups

LEMMA InitTypes == Init => TypeOK
BY AssignmentsType, LastMonthIsNat DEF Init, TypeOK, Months, NoMonth, InvoiceStatuses

LEMMA WorldTypes == TypeOK /\ World => TypeOK'
<1> SUFFICES ASSUME TypeOK, World PROVE TypeOK'
  OBVIOUS
<1> USE LastMonthIsNat DEF TypeOK, Months, NoMonth, InvoiceStatuses, Invoices, clock, rows, stripe, hook, work
<1>1. CASE MonthEnds
  BY <1>1 DEF MonthEnds
<1>2. ASSUME NEW i \in Interviews, Complete(i) PROVE TypeOK'
  BY <1>2 DEF Complete
<1>3. ASSUME NEW c \in Cycles, CycleOpens(c) PROVE TypeOK'
  BY <1>3 DEF CycleOpens
<1>4. ASSUME NEW c \in Cycles, CycleFinalizes(c) PROVE TypeOK'
  BY <1>4 DEF CycleFinalizes
<1> QED
  BY <1>1, <1>2, <1>3, <1>4 DEF World

LEMMA MishapTypes == TypeOK /\ Mishap => TypeOK'
<1> SUFFICES ASSUME TypeOK, NEW v \in Invoices, CallFails(v) \/ Crash(v) PROVE TypeOK'
  BY DEF Mishap
<1> USE DEF TypeOK, clock, rows, stripe, hook, work, Stops, Forgets, Ended
<1>1. CASE CallFails(v)
  BY <1>1 DEF CallFails, Throws
<1>2. CASE Crash(v)
  BY <1>2 DEF Crash
<1> QED
  BY <1>1, <1>2

LEMMA DoorTypes ==
    ASSUME TypeOK,
           \/ \E c \in Cycles : Deliver(c) \/ DeliverAgain(c)
           \/ \E k \in Runs : StartRun(k) \/ CreateInvoice(k) \/ Finalize(k) \/ Discard(k)
    PROVE  TypeOK'
<1> USE DEF TypeOK, Invoices, InvoiceStatuses, clock, rows, stripe, hook, work
<1>1. ASSUME NEW c \in Cycles, Deliver(c) PROVE TypeOK'
  BY <1>1 DEF Deliver
<1>2. ASSUME NEW c \in Cycles, DeliverAgain(c) PROVE TypeOK'
  BY <1>2 DEF DeliverAgain
<1>3. ASSUME NEW k \in Runs, StartRun(k) PROVE TypeOK'
  BY <1>3 DEF StartRun
<1>4. ASSUME NEW k \in Runs, CreateInvoice(k) PROVE TypeOK'
  BY <1>4 DEF CreateInvoice
<1>5. ASSUME NEW k \in Runs, Finalize(k) PROVE TypeOK'
  BY <1>5 DEF Finalize
<1>6. ASSUME NEW k \in Runs, Discard(k) PROVE TypeOK'
  BY <1>6 DEF Discard
<1> QED
  BY <1>1, <1>2, <1>3, <1>4, <1>5, <1>6

LEMMA ApplyTypes ==
    ASSUME TypeOK, NEW v \in Invoices, Apply(v)
    PROVE  TypeOK'
<1> USE DEF TypeOK, clock, rows, stripe, hook, work, Forgets
<1>1. CASE NothingToApply(v)
  BY <1>1 DEF NothingToApply, NotApplied
<1>2. CASE Resume(v)
  <2>1. Groups(Unstamped(v)) \subseteq SUBSET Interviews
    BY RowTypes, GroupTypes
  <2> QED
    BY <1>2, <2>1 DEF Resume
<1>3. CASE ComputeUsage(v)
  <2>1. Billable(v) \subseteq Interviews
    BY DEF Billable
  <2> QED
    BY <1>3, <2>1 DEF ComputeUsage
<1>4. CASE ReserveRows(v)
  <2> DEFINE got == {i \in want[v] : ledger[i] = None}
  <2>1. got \subseteq Interviews
    OBVIOUS
  <2>2. Groups(got) \subseteq SUBSET Interviews
    BY <2>1, GroupTypes
  <2> QED
    BY <1>4, <2>1, <2>2 DEF ReserveRows, LinesFor
<1>5. CASE AlreadyReserved(v)
  BY <1>5 DEF AlreadyReserved, NotApplied
<1>6. ASSUME NEW g \in SUBSET Interviews, FindItem(v, g) PROVE TypeOK'
  BY <1>6 DEF FindItem, HasItem, MayBill
<1>7. ASSUME NEW g \in SUBSET Interviews, CreateItem(v, g) PROVE TypeOK'
  BY <1>7 DEF CreateItem, HasItem, MayBill, ItemCreated
<1>8. CASE ItemRefused(v)
  BY <1>8 DEF ItemRefused, Throws, Stops, Ended
<1>9. CASE StampRows(v)
  BY <1>9 DEF StampRows, PaidFor
<1>10. CASE Applied(v)
  BY <1>10 DEF Applied
<1> QED
  BY <1>1, <1>2, <1>3, <1>4, <1>5, <1>6, <1>7, <1>8, <1>9, <1>10 DEF Apply

LEMMA StepTypes == TypeOK /\ [Next]_vars => TypeOK'
<1> SUFFICES ASSUME TypeOK, [Next]_vars PROVE TypeOK'
  OBVIOUS
<1>1. CASE UNCHANGED vars
  BY <1>1 DEF TypeOK, vars, clock, rows, stripe, hook, work
<1>2. CASE World
  BY <1>2, WorldTypes
<1>3. CASE Mishap
  BY <1>3, MishapTypes
<1>4. CASE Work
  BY <1>4, ApplyTypes, DoorTypes DEF Work
<1> QED
  BY <1>1, <1>2, <1>3, <1>4 DEF Next

-----------------------------------------------------------------------------
(* Steps that touch neither rows nor items.                                *)

Calm == UNCHANGED <<roleOf, ledger, stamped, itemOn, itemFor>>

Same(v) == pc'[v] = pc[v] /\ lines'[v] = lines[v] /\ group'[v] = group[v]

\* The facts of the invariant that are about the two stores.
Stores == ItemsWhole /\ StampedWhole /\ NoDoubleCharge /\ StampedMeansCharged

LEMMA RowsKept ==
    ASSUME UNCHANGED <<roleOf, ledger>>, NEW v
    PROVE  Rows(v)' = Rows(v) /\ Groups(Rows(v))' = Groups(Rows(v))
BY DEF Rows, Groups

LEMMA StoresKept == Stores /\ Calm => Stores'
<1> SUFFICES ASSUME Stores, Calm PROVE Stores'
  OBVIOUS
<1>1. ItemsWhole'
  BY RowsKept DEF Stores, Calm, ItemsWhole, Rows, Groups
<1> QED
  BY <1>1 DEF Stores, Calm, StampedWhole, NoDoubleCharge, StampedMeansCharged

LEMMA WorkerKept ==
    ASSUME Calm, NEW v \in Invoices, Same(v), WorkerSound(v)
    PROVE  WorkerSound(v)'
<1>1. Rows(v)' = Rows(v) /\ Groups(Rows(v))' = Groups(Rows(v))
  BY RowsKept DEF Calm
<1>2. ItemsOf(v, group[v])' = ItemsOf(v, group[v])
  BY DEF ItemsOf, Calm, Same
<1> QED
  BY <1>1, <1>2 DEF WorkerSound, Same

LEMMA CalmStep ==
    ASSUME Stores, WorkersSound, Calm, \A v \in Invoices : Same(v) \/ WorkerSound(v)'
    PROVE  Stores' /\ WorkersSound'
<1>1. Stores'
  BY StoresKept
<1>2. ASSUME NEW v \in Invoices PROVE WorkerSound(v)'
  BY WorkerKept DEF WorkersSound
<1> QED
  BY <1>1, <1>2 DEF WorkersSound, Invoices

\* A worker that neither reserves, bills nor stamps owes nothing.
LEMMA NotBilling ==
    ASSUME NEW v, pc'[v] \notin {"reserve", "bill", "stamp"}
    PROVE  WorkerSound(v)'
BY DEF WorkerSound

LEMMA WorldSound ==
    ASSUME Stores, WorkersSound, World
    PROVE  Stores' /\ WorkersSound'
<1>1. Calm /\ \A v \in Invoices : Same(v)
  BY DEF World, MonthEnds, Complete, CycleOpens, CycleFinalizes, Calm, Same, clock, rows, stripe, work
<1> QED
  BY <1>1, CalmStep

LEMMA StopsSound ==
    ASSUME TypeOK, Stores, WorkersSound, NEW v \in Invoices, NEW s \in {"idle", "done", "dead"}, Stops(v, s)
    PROVE  Stores' /\ WorkersSound'
<1>1. Calm
  BY DEF Stops, Calm, clock, rows, stripe
<1>2. \A w \in Invoices : Same(w) \/ pc'[w] \notin {"reserve", "bill", "stamp"}
  BY DEF Stops, Forgets, Same, TypeOK
<1> QED
  BY <1>1, <1>2, CalmStep, NotBilling

LEMMA DoorSound ==
    ASSUME TypeOK, Stores, WorkersSound,
           \/ \E c \in Cycles : Deliver(c) \/ DeliverAgain(c)
           \/ \E k \in Runs : StartRun(k) \/ CreateInvoice(k) \/ Finalize(k) \/ Discard(k)
    PROVE  Stores' /\ WorkersSound'
<1>1. Calm
  BY DEF Deliver, DeliverAgain, StartRun, CreateInvoice, Finalize, Discard, Calm, clock, rows, stripe
<1>2. \A w \in Invoices : Same(w) \/ pc'[w] \notin {"reserve", "bill", "stamp"}
  <2>1. ASSUME NEW c \in Cycles, Deliver(c) \/ DeliverAgain(c)
        PROVE  \A w \in Invoices : Same(w) \/ pc'[w] \notin {"reserve", "bill", "stamp"}
    BY <2>1 DEF Deliver, DeliverAgain, Same, TypeOK, work, Invoices
  <2>2. ASSUME NEW k \in Runs, StartRun(k) \/ CreateInvoice(k) \/ Finalize(k) \/ Discard(k)
        PROVE  \A w \in Invoices : Same(w) \/ pc'[w] \notin {"reserve", "bill", "stamp"}
    BY <2>2 DEF StartRun, CreateInvoice, Finalize, Discard, Same, TypeOK, work, Invoices
  <2> QED
    BY <2>1, <2>2
<1> QED
  BY <1>1, <1>2, CalmStep, NotBilling

-----------------------------------------------------------------------------
(* applyUsageToInvoice.                                                    *)

\* Of the worker's steps, these end it or find nothing to do.
LEMMA EndsSound ==
    ASSUME TypeOK, Stores, WorkersSound, NEW v \in Invoices,
           NothingToApply(v) \/ AlreadyReserved(v) \/ Applied(v)
    PROVE  Stores' /\ WorkersSound'
<1>1. Calm
  BY DEF NothingToApply, AlreadyReserved, Applied, Calm, clock, rows, stripe
<1>2. \A w \in Invoices : Same(w) \/ pc'[w] \notin {"reserve", "bill", "stamp"}
  BY DEF NothingToApply, AlreadyReserved, Applied, NotApplied, Forgets, Same, TypeOK
<1> QED
  BY <1>1, <1>2, CalmStep, NotBilling

\* What a retry finds unstamped are whole price groups.
LEMMA UnstampedGroups ==
    ASSUME TypeOK, StampedWhole, NEW v \in Invoices
    PROVE  Groups(Unstamped(v)) \subseteq Groups(Rows(v))
<1>1. Unstamped(v) \in SUBSET Rows(v)
  BY DEF Unstamped
<1>2. \A i \in Unstamped(v), j \in Rows(v) : roleOf[j] = roleOf[i] => j \in Unstamped(v)
  BY DEF Unstamped, Rows, StampedWhole, TypeOK
<1> QED
  BY <1>1, <1>2, GroupsOfPart

LEMMA ResumeSound ==
    ASSUME TypeOK, Stores, WorkersSound, NEW v \in Invoices, Resume(v)
    PROVE  Stores' /\ WorkersSound'
<1>1. Calm
  BY DEF Resume, Calm, clock, rows, stripe
<1>2. \A w \in Invoices \ {v} : Same(w)
  BY DEF Resume, Same, TypeOK
<1>3. pc'[v] = "bill" /\ lines'[v] = Groups(Unstamped(v))
  BY DEF Resume, TypeOK
<1>4. lines'[v] \subseteq Groups(Rows(v))'
  BY <1>1, <1>3, UnstampedGroups, RowsKept DEF Calm, Stores
<1>5. WorkerSound(v)'
  BY <1>3, <1>4 DEF WorkerSound
<1> QED
  BY <1>1, <1>2, <1>5, CalmStep

LEMMA ComputeUsageSound ==
    ASSUME TypeOK, Stores, WorkersSound, NEW v \in Invoices, ComputeUsage(v)
    PROVE  Stores' /\ WorkersSound'
<1>1. Calm
  BY DEF ComputeUsage, Calm, clock, rows, stripe
<1>2. \A w \in Invoices \ {v} : Same(w)
  BY DEF ComputeUsage, Same, TypeOK
<1>3. pc'[v] = "reserve" /\ Rows(v)' = {}
  BY <1>1, RowsKept DEF ComputeUsage, TypeOK, Calm
<1>4. WorkerSound(v)'
  BY <1>3 DEF WorkerSound
<1> QED
  BY <1>1, <1>2, <1>4, CalmStep

LEMMA FindItemSound ==
    ASSUME TypeOK, Stores, WorkersSound, NEW v \in Invoices, NEW g \in SUBSET Interviews, FindItem(v, g)
    PROVE  Stores' /\ WorkersSound'
<1>1. Calm
  BY DEF FindItem, Calm, clock, rows, stripe
<1>2. \A w \in Invoices \ {v} : Same(w)
  BY DEF FindItem, HasItem, Same, TypeOK
<1>3. pc'[v] = "stamp" /\ lines'[v] = lines[v] \ {g} /\ group'[v] = g
  BY DEF FindItem, HasItem, TypeOK
<1>4. lines[v] \subseteq Groups(Rows(v)) /\ g \in lines[v]
  BY DEF FindItem, MayBill, WorkersSound, WorkerSound
<1>5. Groups(Rows(v))' = Groups(Rows(v)) /\ ItemsOf(v, group[v])' = ItemsOf(v, g)
  BY <1>1, <1>3, RowsKept DEF Calm, ItemsOf
<1>6. WorkerSound(v)'
  BY <1>3, <1>4, <1>5 DEF WorkerSound, FindItem
<1> QED
  BY <1>1, <1>2, <1>6, CalmStep

LEMMA ReserveRowsSound ==
    ASSUME TypeOK, Stores, WorkersSound, NEW v \in Invoices, ReserveRows(v)
    PROVE  Stores' /\ WorkersSound'
<1> DEFINE got == {i \in want[v] : ledger[i] = None}
<1> USE DEF Stores
<1>1. Rows(v) = {} /\ got \subseteq Interviews
  BY DEF ReserveRows, WorkersSound, WorkerSound, TypeOK
<1>2. /\ ledger' = [i \in Interviews |-> IF i \in got THEN v ELSE ledger[i]]
      /\ UNCHANGED <<roleOf, stamped, itemOn, itemFor, group>>
      /\ pc' = [pc EXCEPT ![v] = "bill"] /\ lines' = [lines EXCEPT ![v] = Groups(got)]
  BY DEF ReserveRows, LinesFor, clock, stripe
<1>3. Rows(v)' = got
  BY <1>1, <1>2 DEF Rows, TypeOK
<1>4. ASSUME NEW w \in Invoices \ {v}
      PROVE  Rows(w)' = Rows(w) /\ Groups(Rows(w))' = Groups(Rows(w))
  <2>1. Rows(w)' = Rows(w)
    BY <1>2, Distinct DEF Rows, Invoices, TypeOK
  <2> QED
    BY <1>2, <2>1 DEF Groups
<1>5. ItemsWhole'
  <2>1. \A x \in ItemIds : itemOn[x] # v
    BY <1>1, Distinct DEF ItemsWhole, Groups, Invoices
  <2> QED
    BY <1>2, <1>4, <2>1 DEF ItemsWhole, TypeOK
<1>6. \A i \in stamped : ledger'[i] = ledger[i] /\ ledger[i] # v /\ ledger[i] # None
  BY <1>1, <1>2 DEF StampedWhole, TypeOK, Rows
<1>7. StampedWhole'
  BY <1>2, <1>6 DEF StampedWhole, TypeOK
<1>8. NoDoubleCharge' /\ StampedMeansCharged'
  BY <1>2, <1>6 DEF NoDoubleCharge, StampedMeansCharged
<1>9. WorkerSound(v)'
  <2>1. pc'[v] = "bill" /\ lines'[v] = Groups(got) /\ Groups(Rows(v))' = Groups(got)
    BY <1>2, <1>3 DEF TypeOK, Groups
  <2> QED
    BY <2>1 DEF WorkerSound
<1>10. ASSUME NEW w \in Invoices \ {v} PROVE WorkerSound(w)'
  <2>1. Same(w) /\ ItemsOf(w, group[w])' = ItemsOf(w, group[w])
    BY <1>2 DEF Same, ItemsOf, TypeOK
  <2> QED
    BY <1>4, <2>1 DEF WorkersSound, WorkerSound, Same
<1>11. WorkersSound'
  BY <1>9, <1>10 DEF WorkersSound, Invoices
<1> QED
  BY <1>5, <1>7, <1>8, <1>11

\* The interviews of a line without an item of its own are on no item at all:
\* one that shared an interview with it would be on the same invoice, for the
\* same price group.
LEMMA NotYetCharged ==
    ASSUME TypeOK, Stores, WorkersSound, NEW v \in Invoices, NEW g, MayBill(v, g), ItemsOf(v, g) = {}
    PROVE  /\ g \in Groups(Rows(v))
           /\ \A i \in g : /\ i \in Interviews /\ ledger[i] = v
                           /\ \A y \in ItemIds : itemOn[y] # None => i \notin itemFor[y]
<1>1. g \in Groups(Rows(v))
  BY DEF MayBill, WorkersSound, WorkerSound
<1>2. \A i \in g : i \in Interviews /\ ledger[i] = v
  BY <1>1, GroupNotEmpty DEF Rows
<1>3. ASSUME NEW i \in g, NEW y \in ItemIds, itemOn[y] # None, i \in itemFor[y] PROVE FALSE
  <2>1. itemFor[y] \in Groups(Rows(itemOn[y]))
    BY <1>3 DEF Stores, ItemsWhole
  <2>2. itemOn[y] = v
    BY <1>2, <1>3, <2>1, GroupNotEmpty DEF Rows
  <2>3. itemFor[y] = g
    BY <1>1, <1>3, <2>1, <2>2, GroupsDisjoint
  <2> QED
    BY <2>2, <2>3 DEF ItemsOf
<1> QED
  BY <1>1, <1>2, <1>3

LEMMA CreateItemSound ==
    ASSUME TypeOK, Stores, WorkersSound, NEW v \in Invoices, NEW g \in SUBSET Interviews, CreateItem(v, g)
    PROVE  Stores' /\ WorkersSound'
<1> USE DEF Stores
<1>1. PICK x \in ItemIds :
          /\ itemOn[x] = None
          /\ itemOn' = [itemOn EXCEPT ![x] = v] /\ itemFor' = [itemFor EXCEPT ![x] = g]
  BY DEF CreateItem, ItemCreated
<1>2. UNCHANGED <<roleOf, ledger, stamped>>
  BY DEF CreateItem, clock, rows
<1>3. /\ pc'[v] = "stamp" /\ lines'[v] = lines[v] \ {g} /\ group'[v] = g
      /\ \A w \in Invoices \ {v} : Same(w)
  BY DEF CreateItem, HasItem, Same, TypeOK
<1>4. /\ itemOn'[x] = v /\ itemFor'[x] = g
      /\ \A y \in ItemIds \ {x} : itemOn'[y] = itemOn[y] /\ itemFor'[y] = itemFor[y]
  BY <1>1 DEF TypeOK
<1>5. \A w : Rows(w)' = Rows(w) /\ Groups(Rows(w))' = Groups(Rows(w))
  BY <1>2 DEF Rows, Groups
<1>6. /\ g \in Groups(Rows(v)) /\ lines[v] \subseteq Groups(Rows(v))
      /\ \A i \in g, y \in ItemIds : itemOn[y] # None => i \notin itemFor[y]
  BY NotYetCharged DEF CreateItem, MayBill, WorkersSound, WorkerSound
<1>7. ItemsWhole'
  <2>1. itemOn'[x] = v /\ itemFor'[x] \in Groups(Rows(v))
    BY <1>4, <1>6
  <2>2. \A y \in ItemIds \ {x} :
          itemOn'[y] = itemOn[y] /\ (itemOn[y] # None => itemFor'[y] \in Groups(Rows(itemOn[y])))
    BY <1>4 DEF ItemsWhole
  <2>3. \A y \in ItemIds : itemOn'[y] # None =>
          \E w \in {itemOn'[y]} : itemFor'[y] \in Groups(Rows(w))
    BY <2>1, <2>2
  <2> HIDE DEF Stores
  <2> QED
    BY <1>2, <2>3 DEF ItemsWhole, Rows, Groups
<1>8. NoDoubleCharge'
  BY <1>4, <1>6 DEF NoDoubleCharge
<1>9. StampedWhole'
  BY <1>2 DEF StampedWhole
<1>10. StampedMeansCharged'
  BY <1>1, <1>2, <1>4 DEF StampedMeansCharged
<1>11. WorkerSound(v)'
  <2>1. x \in ItemsOf(v, group[v])'
    BY <1>3, <1>4 DEF ItemsOf
  <2> QED
    BY <1>3, <1>5, <1>6, <2>1 DEF WorkerSound
<1>12. ASSUME NEW w \in Invoices \ {v} PROVE WorkerSound(w)'
  <2>1. Same(w)
    BY <1>3
  <2>2. pc[w] = "stamp" => ItemsOf(w, group[w])' # {}
    <3>1. SUFFICES ASSUME pc[w] = "stamp" PROVE ItemsOf(w, group[w])' # {}
      OBVIOUS
    <3>2. PICK y \in ItemIds : itemOn[y] = w /\ itemFor[y] = group[w]
      BY <3>1 DEF WorkersSound, WorkerSound, ItemsOf
    <3>3. y # x
      BY <1>1, <3>2, Distinct DEF Invoices
    <3> QED
      BY <1>4, <2>1, <3>2, <3>3 DEF ItemsOf, Same
  <2> QED
    BY <1>5, <2>1, <2>2 DEF WorkersSound, WorkerSound, Same
<1>13. WorkersSound'
  BY <1>11, <1>12 DEF WorkersSound, Invoices
<1> QED
  BY <1>7, <1>8, <1>9, <1>10, <1>13

LEMMA StampRowsSound ==
    ASSUME TypeOK, Stores, WorkersSound, NEW v \in Invoices, StampRows(v)
    PROVE  Stores' /\ WorkersSound'
<1> USE DEF Stores
<1>1. UNCHANGED <<roleOf, ledger, itemOn, itemFor, lines>> /\ stamped' = stamped \cup PaidFor(v)
  BY DEF StampRows, clock, stripe
<1>2. /\ group[v] \in Groups(Rows(v)) /\ ItemsOf(v, group[v]) # {}
      /\ lines[v] \subseteq Groups(Rows(v))
  BY DEF StampRows, WorkersSound, WorkerSound
<1>3. PaidFor(v) = group[v] /\ \A i \in group[v] : ledger[i] = v /\ v # None
  BY <1>2, GroupNotEmpty, Distinct DEF PaidFor, Rows, Invoices
<1>4. \A w : Rows(w)' = Rows(w) /\ Groups(Rows(w))' = Groups(Rows(w))
  BY <1>1 DEF Rows, Groups
<1>5. ItemsWhole' /\ NoDoubleCharge'
  BY <1>1 DEF ItemsWhole, NoDoubleCharge, Rows, Groups
<1>6. ASSUME NEW i \in group[v], NEW j \in Interviews, ledger[j] = ledger[i], roleOf[j] = roleOf[i]
      PROVE  j \in group[v]
  <2>1. group[v] = {h \in Rows(v) : roleOf[h] = roleOf[i]}
    BY <1>2, GroupOfMember
  <2> QED
    BY <1>3, <1>6, <2>1 DEF Rows
<1>7. StampedWhole'
  BY <1>1, <1>3, <1>6 DEF StampedWhole
<1>8. StampedMeansCharged'
  BY <1>1, <1>2, <1>3 DEF StampedMeansCharged, ItemsOf
<1>9. pc'[v] = "bill" /\ \A w \in Invoices \ {v} : Same(w)
  BY <1>1 DEF StampRows, Same, TypeOK
<1>10. WorkerSound(v)'
  BY <1>1, <1>2, <1>4, <1>9 DEF WorkerSound
<1>11. ASSUME NEW w \in Invoices \ {v} PROVE WorkerSound(w)'
  <2>1. Same(w) /\ ItemsOf(w, group[w])' = ItemsOf(w, group[w])
    BY <1>1, <1>9 DEF ItemsOf, Same
  <2> QED
    BY <1>4, <2>1 DEF WorkersSound, WorkerSound, Same
<1>12. WorkersSound'
  BY <1>10, <1>11 DEF WorkersSound, Invoices
<1> QED
  BY <1>5, <1>7, <1>8, <1>12

-----------------------------------------------------------------------------
(* The invariant.                                                          *)

LEMMA ApplySound ==
    ASSUME TypeOK, Stores, WorkersSound, NEW v \in Invoices, Apply(v)
    PROVE  Stores' /\ WorkersSound'
<1>1. CASE NothingToApply(v) \/ AlreadyReserved(v) \/ Applied(v)
  BY <1>1, EndsSound
<1>2. CASE Resume(v)
  BY <1>2, ResumeSound
<1>3. CASE ComputeUsage(v)
  BY <1>3, ComputeUsageSound
<1>4. CASE ReserveRows(v)
  BY <1>4, ReserveRowsSound
<1>5. CASE \E g \in SUBSET Interviews : FindItem(v, g) \/ CreateItem(v, g)
  BY <1>5, FindItemSound, CreateItemSound
<1>6. CASE ItemRefused(v)
  BY <1>6, StopsSound DEF ItemRefused, Throws, Ended
<1>7. CASE StampRows(v)
  BY <1>7, StampRowsSound
<1> QED
  BY <1>1, <1>2, <1>3, <1>4, <1>5, <1>6, <1>7 DEF Apply

LEMMA InitSound == Init => IInv
<1> SUFFICES ASSUME Init PROVE IInv
  OBVIOUS
<1>1. TypeOK
  BY InitTypes
<1>2. ItemsWhole /\ StampedWhole /\ NoDoubleCharge /\ StampedMeansCharged
  BY DEF Init, ItemsWhole, StampedWhole, NoDoubleCharge, StampedMeansCharged
<1>3. WorkersSound
  BY DEF Init, WorkersSound, WorkerSound
<1> QED
  BY <1>1, <1>2, <1>3 DEF IInv

LEMMA StepSound == IInv /\ [Next]_vars => IInv'
<1> SUFFICES ASSUME IInv, [Next]_vars PROVE IInv'
  OBVIOUS
<1>1. TypeOK /\ Stores /\ WorkersSound
  BY DEF IInv, Stores
<1>2. Stores' /\ WorkersSound'
  <2>1. CASE UNCHANGED vars
    <3>1. Calm /\ \A v \in Invoices : Same(v)
      BY <2>1 DEF vars, clock, rows, stripe, work, Calm, Same
    <3> QED
      BY <1>1, <3>1, CalmStep
  <2>2. CASE World
    BY <1>1, <2>2, WorldSound
  <2>3. CASE Mishap
    BY <1>1, <2>3, StopsSound DEF Mishap, CallFails, Crash, Throws, Ended
  <2>4. CASE Work
    BY <1>1, <2>4, ApplySound, DoorSound DEF Work
  <2> QED
    BY <2>1, <2>2, <2>3, <2>4 DEF Next
<1> QED
  BY <1>1, <1>2, StepTypes DEF IInv, Stores

\* Every reachable state satisfies the inductive invariant.
THEOREM Invariance == Spec => []IInv
<1>1. Init => IInv
  BY InitSound
<1>2. IInv /\ [Next]_vars => IInv'
  BY StepSound
<1> QED
  BY <1>1, <1>2, PTL DEF Spec

\* Every variable stays in its type.
THEOREM TypesHold == Spec => []TypeOK
<1>1. IInv => TypeOK
  BY DEF IInv
<1> QED
  BY <1>1, Invariance, PTL

\* No interview is ever on two Stripe items.
THEOREM ChargedOnce == Spec => []NoDoubleCharge
<1>1. IInv => NoDoubleCharge
  BY DEF IInv
<1> QED
  BY <1>1, Invariance, PTL

\* A stamped reservation was paid for by an item of its own invoice.
THEOREM StampsAreCharged == Spec => []StampedMeansCharged
<1>1. IInv => StampedMeansCharged
  BY DEF IInv
<1> QED
  BY <1>1, Invariance, PTL

-----------------------------------------------------------------------------
(* The charge ledger.                                                      *)

\* The refinement mapping of Ledger: the items an interview is on.
ChargedOn == [i \in Interviews |-> {x \in ItemIds : itemOn[x] # None /\ i \in itemFor[x]}]

\* The database reserves; Stripe charges; nothing else moves the ledger.
LEMMA ReserveMaps ==
    ASSUME TypeOK, NEW v \in Invoices, ReserveRows(v)
    PROVE  \E S \in SUBSET Interviews : Ledger!Reserve(v, S)
<1> DEFINE got == {i \in want[v] : ledger[i] = None}
<1>1. got \in SUBSET Interviews
  BY DEF TypeOK
<1>2. /\ ledger' = [i \in Interviews |-> IF i \in got THEN v ELSE ledger[i]]
      /\ UNCHANGED <<itemOn, itemFor>>
  BY DEF ReserveRows, stripe
<1>3. Ledger!Reserve(v, got)
  BY <1>2 DEF Ledger!Reserve
<1> QED
  BY <1>1, <1>3

LEMMA CreateMaps ==
    ASSUME IInv, NEW v \in Invoices, NEW g \in SUBSET Interviews, CreateItem(v, g)
    PROVE  \E x \in ItemIds : Ledger!Charge(v, g, x)
<1>1. PICK x \in ItemIds :
          /\ itemOn[x] = None
          /\ itemOn' = [itemOn EXCEPT ![x] = v] /\ itemFor' = [itemFor EXCEPT ![x] = g]
  BY DEF CreateItem, ItemCreated
<1>2. UNCHANGED ledger
  BY DEF CreateItem, rows
<1>3. \A i \in g : ledger[i] = v /\ \A y \in ItemIds : itemOn[y] # None => i \notin itemFor[y]
  BY NotYetCharged DEF CreateItem, IInv, Stores
<1>4. /\ itemOn'[x] = v /\ v # None /\ itemFor'[x] = g
      /\ \A y \in ItemIds \ {x} : itemOn'[y] = itemOn[y] /\ itemFor'[y] = itemFor[y]
  BY <1>1, Distinct DEF IInv, TypeOK, Invoices
<1>5. \A i \in g : {y \in ItemIds : itemOn[y] # None /\ i \in itemFor[y]} = {}
  BY <1>3
<1>6. \A i \in g : {y \in ItemIds : itemOn'[y] # None /\ i \in itemFor'[y]} = {x}
  BY <1>3, <1>4
<1>7. \A i \in Interviews \ g :
          {y \in ItemIds : itemOn'[y] # None /\ i \in itemFor'[y]}
            = {y \in ItemIds : itemOn[y] # None /\ i \in itemFor[y]}
  BY <1>1, <1>4
<1>8. ChargedOn' = [i \in Interviews |-> IF i \in g THEN {x} ELSE ChargedOn[i]]
  BY <1>6, <1>7 DEF ChargedOn
<1>9. Ledger!Charge(v, g, x)
  BY <1>2, <1>3, <1>5, <1>8 DEF Ledger!Charge, ChargedOn
<1> QED
  BY <1>9

LEMMA RestMaps ==
    ASSUME NEW v \in Invoices, Apply(v), ~ReserveRows(v),
           \A g \in SUBSET Interviews : ~CreateItem(v, g)
    PROVE  UNCHANGED <<ledger, itemOn, itemFor>>
<1>1. CASE NothingToApply(v) \/ Resume(v) \/ ComputeUsage(v) \/ AlreadyReserved(v)
  BY <1>1 DEF NothingToApply, Resume, ComputeUsage, AlreadyReserved, rows, stripe
<1>2. CASE StampRows(v) \/ Applied(v) \/ ItemRefused(v)
  BY <1>2 DEF StampRows, Applied, ItemRefused, Throws, Stops, rows, stripe
<1>3. CASE \E g \in SUBSET Interviews : FindItem(v, g)
  BY <1>3 DEF FindItem, rows, stripe
<1> QED
  BY <1>1, <1>2, <1>3 DEF Apply

LEMMA StepMaps == IInv /\ [Next]_vars => [Ledger!Next]_(Ledger!vars)
<1> SUFFICES ASSUME IInv, [Next]_vars PROVE [Ledger!Next]_(Ledger!vars)
  OBVIOUS
<1>1. CASE UNCHANGED <<ledger, itemOn, itemFor>>
  BY <1>1 DEF Ledger!vars
<1>2. ASSUME NEW v \in Invoices, ReserveRows(v) PROVE Ledger!Next
  BY <1>2, ReserveMaps DEF Ledger!Next, IInv
<1>3. ASSUME NEW v \in Invoices, NEW g \in SUBSET Interviews, CreateItem(v, g) PROVE Ledger!Next
  BY <1>3, CreateMaps DEF Ledger!Next
<1>4. CASE UNCHANGED vars
  BY <1>1, <1>4 DEF vars, rows, stripe
<1>5. CASE World
  BY <1>1, <1>5 DEF World, MonthEnds, Complete, CycleOpens, CycleFinalizes, rows, stripe
<1>6. CASE Mishap
  BY <1>1, <1>6 DEF Mishap, CallFails, Crash, Throws, Stops, rows, stripe
<1>7. CASE \/ \E c \in Cycles : Deliver(c) \/ DeliverAgain(c)
           \/ \E k \in Runs : StartRun(k) \/ CreateInvoice(k) \/ Finalize(k) \/ Discard(k)
  BY <1>1, <1>7 DEF Deliver, DeliverAgain, StartRun, CreateInvoice, Finalize, Discard, rows, stripe
<1>8. ASSUME NEW v \in Invoices, Apply(v) PROVE [Ledger!Next]_(Ledger!vars)
  BY <1>1, <1>2, <1>3, <1>8, RestMaps
<1> QED
  BY <1>4, <1>5, <1>6, <1>7, <1>8 DEF Next, Work

\* Reservations and Stripe items implement the charge ledger: an interview is
\* reserved by one invoice for good, and charged at most once, there.
THEOREM ChargesImplementLedger == Spec => ImplementsChargeLedger
<1>1. Init => Ledger!Init
  BY DEF Init, Ledger!Init
<1>2. IInv /\ [Next]_vars => [Ledger!Next]_(Ledger!vars)
  BY StepMaps
<1> QED
  BY <1>1, <1>2, Invariance, PTL DEF Spec, ImplementsChargeLedger, Ledger!Spec

\* A retry of the remaining rows bills price groups of the whole invoice, so
\* the operation key of each line is the one an earlier attempt used, and its
\* item is found instead of a second one being created.
RetriesRepeatGroups == \A v \in Invoices : Groups(Unstamped(v)) \subseteq Groups(Rows(v))

\* What an invoice still has to stamp is always made of whole price groups.
THEOREM RetriesAreWhole == Spec => []RetriesRepeatGroups
<1>1. IInv => RetriesRepeatGroups
  BY UnstampedGroups DEF IInv, RetriesRepeatGroups
<1> QED
  BY <1>1, Invariance, PTL

-----------------------------------------------------------------------------
(* InterviewCredits: the replay, one completion time after the other.      *)

\* Induction over the times that a replay runs through: a least time that
\* is not reached would be the successor of one that is.
LEMMA TimesInduction ==
  ASSUME NEW M \in Nat, NEW S, -1 \in S, \A n \in 0..M : n - 1 \in S => n \in S
  PROVE  \A n \in -1..M : n \in S
<1> DEFINE T == {n \in 0..M : n \notin S}
<1>1. CASE T = {}
  <2> SUFFICES ASSUME NEW n \in -1..M PROVE n \in S
    OBVIOUS
  <2>1. n = -1 \/ n \in 0..M
    OBVIOUS
  <2> QED
    BY <1>1, <2>1
<1>2. CASE T # {}
  <2>1. PICK x \in T : \A y \in T : <<y, x>> \notin OpToRel(<, Nat)
    <3>1. T \subseteq Nat
      OBVIOUS
    <3> HIDE DEF T
    <3> QED
      BY <1>2, <3>1, WFMin, NatLessThanWellFounded
  <2>2. \A y \in T : ~(y < x)
    <3> SUFFICES ASSUME NEW y \in T, y < x PROVE FALSE
      OBVIOUS
    <3>1. <<y, x>> \in OpToRel(<, Nat)
      BY DEF OpToRel
    <3> QED
      BY <2>1, <3>1
  <2>3. x - 1 = -1 \/ x - 1 \in 0..M
    <3>1. x \in 0..M
      OBVIOUS
    <3> HIDE DEF T
    <3> QED
      BY <3>1
  <2>4. x - 1 \in S
    BY <2>2, <2>3
  <2> QED
    BY <2>1, <2>4
<1> QED
  BY <1>1, <1>2

\* What is due at a time is paid out of what is left then.
Due(i, t) == stage[i] = "used" /\ orderedAt[i] = t
Unpaid == [i \in Interviews |-> Nothing]
Paid(p, t) == [i \in Interviews |-> IF Due(i, t) THEN Payer(p, i, t) ELSE p[i]]
Unfolds ==
    /\ Replay[-1] = Unpaid
    /\ \A t \in Times : \A p : p = Replay[t - 1] => Replay[t] = Paid(p, t)

\* The recursion of the replay has a solution: one up to a time extends to
\* the next time.
LEMMA ReplayUnfolds == Unfolds
<1> DEFINE Solves(f, n) == f = [t \in -1..n |-> IF t = -1 THEN Unpaid ELSE Paid(f[t - 1], t)]
           S == {n \in -1..MaxTime : \E f : Solves(f, n)}
<1> USE CreditParameters
<1>1. -1 \in S
  <2>1. Solves([t \in -1..-1 |-> Unpaid], -1)
    OBVIOUS
  <2>2. \E f : Solves(f, -1)
    BY <2>1
  <2> HIDE DEF Solves
  <2>3. -1 \in -1..MaxTime
    OBVIOUS
  <2> QED
    BY <2>2, <2>3
<1>2. ASSUME NEW n \in 0..MaxTime, n - 1 \in S PROVE n \in S
  <2>1. PICK f : Solves(f, n - 1)
    BY <1>2
  <2>2. PICK g : g = [t \in -1..n |-> IF t = n THEN Paid(f[n - 1], n) ELSE f[t]]
    OBVIOUS
  <2>3. \A t \in -1..n : g[t] = IF t = -1 THEN Unpaid ELSE Paid(g[t - 1], t)
    <3> SUFFICES ASSUME NEW t \in -1..n
                 PROVE  g[t] = IF t = -1 THEN Unpaid ELSE Paid(g[t - 1], t)
      OBVIOUS
    <3>1. CASE t = n
      BY <2>2, <3>1
    <3>2. CASE t # n /\ t # -1
      <4>1. t \in -1..(n - 1) /\ t - 1 \in -1..n /\ t - 1 # n
        BY <3>2
      <4>2. g[t] = f[t] /\ g[t - 1] = f[t - 1]
        BY <2>2, <3>2, <4>1
      <4>3. f[t] = Paid(f[t - 1], t)
        BY <2>1, <3>2, <4>1
      <4> QED
        BY <3>2, <4>2, <4>3
    <3>3. CASE t # n /\ t = -1
      <4>1. t \in -1..(n - 1)
        BY <3>3
      <4>2. g[t] = f[t] /\ f[t] = Unpaid
        BY <2>1, <2>2, <3>3, <4>1
      <4> QED
        BY <3>3, <4>2
    <3> QED
      BY <3>1, <3>2, <3>3
  <2>4. Solves(g, n)
    BY <2>2, <2>3
  <2> QED
    BY <2>4
<1>3. MaxTime \in S
  <2> HIDE DEF S
  <2>1. \A n \in -1..MaxTime : n \in S
    BY <1>1, <1>2, TimesInduction
  <2> QED
    BY <2>1
<1>4. PICK f : Solves(f, MaxTime)
  BY <1>3
<1>5. Replay = [t \in -1..MaxTime |-> IF t = -1 THEN Unpaid ELSE Paid(Replay[t - 1], t)]
  BY <1>4 DEF Replay, Paid, Unpaid, Due
<1> HIDE DEF Solves
<1> QED
  BY <1>5 DEF Unfolds, Times

LEMMA ReplayUnfoldsNext == Unfolds'
BY ReplayUnfolds, PTL

-----------------------------------------------------------------------------
(* InterviewCredits: the inductive invariant.                              *)

\* Only what is over is dated, what is not dated yet is ordered after it
\* ended, and no two interviews at one time.
TimesSound ==
    /\ \A i \in Interviews : dated[i] => stage[i] \in {"completed", "used"}
    /\ \A i \in Interviews : stage[i] = "used" /\ ~dated[i] => endedAt[i] <= orderedAt[i]
    /\ \A i, j \in Interviews : orderedAt[i] = orderedAt[j] /\ orderedAt[i] # -1 => i = j

\* Of the credits of a role one at most is not revoked.
LiveApart ==
    \A c, d \in 1..minted : source[c] = source[d] /\ ~Revoked(c) /\ ~Revoked(d) => c = d

CreditInv == CreditTypes /\ TimesSound /\ LiveApart

\* What a request reads as left of a role's allowance is within it.
LEMMA RemainingType ==
  ASSUME NEW r
  PROVE  OwnRemaining(r) \in 0..Allowance
<1> USE CreditParameters
<1>1. PICK own \in SUBSET Interviews : own = OwnOf(Allocation, r)
  BY DEF OwnOf
<1>2. PICK lent \in SUBSET Interviews :
        lent = UNION {PaidBy(Allocation, c) : c \in {d \in 1..minted : Revoked(d) /\ source[d] = r}}
  BY DEF PaidBy
<1>3. Cardinality(own) \in Nat /\ Cardinality(lent) \in Nat
  BY FiniteInterviews, FS_Subset, FS_CardinalityType
<1>4. OwnRemaining(r) = AtLeastZero(Allowance - Cardinality(own) - Cardinality(lent))
  BY <1>1, <1>2 DEF OwnRemaining, DrawnFromRevoked
<1> QED
  BY <1>3, <1>4 DEF AtLeastZero

LEMMA CreditInvInit == CreditInit => CreditInv
<1> USE CreditParameters DEF CreditInit
<1>1. CreditInit => CreditTypes
  BY DEF CreditTypes, Times, Never, CreditIds
<1>2. CreditInit => TimesSound /\ LiveApart
  BY DEF TimesSound, LiveApart
<1> QED
  BY <1>1, <1>2 DEF CreditInv

\* An interview that is ordered keeps to times after its end.
LEMMA OrderStep ==
  ASSUME CreditInv, NEW i \in Interviews, OrderInterview(i)
  PROVE  /\ orderedAt' \in [Interviews -> Times \cup {-1}]
         /\ endedAt[i] <= orderedAt'[i]
         /\ \A j \in Interviews \ {i} : orderedAt'[j] = orderedAt[j] /\ orderedAt[j] # orderedAt'[i]
<1> USE CreditParameters
<1>1. PICK t \in endedAt[i]..now :
        /\ \A j \in Interviews \ {i} : orderedAt[j] # t
        /\ orderedAt' = [orderedAt EXCEPT ![i] = t]
  BY DEF OrderInterview
<1>2. endedAt[i] \in Times \cup {-1} /\ now \in Times
  BY DEF CreditInv, CreditTypes
<1>3. t \in Times \cup {-1} /\ endedAt[i] <= t
  BY <1>2 DEF Times
<1> QED
  BY <1>1, <1>3 DEF CreditInv, CreditTypes

\* Interviews begin, end, become used, are touched and are dated.
LEMMA InterviewStep ==
  ASSUME CreditInv, NEW i \in Interviews,
         \/ \E r \in Roles : StartInterview(i, r)
         \/ EndInterview(i) \/ CompleteInterview(i) \/ CompleteUnused(i) \/ ScoreInterview(i)
         \/ TouchInterview(i) \/ StampInterview(i)
  PROVE  CreditInv'
<1> USE CreditParameters
<1>1. LiveApart'
  BY DEF StartInterview, EndInterview, CompleteInterview, CompleteUnused, ScoreInterview, BecomeUsed,
         TouchInterview, StampInterview, CreditInv, LiveApart, Revoked, credits
<1>2. CASE \/ \E r \in Roles : StartInterview(i, r)
           \/ EndInterview(i) \/ CompleteUnused(i)
  <2>1. CreditTypes'
    BY <1>2 DEF StartInterview, EndInterview, CompleteUnused, CreditInv, CreditTypes, credits, requests
  <2>2. /\ UNCHANGED <<dated, orderedAt>>
        /\ \A j \in Interviews \ {i} : stage'[j] = stage[j] /\ endedAt'[j] = endedAt[j]
        /\ ~dated[i] /\ stage'[i] # "used"
    BY <1>2 DEF StartInterview, EndInterview, CompleteUnused, CreditInv, CreditTypes, TimesSound
  <2>3. TimesSound'
    BY <2>2 DEF CreditInv, TimesSound
  <2> QED
    BY <1>1, <2>1, <2>3 DEF CreditInv
<1>3. CASE CompleteInterview(i) \/ ScoreInterview(i)
  <2>1. BecomeUsed(i)
    BY <1>3 DEF CompleteInterview, ScoreInterview
  <2>2. dated[i] => orderedAt' = orderedAt
    BY <2>1 DEF BecomeUsed
  <2>3. ~dated[i] => OrderInterview(i)
    BY <2>1 DEF BecomeUsed
  <2>4. CreditTypes'
    BY <2>1, <2>2, <2>3, OrderStep DEF BecomeUsed, CreditInv, CreditTypes, credits, requests
  <2>5. /\ UNCHANGED <<dated, endedAt>> /\ stage'[i] = "used"
        /\ \A j \in Interviews \ {i} : stage'[j] = stage[j]
    BY <2>1 DEF BecomeUsed, CreditInv, CreditTypes
  <2>6. TimesSound'
    <3>1. CASE dated[i]
      BY <2>2, <2>5, <3>1 DEF CreditInv, TimesSound
    <3>2. CASE ~dated[i]
      BY <2>3, <2>5, <3>2, OrderStep DEF CreditInv, TimesSound
    <3> QED
      BY <3>1, <3>2
  <2> QED
    BY <1>1, <2>4, <2>6 DEF CreditInv
<1>4. CASE TouchInterview(i)
  <2>1. OrderInterview(i) /\ UNCHANGED <<stage, dated, endedAt>>
    BY <1>4 DEF TouchInterview
  <2>2. CreditTypes'
    BY <1>4, <2>1, OrderStep DEF TouchInterview, CreditInv, CreditTypes, credits, requests
  <2>3. TimesSound'
    BY <2>1, OrderStep DEF CreditInv, TimesSound
  <2> QED
    BY <1>1, <2>2, <2>3 DEF CreditInv
<1>5. CASE StampInterview(i)
  <2>1. OrderInterview(i) /\ UNCHANGED stage
    BY <1>5 DEF StampInterview
  <2>2. /\ dated'[i] /\ stage[i] \in {"completed", "used"}
        /\ \A j \in Interviews \ {i} : dated'[j] = dated[j] /\ endedAt'[j] = endedAt[j]
    BY <1>5 DEF StampInterview, CreditInv, CreditTypes
  <2>3. CreditTypes'
    BY <1>5, <2>1, OrderStep DEF StampInterview, CreditInv, CreditTypes, credits, requests
  <2>4. TimesSound'
    BY <2>1, <2>2, OrderStep DEF CreditInv, TimesSound
  <2> QED
    BY <1>1, <2>3, <2>4 DEF CreditInv
<1> QED
  BY <1>2, <1>3, <1>4, <1>5

\* An answered request keeps nothing.
LEMMA AnswerTypes ==
  ASSUME CreditTypes, NEW q \in Requests, Answer(q)
  PROVE  /\ step' \in [Requests -> {"idle", "look", "measure", "insert", "find", "revoke", "done"}]
         /\ target' \in [Requests -> Roles \cup {None}]
         /\ closedAt' \in [Requests -> Times]
         /\ since' \in [Requests -> Times]
         /\ leftover' \in [Requests -> 0..Allowance]
         /\ held' \in [Requests -> 0..MaxCredits]
BY CreditParameters DEF Answer, CreditTypes, Times

\* A request on its way to a credit or away from one.
LEMMA RequestStep ==
  ASSUME CreditInv, NEW q \in Requests,
         \/ \E r \in Roles, active \in BOOLEAN : WriteStatus(q, r, active)
         \/ MintLooks(q) \/ MintMeasures(q) \/ MintLoses(q)
         \/ RevokeFinds(q) \/ SyncFails(q)
  PROVE  CreditInv'
<1> USE CreditParameters
<1>1. UNCHANGED <<now, interviews, credits>>
  BY DEF WriteStatus, MintLooks, MintMeasures, MintLoses, RevokeFinds, SyncFails
<1>2. CreditTypes'
  <2>1. CASE \E r \in Roles, active \in BOOLEAN : WriteStatus(q, r, active)
    BY <2>1 DEF WriteStatus, CreditInv, CreditTypes, interviews, credits
  <2>2. CASE Answer(q) /\ open' = open
    BY <1>1, <2>2, AnswerTypes DEF CreditInv, CreditTypes, interviews, credits
  <2>3. CASE MintLooks(q) /\ ~Answer(q)
    BY <2>3 DEF MintLooks, CreditInv, CreditTypes, interviews, credits
  <2>4. CASE MintMeasures(q) /\ ~Answer(q)
    BY <2>4, RemainingType DEF MintMeasures, CreditInv, CreditTypes, interviews, credits
  <2>5. CASE RevokeFinds(q) /\ ~Answer(q)
    BY <2>5 DEF RevokeFinds, LiveCredits, CreditInv, CreditTypes, interviews, credits
  <2> QED
    BY <2>1, <2>2, <2>3, <2>4, <2>5
       DEF MintLooks, MintMeasures, MintLoses, RevokeFinds, SyncFails
<1> QED
  BY <1>1, <1>2 DEF CreditInv, TimesSound, LiveApart, Revoked, interviews, credits

\* What a request stores was taken by now.
LEMMA TakenType ==
  ASSUME CreditTypes, NEW q \in Requests, NEW t \in TakenSince(q)
  PROVE  t \in Times /\ t >= since[q]
<1>1. since[q] \in Times /\ now \in Times
  BY DEF CreditTypes
<1> QED
  BY <1>1, CreditParameters DEF TakenSince, Times

\* The index admits a credit only where none is live.
LEMMA MintStep ==
  ASSUME CreditInv, NEW q \in Requests, MintInserts(q)
  PROVE  CreditInv'
<1> USE CreditParameters
<1>1. CreditTypes'
  <2>1. minted' \in 0..MaxCredits /\ source' \in [CreditIds -> Roles \cup {None}]
    BY DEF MintInserts, CreditInv, CreditTypes, CreditIds
  <2>2. quantity' \in [CreditIds -> 0..Allowance]
    BY DEF MintInserts, CreditInv, CreditTypes
  <2>3. mintedAt' \in [CreditIds -> Times]
    <3>1. PICK t \in TakenSince(q) : mintedAt' = [mintedAt EXCEPT ![minted + 1] = t]
      BY DEF MintInserts
    <3>2. t \in Times
      BY TakenType DEF CreditInv
    <3> QED
      BY <3>1, <3>2 DEF CreditInv, CreditTypes
  <2>4. expiresAt' \in [CreditIds -> 0..(MaxTime + Window)]
    <3>1. closedAt[q] + Window \in 0..(MaxTime + Window)
      BY DEF CreditInv, CreditTypes, Times
    <3> QED
      BY <3>1 DEF MintInserts, CreditInv, CreditTypes
  <2>5. Answer(q) /\ UNCHANGED <<now, open, interviews, revokedAt>>
    BY DEF MintInserts
  <2> QED
    BY <2>1, <2>2, <2>3, <2>4, <2>5, AnswerTypes DEF CreditInv, CreditTypes, interviews
<1>2. TimesSound'
  BY DEF MintInserts, CreditInv, TimesSound, interviews
<1>3. LiveApart'
  <2>1. /\ minted \in Nat /\ minted' = minted + 1 /\ minted + 1 \in CreditIds
        /\ source'[minted + 1] = target[q] /\ revokedAt' = revokedAt
        /\ \A c \in 1..minted : source'[c] = source[c]
    BY DEF MintInserts, CreditInv, CreditTypes, CreditIds
  <2>2. \A c \in 1..minted : source[c] = target[q] => Revoked(c)
    BY DEF MintInserts, IndexAdmits, LiveCredits
  <2>3. \A c \in 1..(minted + 1) : c \in 1..minted \/ c = minted + 1
    BY <2>1
  <2> QED
    BY <2>1, <2>2, <2>3 DEF CreditInv, LiveApart, Revoked
<1> QED
  BY <1>1, <1>2, <1>3 DEF CreditInv

\* A revocation is written once, with a time, and is not undone.
LEMMA RevokedOnce ==
  ASSUME CreditInv, NEW q \in Requests, RevokeWrites(q)
  PROVE  /\ revokedAt' \in [CreditIds -> Times \cup {Never}]
         /\ \A c \in 1..minted : \/ revokedAt'[c] = revokedAt[c]
                                 \/ /\ revokedAt[c] = Never
                                    /\ revokedAt'[c] \in Times /\ revokedAt'[c] >= since[q]
<1> USE CreditParameters
<1>1. 1..minted \subseteq CreditIds /\ revokedAt \in [CreditIds -> Times \cup {Never}]
  BY DEF CreditInv, CreditTypes, CreditIds
<1>2. CASE UNCHANGED revokedAt
  BY <1>1, <1>2
<1>3. CASE MayRevoke(held[q]) /\ \E t \in TakenSince(q) : revokedAt' = [revokedAt EXCEPT ![held[q]] = t]
  <2>1. PICK t \in TakenSince(q) : revokedAt' = [revokedAt EXCEPT ![held[q]] = t]
    BY <1>3
  <2>2. t \in Times /\ t >= since[q]
    BY TakenType DEF CreditInv
  <2> QED
    BY <1>1, <1>3, <2>1, <2>2 DEF MayRevoke, Revoked
<1> QED
  BY <1>2, <1>3 DEF RevokeWrites

LEMMA RevokeStep ==
  ASSUME CreditInv, NEW q \in Requests, RevokeWrites(q)
  PROVE  CreditInv'
<1> USE CreditParameters
<1>1. CreditTypes'
  <2>1. Answer(q) /\ UNCHANGED <<now, open, interviews, minted, source, quantity, mintedAt, expiresAt>>
    BY DEF RevokeWrites
  <2> QED
    BY <2>1, RevokedOnce, AnswerTypes DEF CreditInv, CreditTypes, interviews
<1>2. TimesSound'
  BY DEF RevokeWrites, CreditInv, TimesSound, interviews
<1>3. \A c \in 1..minted : Revoked(c) => Revoked(c)'
  BY RevokedOnce DEF Revoked
<1>4. LiveApart'
  BY <1>3 DEF RevokeWrites, CreditInv, LiveApart
<1> QED
  BY <1>1, <1>2, <1>4 DEF CreditInv

LEMMA CreditInvNext == CreditInv /\ [CreditNext]_creditVars => CreditInv'
<1> SUFFICES ASSUME CreditInv, [CreditNext]_creditVars PROVE CreditInv'
  OBVIOUS
<1>1. CASE UNCHANGED creditVars
  BY <1>1 DEF creditVars, interviews, credits, requests, CreditInv, CreditTypes, TimesSound,
              LiveApart, Revoked
<1>2. CASE TimePasses
  <2>1. CreditTypes'
    BY <1>2, CreditParameters DEF TimePasses, CreditInv, CreditTypes, Times,
                                  interviews, credits, requests
  <2>2. TimesSound' /\ LiveApart'
    BY <1>2 DEF TimePasses, CreditInv, TimesSound, LiveApart, Revoked, interviews, credits
  <2> QED
    BY <2>1, <2>2 DEF CreditInv
<1>3. CASE \E i \in Interviews :
             \/ \E r \in Roles : StartInterview(i, r)
             \/ EndInterview(i) \/ CompleteInterview(i) \/ CompleteUnused(i) \/ ScoreInterview(i)
             \/ TouchInterview(i) \/ StampInterview(i)
  BY <1>3, InterviewStep
<1>4. CASE \E q \in Requests :
             \/ \E r \in Roles, active \in BOOLEAN : WriteStatus(q, r, active)
             \/ MintLooks(q) \/ MintMeasures(q) \/ MintLoses(q) \/ RevokeFinds(q) \/ SyncFails(q)
  BY <1>4, RequestStep
<1>5. CASE \E q \in Requests : MintInserts(q)
  BY <1>5, MintStep
<1>6. CASE \E q \in Requests : RevokeWrites(q)
  BY <1>6, RevokeStep
<1> QED
  BY <1>1, <1>2, <1>3, <1>4, <1>5, <1>6 DEF CreditNext, CreditWork, Sync

LEMMA CreditInvariance == CreditSpec => []CreditInv
<1> QED
  BY CreditInvInit, CreditInvNext, PTL DEF CreditSpec

\* Every variable keeps its type.
THEOREM CreditTypesHold == CreditSpec => []CreditTypes
<1>1. CreditInv => CreditTypes
  BY DEF CreditInv
<1> QED
  BY <1>1, CreditInvariance, PTL

\* A role never has two credits that are not revoked.
THEOREM OneCreditLives == CreditSpec => []OneLiveCredit
<1>1. CreditInv => OneLiveCredit
  <2> SUFFICES ASSUME CreditInv, NEW r \in Roles PROVE Cardinality(LiveCredits(r)) <= 1
    BY DEF OneLiveCredit
  <2>1. CASE LiveCredits(r) = {}
    BY <2>1, FS_EmptySet
  <2>2. CASE LiveCredits(r) # {}
    <3>1. PICK c \in LiveCredits(r) : TRUE
      BY <2>2
    <3>2. LiveCredits(r) = {c}
      BY <3>1 DEF LiveCredits, CreditInv, LiveApart
    <3>3. Cardinality({c}) = 1
      BY FS_Singleton
    <3> QED
      BY <3>2, <3>3
  <2> QED
    BY <2>1, <2>2
<1> QED
  BY <1>1, CreditInvariance, PTL

-----------------------------------------------------------------------------
(* InterviewCredits: the history of payers.                                *)

\* An interview that is not used has no payer.
Clean(p) == \A i \in Interviews : stage[i] # "used" => p[i] = Nothing
Cleans == \A t \in -1..MaxTime : Clean(Replay[t])

LEMMA ReplayCleans == Cleans
<1> DEFINE S == {t \in -1..MaxTime : Clean(Replay[t])}
<1> USE CreditParameters
<1>1. -1 \in S
  BY ReplayUnfolds DEF Unfolds, Unpaid, Clean
<1>2. ASSUME NEW n \in 0..MaxTime, n - 1 \in S PROVE n \in S
  <2>1. PICK p : p = Replay[n - 1]
    OBVIOUS
  <2>2. Replay[n] = Paid(p, n)
    BY <2>1, ReplayUnfolds DEF Unfolds, Times
  <2>3. Clean(p)
    BY <1>2, <2>1
  <2>4. Clean(Replay[n])
    BY <2>2, <2>3 DEF Clean, Paid, Due
  <2> QED
    BY <2>4
<1>3. \A n \in -1..MaxTime : n \in S
  <2> HIDE DEF S
  <2> QED
    BY <1>1, <1>2, TimesInduction
<1> QED
  BY <1>3 DEF Cleans

\* Nothing changes for an interview from a time on at which it is not due.
NotDueFrom(i, T) == \A t \in T..MaxTime : ~Due(i, t)
Keeps ==
    \A T \in Times, i \in Interviews :
        NotDueFrom(i, T) => \A t \in (T - 1)..MaxTime : Replay[t][i] = Replay[T - 1][i]

LEMMA ReplayKeeps == Keeps
<1> SUFFICES ASSUME NEW T \in Times, NEW i \in Interviews, NotDueFrom(i, T)
             PROVE  \A t \in (T - 1)..MaxTime : Replay[t][i] = Replay[T - 1][i]
  BY DEF Keeps
<1> DEFINE S == {t \in -1..MaxTime : t >= T - 1 => Replay[t][i] = Replay[T - 1][i]}
<1> USE CreditParameters DEF Times
<1>1. -1 \in S
  <2>1. T - 1 <= -1 => T - 1 = -1
    OBVIOUS
  <2> QED
    BY <2>1
<1>2. ASSUME NEW n \in 0..MaxTime, n - 1 \in S PROVE n \in S
  <2>1. CASE n < T
    <3>1. n >= T - 1 => n = T - 1
      BY <2>1
    <3> QED
      BY <3>1
  <2>2. CASE n >= T
    <3>1. PICK p : p = Replay[n - 1]
      OBVIOUS
    <3>2. Replay[n] = Paid(p, n)
      BY <3>1, ReplayUnfolds DEF Unfolds
    <3>3. ~Due(i, n)
      BY <2>2 DEF NotDueFrom
    <3>4. Replay[n][i] = p[i]
      BY <3>2, <3>3 DEF Paid
    <3>5. Replay[n - 1][i] = Replay[T - 1][i]
      BY <1>2, <2>2
    <3> QED
      BY <3>1, <3>4, <3>5
  <2> QED
    BY <2>1, <2>2
<1>3. \A n \in -1..MaxTime : n \in S
  <2> HIDE DEF S
  <2> QED
    BY <1>1, <1>2, TimesInduction
<1> QED
  BY <1>3

LEMMA ReplayKeepsNext == Keeps'
BY ReplayKeeps, PTL

\* A step that changes nothing up to a time leaves the payer of what is not due
\* after it.
LEMMA PayerKept ==
  ASSUME NEW T \in Times, NEW i \in Interviews, NotDueFrom(i, T), NotDueFrom(i, T)',
         \A j \in Interviews, t \in 0..(T - 1) : Due(j, t)' <=> Due(j, t),
         \A j \in Interviews, t \in 0..(T - 1) : \A p :
            Due(j, t) /\ Clean(p) => Payer(p, j, t)' = Payer(p, j, t)
  PROVE  Allocation'[i] = Allocation[i]
<1> DEFINE S == {t \in -1..MaxTime : t <= T - 1 => Replay'[t] = Replay[t]}
<1> USE CreditParameters DEF Times
<1>1. -1 \in S
  BY ReplayUnfolds, ReplayUnfoldsNext DEF Unfolds, Unpaid
<1>2. ASSUME NEW n \in 0..MaxTime, n - 1 \in S PROVE n \in S
  <2> SUFFICES ASSUME n <= T - 1 PROVE Replay'[n] = Replay[n]
    OBVIOUS
  <2>1. PICK p : p = Replay[n - 1]
    OBVIOUS
  <2>2. p = Replay'[n - 1]
    BY <1>2, <2>1
  <2>3. Replay[n] = Paid(p, n)
    BY <2>1, ReplayUnfolds DEF Unfolds
  <2>4. Replay'[n] = Paid(p, n)'
    BY <2>2, ReplayUnfoldsNext DEF Unfolds
  <2>5. Clean(p)
    BY <2>1, ReplayCleans DEF Cleans
  <2>6. Paid(p, n)' = Paid(p, n)
    BY <2>5 DEF Paid
  <2> QED
    BY <2>3, <2>4, <2>6
<1>3. \A n \in -1..MaxTime : n \in S
  <2> HIDE DEF S
  <2> QED
    BY <1>1, <1>2, TimesInduction
<1>4. Replay'[T - 1] = Replay[T - 1]
  BY <1>3
<1>5. Replay[MaxTime][i] = Replay[T - 1][i]
  BY ReplayKeeps DEF Keeps
<1>6. Replay'[MaxTime][i] = Replay'[T - 1][i]
  BY ReplayKeepsNext DEF Keeps
<1> QED
  BY <1>4, <1>5, <1>6 DEF Allocation

\* A step that leaves the past of a settled interview as it is leaves its payer.
LEMMA PastKept ==
  ASSUME CreditInv, NEW i \in Interviews, Settled(i), NEW K, K = orderedAt[i],
         orderedAt'[i] = K,
         \A j \in Interviews, t \in 0..K : Due(j, t)' <=> Due(j, t),
         \A j \in Interviews, t \in 0..K : \A p :
            Due(j, t) /\ Clean(p) => Payer(p, j, t)' = Payer(p, j, t)
  PROVE  Allocation'[i] = Allocation[i]
<1>1. K \in Times \cup {-1} /\ now \in Times /\ K < now
  BY DEF CreditInv, CreditTypes, Settled
<1>2. PICK T \in Times : T = K + 1
  BY <1>1, CreditParameters DEF Times
<1>3. \A t \in T..MaxTime : t # K
  BY <1>1, <1>2, CreditParameters DEF Times
<1>4. NotDueFrom(i, T) /\ NotDueFrom(i, T)'
  BY <1>3 DEF NotDueFrom, Due
<1>5. T - 1 = K
  BY <1>1, <1>2, CreditParameters DEF Times
<1> QED
  BY <1>4, <1>5, PayerKept

\* What the next lemmas conclude of a step and a settled interview.
Stays(i) == Settled(i)' /\ Allocation'[i] = Allocation[i]

\* The payer of an interview depends on its role and on the credits.
LEMMA SamePayer ==
  ASSUME UNCHANGED <<role, credits>>, NEW p, NEW i, NEW t
  PROVE  Payer(p, i, t)' = Payer(p, i, t)
BY DEF credits, Payer, OwnOf, Spendable, EarliestExpiry, PaidBy, LiveAt, FromCredit, Own, Usage

LEMMA SameEarliest ==
  ASSUME NEW S, \A c \in S : expiresAt'[c] = expiresAt[c]
  PROVE  EarliestExpiry(S)' = EarliestExpiry(S)
<1>1. \A c \in S : (\A d \in S : \/ expiresAt[c] < expiresAt[d]
                                 \/ expiresAt[c] = expiresAt[d] /\ c <= d)
               <=> (\A d \in S : \/ expiresAt'[c] < expiresAt'[d]
                                 \/ expiresAt'[c] = expiresAt'[d] /\ c <= d)
  OBVIOUS
<1> QED
  BY <1>1, Zenon DEF EarliestExpiry

\* ... those that it could spend at the time.
LEMMA SameSpendable ==
  ASSUME NEW p, NEW i, NEW t, UNCHANGED role,
         Spendable(p, t)' = Spendable(p, t),
         \A c \in Spendable(p, t) : expiresAt'[c] = expiresAt[c]
  PROVE  Payer(p, i, t)' = Payer(p, i, t)
<1>1. PICK S : S = Spendable(p, t)
  OBVIOUS
<1>2. EarliestExpiry(S)' = EarliestExpiry(S)
  BY <1>1, SameEarliest
<1>3. EarliestExpiry(Spendable(p, t))' = EarliestExpiry(S)'
  BY <1>1 DEF EarliestExpiry
<1> QED
  BY <1>1, <1>2, <1>3 DEF Payer, OwnOf, Own, Usage, FromCredit

\* A settled interview is ordered, and what may still change is later.
LEMMA SettledFacts ==
  ASSUME CreditInv, NEW i \in Interviews, Settled(i), NEW K, K = orderedAt[i]
  PROVE  /\ K \in Times \cup {-1} /\ now \in Times /\ K < now
         /\ stage[i] = "used" /\ dated[i]
         /\ \A j \in Interviews : endedAt[j] \in Times \cup {-1} /\ orderedAt[j] \in Times \cup {-1}
         /\ \A j \in Interviews :
              stage[j] \in {"ending", "completed", "used"} /\ ~dated[j] => endedAt[j] > K
         /\ \A j \in Interviews : stage[j] = "completed" /\ dated[j] => orderedAt[j] > K
         /\ \A q \in Requests : step[q] \in {"insert", "revoke"} => since[q] > K
<1>1. /\ K \in Times \cup {-1} /\ now \in Times /\ K < now
      /\ \A j \in Interviews : endedAt[j] \in Times \cup {-1} /\ orderedAt[j] \in Times \cup {-1}
      /\ \A q \in Requests : since[q] \in Times
  BY DEF CreditInv, CreditTypes, Settled
<1> QED
  BY <1>1, CreditParameters DEF Settled, MayYetPrecede, MayYetAffect, Times

\* A step that only ends what is running, or begins, leaves the past.
LEMMA StartKeeps ==
  ASSUME CreditInv, NEW k \in Interviews, NEW i \in Interviews, Settled(i),
         NEW r \in Roles, StartInterview(k, r)
  PROVE  Stays(i)
<1> DEFINE K == orderedAt[i]
<1>1. /\ stage[k] = "idle" /\ stage' = [stage EXCEPT ![k] = "running"]
      /\ role' = [role EXCEPT ![k] = r] /\ UNCHANGED <<now, endedAt, dated, orderedAt, credits, requests>>
      /\ stage \in [Interviews -> {"idle", "running", "ending", "completed", "used"}]
      /\ role \in [Interviews -> Roles \cup {None}]
  BY DEF StartInterview, CreditInv, CreditTypes
<1>2. \A j \in Interviews : \A t : Due(j, t)' <=> Due(j, t)
  BY <1>1 DEF Due
<1>3. ASSUME NEW j \in Interviews, NEW t, NEW p, Due(j, t), Clean(p)
      PROVE  Payer(p, j, t)' = Payer(p, j, t)
  <2>1. j # k /\ role'[j] = role[j]
    BY <1>1, <1>3 DEF Due
  <2>2. p[k] # Own
    BY <1>1, <1>3 DEF Clean, Nothing, Own
  <2>3. PICK s : s = role[j]
    OBVIOUS
  <2>4. OwnOf(p, s)' = OwnOf(p, s)
    BY <1>1, <2>2 DEF OwnOf, Own
  <2>5. OwnOf(p, role[j])' = OwnOf(p, role[j])
    BY <2>1, <2>3, <2>4 DEF OwnOf
  <2>6. Spendable(p, t)' = Spendable(p, t)
    BY <1>1 DEF credits, Spendable, PaidBy, LiveAt, FromCredit
  <2>7. EarliestExpiry(Spendable(p, t))' = EarliestExpiry(Spendable(p, t))
    BY <1>1 DEF credits, EarliestExpiry, Spendable, PaidBy, LiveAt, FromCredit
  <2> QED
    BY <2>5, <2>6, <2>7 DEF Payer, Own, Usage, FromCredit
<1>4. Settled(i)'
  BY <1>1 DEF Settled, MayYetPrecede, MayYetAffect, requests
<1>5. Allocation'[i] = Allocation[i]
  BY <1>1, <1>2, <1>3, PastKept
<1> QED
  BY <1>4, <1>5 DEF Stays

\* A step of an interview whose times, old and new, are after the settled one's.
LEMMA LaterKeeps ==
  ASSUME CreditInv, NEW k \in Interviews, NEW i \in Interviews, Settled(i), NEW K, K = orderedAt[i],
         k # i,
         UNCHANGED <<now, role, credits, requests>>,
         \A j \in Interviews \ {k} :
            UNCHANGED <<stage[j], endedAt[j], dated[j], orderedAt[j]>>,
         ~MayYetPrecede(k, K)',
         \A t \in 0..K : ~Due(k, t) /\ ~Due(k, t)'
  PROVE  Stays(i)
<1>1. Settled(i)'
  <2>1. ASSUME NEW j \in Interviews \ {i} PROVE ~MayYetPrecede(j, K)'
    <3>1. CASE j = k
      BY <3>1
    <3>2. CASE j # k
      <4>1. ~MayYetPrecede(j, K)
        BY DEF Settled
      <4> QED
        BY <3>2, <4>1 DEF MayYetPrecede
    <3> QED
      BY <3>1, <3>2
  <2>2. ASSUME NEW q \in Requests PROVE ~MayYetAffect(q, K)'
    BY DEF Settled, MayYetAffect, requests
  <2>3. orderedAt'[i] = K /\ stage'[i] = "used" /\ dated'[i] /\ orderedAt'[i] < now'
    BY DEF Settled
  <2> QED
    BY <2>1, <2>2, <2>3 DEF Settled, MayYetPrecede, MayYetAffect
<1>2. \A j \in Interviews, t \in 0..K : Due(j, t)' <=> Due(j, t)
  BY DEF Due
<1>3. \A j \in Interviews, t \in 0..K : \A p : Payer(p, j, t)' = Payer(p, j, t)
  BY SamePayer
<1>4. Allocation'[i] = Allocation[i]
  BY <1>2, <1>3, PastKept
<1> QED
  BY <1>1, <1>4 DEF Stays

LEMMA EndKeeps ==
  ASSUME CreditInv, NEW k \in Interviews, NEW i \in Interviews, Settled(i),
         EndInterview(k) \/ CompleteUnused(k)
  PROVE  Stays(i)
<1>1. PICK K : K = orderedAt[i]
  OBVIOUS
<1>2. /\ UNCHANGED <<now, role, dated, orderedAt, credits, requests>>
      /\ stage[k] \in {"running", "ending"} /\ stage'[k] \in {"ending", "completed"}
      /\ \A j \in Interviews \ {k} : stage'[j] = stage[j] /\ endedAt'[j] = endedAt[j]
      /\ \/ endedAt'[k] = now
         \/ endedAt'[k] = endedAt[k] /\ stage[k] = "ending"
  BY DEF EndInterview, CompleteUnused, CreditInv, CreditTypes
<1>3. k # i /\ ~dated[k] /\ endedAt'[k] > K
  BY <1>1, <1>2, SettledFacts DEF CreditInv, TimesSound
<1>4. ~MayYetPrecede(k, K)'
  <2>1. endedAt'[k] \in Int /\ K \in Int
    BY <1>1, <1>2, SettledFacts, CreditParameters DEF Times
  <2> QED
    BY <1>2, <1>3, <2>1 DEF MayYetPrecede
<1> QED
  BY <1>1, <1>2, <1>3, <1>4, LaterKeeps DEF Due

\* What is ordered, or ordered again, was not dated and ended later.
LEMMA OrderKeeps ==
  ASSUME CreditInv, NEW k \in Interviews, NEW i \in Interviews, Settled(i),
         OrderInterview(k), ~dated[k], stage[k] \in {"ending", "completed", "used"},
         UNCHANGED <<now, role, credits, requests>>,
         stage'[k] # "ending",
         dated'[k] \/ (stage'[k] = "used" /\ endedAt'[k] = endedAt[k]),
         \A j \in Interviews \ {k} : UNCHANGED <<stage[j], endedAt[j], dated[j]>>
  PROVE  Stays(i)
<1>1. PICK K : K = orderedAt[i]
  OBVIOUS
<1>2. /\ k # i /\ endedAt[k] > K /\ endedAt[k] \in Int /\ K \in Int
      /\ orderedAt[k] \in Int
  BY <1>1, SettledFacts, CreditParameters DEF Times
<1>3. orderedAt'[k] > K /\ orderedAt'[k] \in Int
  BY <1>2, OrderStep, CreditParameters DEF Times
<1>4. stage[k] = "used" => orderedAt[k] > K
  BY <1>2 DEF CreditInv, TimesSound
<1>5. \A t \in 0..K : ~Due(k, t) /\ ~Due(k, t)'
  BY <1>2, <1>3, <1>4 DEF Due
<1>6. ~MayYetPrecede(k, K)'
  BY <1>2, <1>3 DEF MayYetPrecede
<1> QED
  BY <1>1, <1>2, <1>5, <1>6, OrderStep, LaterKeeps

LEMMA UsedKeeps ==
  ASSUME CreditInv, NEW k \in Interviews, NEW i \in Interviews, Settled(i),
         CompleteInterview(k) \/ ScoreInterview(k)
  PROVE  Stays(i)
<1>1. PICK K : K = orderedAt[i]
  OBVIOUS
<1>2. /\ stage[k] \in {"ending", "completed"} /\ stage'[k] = "used"
      /\ UNCHANGED <<now, role, endedAt, dated, credits, requests>>
      /\ \A j \in Interviews \ {k} : stage'[j] = stage[j]
      /\ IF dated[k] THEN UNCHANGED orderedAt ELSE OrderInterview(k)
  BY DEF CompleteInterview, ScoreInterview, BecomeUsed, CreditInv, CreditTypes
<1>3. CASE dated[k]
  <2>1. stage[k] = "completed"
    BY <1>2, <1>3 DEF CreditInv, TimesSound
  <2>2. k # i /\ orderedAt[k] > K /\ orderedAt[k] \in Int /\ K \in Int
    BY <1>1, <1>3, <2>1, SettledFacts, CreditParameters DEF Times
  <2>3. \A t \in 0..K : ~Due(k, t) /\ ~Due(k, t)'
    BY <1>2, <1>3, <2>2 DEF Due
  <2>4. ~MayYetPrecede(k, K)'
    BY <1>2, <1>3 DEF MayYetPrecede
  <2> QED
    BY <1>1, <1>2, <1>3, <2>2, <2>3, <2>4, LaterKeeps
<1>4. CASE ~dated[k]
  BY <1>2, <1>4, OrderKeeps
<1> QED
  BY <1>3, <1>4

LEMMA DateKeeps ==
  ASSUME CreditInv, NEW k \in Interviews, NEW i \in Interviews, Settled(i),
         TouchInterview(k) \/ StampInterview(k)
  PROVE  Stays(i)
<1>1. CASE TouchInterview(k)
  BY <1>1, OrderKeeps DEF TouchInterview
<1>2. CASE StampInterview(k)
  <2>1. /\ OrderInterview(k) /\ ~dated[k] /\ stage[k] \in {"completed", "used"} /\ dated'[k]
        /\ UNCHANGED <<now, stage, role, credits, requests>>
        /\ \A j \in Interviews \ {k} : endedAt'[j] = endedAt[j] /\ dated'[j] = dated[j]
    BY <1>2 DEF StampInterview, MayStamp, CreditInv, CreditTypes
  <2> QED
    BY <2>1, OrderKeeps
<1> QED
  BY <1>1, <1>2

\* A request's answer leaves a settled interview settled.
LEMMA AnswerKeeps ==
  ASSUME CreditInv, NEW i \in Interviews, Settled(i), NEW q \in Requests, Answer(q),
         UNCHANGED <<now, interviews>>
  PROVE  Settled(i)'
<1>1. ASSUME NEW x \in Requests PROVE ~MayYetAffect(x, orderedAt[i])'
  <2>1. ~MayYetAffect(x, orderedAt[i])
    BY DEF Settled
  <2>2. x = q => step'[x] = "done"
    BY DEF Answer, CreditInv, CreditTypes
  <2>3. x # q => step'[x] = step[x] /\ since'[x] = since[x]
    BY DEF Answer, CreditInv, CreditTypes
  <2> QED
    BY <2>1, <2>2, <2>3 DEF MayYetAffect, interviews
<1> QED
  BY <1>1 DEF Settled, MayYetPrecede, interviews

\* A credit minted later pays for no earlier interview.
LEMMA MintKeeps ==
  ASSUME CreditInv, NEW i \in Interviews, Settled(i), NEW q \in Requests, MintInserts(q)
  PROVE  Stays(i)
<1>1. PICK K : K = orderedAt[i]
  OBVIOUS
<1>2. PICK e \in CreditIds : e = minted + 1
  BY DEF MintInserts
<1>3. PICK m \in TakenSince(q) : mintedAt' = [mintedAt EXCEPT ![e] = m]
  BY <1>2 DEF MintInserts
<1>4. m > K /\ m \in Nat /\ K \in Int /\ minted \in Nat
  <2>1. m \in Times /\ m >= since[q] /\ since[q] \in Times
    BY TakenType DEF CreditInv, CreditTypes
  <2>2. since[q] > K /\ K \in Times \cup {-1}
    BY <1>1, SettledFacts DEF MintInserts
  <2>3. minted \in Nat
    BY CreditParameters DEF CreditInv, CreditTypes
  <2> QED
    BY <2>1, <2>2, <2>3, CreditParameters DEF Times
<1>5. /\ minted' = e /\ mintedAt'[e] = m
      /\ \A c \in CreditIds \ {e} : /\ quantity'[c] = quantity[c] /\ mintedAt'[c] = mintedAt[c]
                                   /\ expiresAt'[c] = expiresAt[c]
      /\ UNCHANGED <<now, interviews, revokedAt>> /\ Answer(q)
  BY <1>2, <1>3 DEF MintInserts, CreditInv, CreditTypes
<1>6. 1..minted \subseteq CreditIds \ {e} /\ 1..minted' = 1..minted \cup {e}
  BY <1>2, <1>4, <1>5, CreditParameters DEF CreditIds
<1>7. ASSUME NEW j \in Interviews, NEW t \in 0..K, NEW p
      PROVE  Payer(p, j, t)' = Payer(p, j, t)
  <2>1. \A c \in 1..minted : LiveAt(c, t)' <=> LiveAt(c, t)
    BY <1>5, <1>6 DEF LiveAt
  <2>2. ~LiveAt(e, t)'
    BY <1>4, <1>5 DEF LiveAt
  <2>3. Spendable(p, t)' = Spendable(p, t)
    <3>1. \A c \in 1..minted : PaidBy(p, c)' = PaidBy(p, c) /\ quantity'[c] = quantity[c]
      BY <1>5, <1>6 DEF PaidBy, FromCredit
    <3>2. \A c \in 1..minted' : c \in 1..minted \/ c = e
      BY <1>6
    <3>3. \A c \in 1..minted : c \in 1..minted'
      BY <1>6
    <3> QED
      BY <2>1, <2>2, <3>1, <3>2, <3>3 DEF Spendable
  <2>4. \A c \in Spendable(p, t) : expiresAt'[c] = expiresAt[c]
    BY <1>5, <1>6 DEF Spendable
  <2> QED
    BY <1>5, <2>3, <2>4, SameSpendable DEF interviews
<1>8. \A j \in Interviews, t \in 0..K : Due(j, t)' <=> Due(j, t)
  BY <1>5 DEF Due, interviews
<1>9. Allocation'[i] = Allocation[i]
  BY <1>1, <1>5, <1>7, <1>8, PastKept DEF interviews
<1> QED
  BY <1>5, <1>9, AnswerKeeps DEF Stays

\* A credit revoked later pays for what it paid before.
LEMMA RevokeKeeps ==
  ASSUME CreditInv, NEW i \in Interviews, Settled(i), NEW q \in Requests, RevokeWrites(q)
  PROVE  Stays(i)
<1>1. PICK K : K = orderedAt[i]
  OBVIOUS
<1>2. /\ UNCHANGED <<now, interviews, minted, source, quantity, mintedAt, expiresAt>> /\ Answer(q)
      /\ since[q] > K /\ K \in Int /\ since[q] \in Int
  <2>1. since[q] > K /\ K \in Times \cup {-1}
    BY <1>1, SettledFacts DEF RevokeWrites
  <2>2. since[q] \in Times
    BY DEF CreditInv, CreditTypes
  <2> QED
    BY <2>1, <2>2, CreditParameters DEF RevokeWrites, Times
<1>3. ASSUME NEW j \in Interviews, NEW t \in 0..K, NEW p
      PROVE  Payer(p, j, t)' = Payer(p, j, t)
  <2>1. t <= MaxTime /\ t < since[q] /\ t \in Nat
    <3>1. since[q] \in Times
      BY DEF CreditInv, CreditTypes
    <3> QED
      BY <1>2, <3>1, CreditParameters DEF Times
  <2>2. ASSUME NEW c \in 1..minted PROVE t < revokedAt'[c] <=> t < revokedAt[c]
    <3>1. CASE revokedAt'[c] = revokedAt[c]
      BY <3>1
    <3>2. CASE revokedAt[c] = Never /\ revokedAt'[c] \in Times /\ revokedAt'[c] >= since[q]
      BY <1>2, <2>1, <3>2, CreditParameters DEF Never, Times
    <3> QED
      BY <3>1, <3>2, RevokedOnce
  <2>3. \A c \in 1..minted : LiveAt(c, t)' <=> LiveAt(c, t)
    BY <1>2, <2>2 DEF LiveAt
  <2>4. Spendable(p, t)' = Spendable(p, t)
    BY <1>2, <2>3 DEF Spendable, PaidBy, FromCredit
  <2> QED
    BY <1>2, <2>4, SameSpendable DEF interviews
<1>4. \A j \in Interviews, t \in 0..K : Due(j, t)' <=> Due(j, t)
  BY <1>2 DEF Due, interviews
<1>5. Allocation'[i] = Allocation[i]
  BY <1>1, <1>2, <1>3, <1>4, PastKept DEF interviews
<1> QED
  BY <1>2, <1>5, AnswerKeeps DEF Stays

\* The others touch neither interviews nor credits; what a request reads now is
\* later than what is settled.
LEMMA OthersKeep ==
  ASSUME CreditInv, NEW i \in Interviews, Settled(i), CreditTypes',
         \/ TimePasses
         \/ \E q \in Requests :
              \/ \E r \in Roles, active \in BOOLEAN : WriteStatus(q, r, active)
              \/ MintLooks(q) \/ MintMeasures(q) \/ MintLoses(q) \/ RevokeFinds(q) \/ SyncFails(q)
  PROVE  Stays(i)
<1>1. PICK K : K = orderedAt[i]
  OBVIOUS
<1>2. UNCHANGED <<interviews, credits>>
  BY DEF TimePasses, WriteStatus, MintLooks, MintMeasures, MintLoses, RevokeFinds, SyncFails
<1>3. \A j \in Interviews, t \in 0..K : \A p : Payer(p, j, t)' = Payer(p, j, t)
  BY <1>2, SamePayer DEF interviews
<1>4. \A j \in Interviews, t \in 0..K : Due(j, t)' <=> Due(j, t)
  BY <1>2 DEF Due, interviews
<1>5. Allocation'[i] = Allocation[i]
  BY <1>1, <1>2, <1>3, <1>4, PastKept DEF interviews
<1>6. CASE TimePasses
  <2>1. K \in Int /\ now \in Int /\ K < now /\ now' = now + 1 /\ UNCHANGED <<interviews, requests>>
    BY <1>1, <1>6, SettledFacts, CreditParameters DEF TimePasses, Times
  <2>2. Settled(i)'
    BY <1>1, <2>1 DEF Settled, MayYetPrecede, MayYetAffect, interviews, requests
  <2> QED
    BY <1>5, <2>2 DEF Stays
<1>7. ASSUME NEW q \in Requests,
             \/ \E r \in Roles, active \in BOOLEAN : WriteStatus(q, r, active)
             \/ MintLooks(q) \/ MintMeasures(q) \/ MintLoses(q) \/ RevokeFinds(q) \/ SyncFails(q)
      PROVE  Stays(i)
  <2>1. now' = now
    BY <1>7 DEF WriteStatus, MintLooks, MintMeasures, MintLoses, RevokeFinds, SyncFails
  <2>2. CASE Answer(q)
    BY <1>2, <1>5, <2>1, <2>2, AnswerKeeps DEF Stays
  <2>3. CASE ~Answer(q)
    <3>1. /\ step'[q] \in {"insert", "revoke"} => since'[q] = now
          /\ \A x \in Requests \ {q} : step'[x] = step[x] /\ since'[x] = since[x]
      BY <1>7, <2>3 DEF WriteStatus, MintLooks, MintMeasures, MintLoses, RevokeFinds, SyncFails,
                        CreditInv, CreditTypes
    <3>2. K < now /\ K \in Int /\ now \in Int
      BY <1>1, SettledFacts, CreditParameters DEF Times
    <3>3. ASSUME NEW x \in Requests PROVE ~MayYetAffect(x, K)'
      <4>1. ~MayYetAffect(x, K)
        BY <1>1 DEF Settled
      <4> QED
        BY <3>1, <3>2, <4>1 DEF MayYetAffect
    <3>4. Settled(i)'
      BY <1>1, <1>2, <2>1, <3>3 DEF Settled, MayYetPrecede, MayYetAffect, interviews
    <3> QED
      BY <1>5, <3>4 DEF Stays
  <2> QED
    BY <2>2, <2>3
<1> QED
  BY <1>6, <1>7

\* The payer of a settled interview is final: redelivered events, late scores and
\* stamps, credits minted, revoked or expired and further interviews never change
\* it (allocateInterviewRows, markInterviewCompleted, interviewCredits.js).
THEOREM FinalPayers == CreditSpec => SettledPayersStay
<1>1. ASSUME CreditInv, CreditInv', CreditNext, NEW i \in Interviews, Settled(i)
      PROVE  Stays(i)
  <2>1. CASE \E k \in Interviews : \E r \in Roles : StartInterview(k, r)
    BY <1>1, <2>1, StartKeeps
  <2>2. CASE \E k \in Interviews : EndInterview(k) \/ CompleteUnused(k)
    BY <1>1, <2>2, EndKeeps
  <2>3. CASE \E k \in Interviews : CompleteInterview(k) \/ ScoreInterview(k)
    BY <1>1, <2>3, UsedKeeps
  <2>4. CASE \E k \in Interviews : TouchInterview(k) \/ StampInterview(k)
    BY <1>1, <2>4, DateKeeps
  <2>5. CASE \E q \in Requests : MintInserts(q)
    BY <1>1, <2>5, MintKeeps
  <2>6. CASE \E q \in Requests : RevokeWrites(q)
    BY <1>1, <2>6, RevokeKeeps
  <2>7. CASE \/ TimePasses
             \/ \E q \in Requests :
                  \/ \E r \in Roles, active \in BOOLEAN : WriteStatus(q, r, active)
                  \/ MintLooks(q) \/ MintMeasures(q) \/ MintLoses(q) \/ RevokeFinds(q)
                  \/ SyncFails(q)
    BY <1>1, <2>7, OthersKeep DEF CreditInv
  <2> QED
    BY <1>1, <2>1, <2>2, <2>3, <2>4, <2>5, <2>6, <2>7 DEF CreditNext, CreditWork, Sync
<1>2. CreditInv /\ CreditInv' /\ [CreditNext]_creditVars =>
        [\A i \in Interviews :
            Settled(i) => Settled(i)' /\ Allocation'[i] = Allocation[i]]_creditVars
  BY <1>1 DEF Stays
<1> QED
  BY <1>2, CreditInvariance, PTL DEF CreditSpec, SettledPayersStay

-----------------------------------------------------------------------------
(* InterviewCredits: what the replay spends.                               *)

\* A set of naturals has a least member.
LEMMA LeastMember ==
  ASSUME NEW T, T \subseteq Nat, T # {}
  PROVE  \E m \in T : \A n \in T : m <= n
<1>1. PICK m \in T : \A n \in T : <<n, m>> \notin OpToRel(<, Nat)
  BY WFMin, NatLessThanWellFounded
<1>2. ASSUME NEW n \in T PROVE m <= n
  <2>1. m \in Nat /\ n \in Nat
    OBVIOUS
  <2>2. ~(n < m)
    BY <1>1, <2>1 DEF OpToRel
  <2> QED
    BY <2>1, <2>2
<1> QED
  BY <1>2

\* The credit that expires first is one of those it is chosen from.
LEMMA EarliestIsSpendable ==
  ASSUME CreditTypes, NEW S, S \subseteq 1..minted, S # {}
  PROVE  EarliestExpiry(S) \in S
<1> USE CreditParameters
<1>1. S \subseteq CreditIds /\ S \subseteq Nat /\ \A c \in S : expiresAt[c] \in Nat
  BY DEF CreditTypes, CreditIds
<1>2. PICK t \in {expiresAt[c] : c \in S} : \A u \in {expiresAt[c] : c \in S} : t <= u
  <2>1. PICK E : E = {expiresAt[c] : c \in S}
    OBVIOUS
  <2>2. E \subseteq Nat /\ E # {}
    BY <1>1, <2>1
  <2>3. \E m \in E : \A n \in E : m <= n
    BY <2>2, LeastMember
  <2> QED
    BY <2>1, <2>3
<1>3. PICK c \in {d \in S : expiresAt[d] = t} : \A d \in {d \in S : expiresAt[d] = t} : c <= d
  <2>1. {d \in S : expiresAt[d] = t} # {}
    BY <1>2
  <2> QED
    BY <1>1, <2>1, LeastMember
<1>4. \A d \in S : expiresAt[c] < expiresAt[d] \/ (expiresAt[c] = expiresAt[d] /\ c <= d)
  BY <1>1, <1>2, <1>3
<1> QED
  BY <1>3, <1>4 DEF EarliestExpiry

\* Before its time an interview has no payer.
Awaits == \A t \in -1..MaxTime, i \in Interviews : orderedAt[i] > t => Replay[t][i] = Nothing

LEMMA ReplayAwaits == CreditTypes => Awaits
<1> SUFFICES ASSUME CreditTypes PROVE Awaits
  OBVIOUS
<1> DEFINE S == {t \in -1..MaxTime : \A i \in Interviews : orderedAt[i] > t => Replay[t][i] = Nothing}
<1> USE CreditParameters DEF Times
<1>1. -1 \in S
  BY ReplayUnfolds DEF Unfolds, Unpaid
<1>2. ASSUME NEW n \in 0..MaxTime, n - 1 \in S PROVE n \in S
  <2>1. PICK p : p = Replay[n - 1]
    OBVIOUS
  <2>2. Replay[n] = Paid(p, n)
    BY <2>1, ReplayUnfolds DEF Unfolds
  <2>3. ASSUME NEW i \in Interviews, orderedAt[i] > n PROVE Replay[n][i] = Nothing
    <3>1. orderedAt[i] \in Times \cup {-1}
      BY DEF CreditTypes
    <3>2. orderedAt[i] > n - 1 /\ orderedAt[i] # n
      BY <2>3, <3>1
    <3>3. p[i] = Nothing
      BY <1>2, <2>1, <3>2
    <3> QED
      BY <2>2, <3>2, <3>3 DEF Paid, Due
  <2> QED
    BY <2>3
<1>3. \A n \in -1..MaxTime : n \in S
  <2> HIDE DEF S
  <2> QED
    BY <1>1, <1>2, TimesInduction
<1> QED
  BY <1>3 DEF Awaits

\* In a history p: a credit pays within its quantity, a role within its allowance.
Within(p) ==
    /\ \A c \in 1..minted : Cardinality(PaidBy(p, c)) <= quantity[c]
    /\ \A r \in Roles : Cardinality(OwnOf(p, r)) <= Allowance

NothingIsOverdrawn == Within(Allocation)

\* One more interview gets a payer that still has something left.
LEMMA PayingWithin ==
  ASSUME CreditInv, NEW p, Within(p), NEW i \in Interviews, NEW t \in Times, p[i] = Nothing,
         \A j \in Interviews : Due(j, t) => j = i
  PROVE  Within(Paid(p, t))
<1> USE CreditParameters
<1>1. CASE ~Due(i, t)
  <2>1. \A j \in Interviews : Paid(p, t)[j] = p[j]
    BY <1>1 DEF Paid
  <2> QED
    BY <2>1 DEF Within, PaidBy, OwnOf
<1>2. CASE Due(i, t)
  <2> DEFINE q == Paid(p, t)
  <2>1. q[i] = Payer(p, i, t) /\ \A j \in Interviews \ {i} : q[j] = p[j]
    BY <1>2 DEF Paid
  <2> HIDE DEF q
  <2>2. ASSUME NEW c \in 1..minted PROVE Cardinality(PaidBy(q, c)) <= quantity[c]
    <3>1. PaidBy(p, c) \subseteq Interviews /\ i \notin PaidBy(p, c) /\ IsFiniteSet(PaidBy(p, c))
      BY FiniteInterviews, FS_Subset DEF PaidBy, Nothing, FromCredit
    <3>2. CASE q[i] # FromCredit(c)
      <4>1. PaidBy(q, c) = PaidBy(p, c)
        BY <2>1, <3>1, <3>2 DEF PaidBy
      <4> QED
        BY <4>1 DEF Within
    <3>3. CASE q[i] = FromCredit(c)
      <4>1. PaidBy(q, c) = PaidBy(p, c) \cup {i}
        BY <2>1, <3>1, <3>3 DEF PaidBy
      <4>2. Spendable(p, t) # {} /\ c = EarliestExpiry(Spendable(p, t))
        BY <2>1, <3>3 DEF Payer, FromCredit, Own, Usage
      <4>3. c \in Spendable(p, t)
        <5>1. Spendable(p, t) \subseteq 1..minted
          BY DEF Spendable
        <5> QED
          BY <4>2, <5>1, EarliestIsSpendable DEF CreditInv
      <4>4. Cardinality(PaidBy(p, c)) < quantity[c]
        BY <4>3 DEF Spendable
      <4>5. Cardinality(PaidBy(q, c)) = Cardinality(PaidBy(p, c)) + 1
        BY <3>1, <4>1, FS_AddElement
      <4>6. Cardinality(PaidBy(p, c)) \in Nat /\ quantity[c] \in Nat
        BY <3>1, FS_CardinalityType DEF CreditInv, CreditTypes, CreditIds
      <4> QED
        BY <4>4, <4>5, <4>6
    <3> QED
      BY <3>2, <3>3
  <2>3. ASSUME NEW r \in Roles PROVE Cardinality(OwnOf(q, r)) <= Allowance
    <3>1. OwnOf(p, r) \subseteq Interviews /\ i \notin OwnOf(p, r) /\ IsFiniteSet(OwnOf(p, r))
      BY FiniteInterviews, FS_Subset DEF OwnOf, Nothing, Own
    <3>2. CASE ~(q[i] = Own /\ role[i] = r)
      <4>1. OwnOf(q, r) = OwnOf(p, r)
        BY <2>1, <3>1, <3>2 DEF OwnOf
      <4> QED
        BY <4>1 DEF Within
    <3>3. CASE q[i] = Own /\ role[i] = r
      <4>1. OwnOf(q, r) = OwnOf(p, r) \cup {i}
        BY <2>1, <3>1, <3>3 DEF OwnOf
      <4>2. Cardinality(OwnOf(p, r)) < Allowance
        BY <2>1, <3>3 DEF Payer, FromCredit, Own, Usage
      <4>3. Cardinality(OwnOf(q, r)) = Cardinality(OwnOf(p, r)) + 1
        BY <3>1, <4>1, FS_AddElement
      <4>4. Cardinality(OwnOf(p, r)) \in Nat
        BY <3>1, FS_CardinalityType
      <4> QED
        BY <4>2, <4>3, <4>4
    <3> QED
      BY <3>2, <3>3
  <2> QED
    BY <2>2, <2>3 DEF Within, q
<1> QED
  BY <1>1, <1>2

LEMMA SpentWithin == CreditInv => NothingIsOverdrawn
<1> SUFFICES ASSUME CreditInv PROVE NothingIsOverdrawn
  OBVIOUS
<1> DEFINE S == {t \in -1..MaxTime : Within(Replay[t])}
<1> USE CreditParameters DEF Times
<1>1. -1 \in S
  <2>1. PICK p : p = Replay[-1]
    OBVIOUS
  <2>2. \A c \in 1..minted : PaidBy(p, c) = {}
    BY <2>1, ReplayUnfolds DEF Unfolds, Unpaid, PaidBy, Nothing, FromCredit
  <2>3. \A r \in Roles : OwnOf(p, r) = {}
    BY <2>1, ReplayUnfolds DEF Unfolds, Unpaid, OwnOf, Nothing, Own
  <2>4. \A c \in 1..minted : quantity[c] \in Nat
    BY DEF CreditInv, CreditTypes, CreditIds
  <2>5. Within(p)
    BY <2>2, <2>3, <2>4, FS_EmptySet DEF Within
  <2> QED
    BY <2>1, <2>5
<1>2. ASSUME NEW n \in 0..MaxTime, n - 1 \in S PROVE n \in S
  <2>1. PICK p : p = Replay[n - 1]
    OBVIOUS
  <2>2. Replay[n] = Paid(p, n) /\ Within(p)
    BY <1>2, <2>1, ReplayUnfolds DEF Unfolds
  <2>3. CASE \E i \in Interviews : Due(i, n)
    <3>1. PICK i \in Interviews : Due(i, n)
      BY <2>3
    <3>2. \A j \in Interviews : Due(j, n) => j = i
      BY <3>1 DEF Due, CreditInv, TimesSound
    <3>3. p[i] = Nothing
      BY <2>1, <3>1, ReplayAwaits DEF CreditInv, Awaits, Due
    <3> QED
      BY <2>2, <3>2, <3>3, PayingWithin
  <2>4. CASE \A i \in Interviews : ~Due(i, n)
    <3>1. \A j \in Interviews : Paid(p, n)[j] = p[j]
      BY <2>4 DEF Paid
    <3>2. Within(Paid(p, n))
      BY <2>2, <3>1 DEF Within, PaidBy, OwnOf
    <3> QED
      BY <2>2, <3>2
  <2> QED
    BY <2>3, <2>4
<1>3. \A n \in -1..MaxTime : n \in S
  <2> HIDE DEF S
  <2> QED
    BY <1>1, <1>2, TimesInduction
<1> QED
  BY <1>3 DEF NothingIsOverdrawn, Allocation

\* The replay never lets a credit pay for more than its quantity, nor a role
\* for more than its allowance (the checks of allocateInterviewRows).
THEOREM NothingOverdrawn == CreditSpec => []NothingIsOverdrawn
<1> QED
  BY SpentWithin, CreditInvariance, PTL
=============================================================================
