---------------------------- MODULE Sales_proofs ----------------------------
(***************************************************************************)
(* Proofs about the two modules of the sales integrations, for any values  *)
(* of their constants.                                                     *)
(*                                                                         *)
(* SalesDeliveries: what a worker may write depends on what it has seen    *)
(* the providers do, and on a row's lock naming it: a worker whose lease   *)
(* was taken over keeps what it saw but no longer has a lock.              *)
(*                                                                         *)
(* SalesDeals: nothing is locked and no transaction spans a creation, but  *)
(* a request draws an id nobody has, so what happens to a deal is one      *)
(* request's making and unmaking of it, in the order of its calls, and a   *)
(* cancellation in between.                                                *)
(***************************************************************************)
EXTENDS SalesDeliveries, SalesDeals, TLAPS

-----------------------------------------------------------------------------
(* The inductive invariant.                                                *)

\* What the place of a worker says of the providers.
Seen(j) ==
    /\ job[j].pc = "post" => job[j].k # "ghl"
    /\ job[j].pc \in {"check", "put", "list", "note", "binding"} => job[j].k = "ghl"
    /\ job[j].pc \in {"list", "note"} => won
    /\ job[j].pc = "binding" => won /\ notes > 0
    /\ job[j].pc = "delivered" =>
         IF job[j].k = "ghl" THEN won /\ notes > 0 ELSE job[j].k \in posted

\* The rows that a job has inserted, claimed or is working on exist.
Exist(j) ==
    /\ job[j].pc = "insert" => \A k \in job[j].all \ job[j].todo : row[k].status # "none"
    /\ job[j].pc = "next" => \A k \in job[j].batch : row[k].status # "none"
    /\ job[j].pc \in Delivering =>
         \A k \in job[j].batch \cup {job[j].k} : row[k].status # "none"

\* A row that is not being delivered has no lock.
Unlocked == \A k \in Kinds : row[k].status # "processing" => row[k].lock = None

\* A row that is missing is as no job has touched it.
Untouched == \A k \in Kinds : row[k].status = "none" => row[k] = NoRow

Sound == \A j \in Jobs : Seen(j) /\ Exist(j)

IInv == TypeOK /\ Sound /\ Unlocked /\ Untouched /\ DeliveredIsThere /\ MissingIsListed

-----------------------------------------------------------------------------
(* Types.                                                                  *)

JobStates == Waiting \cup Enqueueing \cup Choosing \cup Working
RowStates == [status : {"none", "pending", "processing", "retry", "failed", "delivered"},
              tries : Nat, lock : Jobs \cup {None}, stale : BOOLEAN]

\* The place of a job tells what its record holds.
LEMMA Shapes ==
  ASSUME NEW x \in JobStates
  PROVE  /\ x.pc = "insert" => x \in Enqueueing
         /\ x.pc = "next" => x \in Choosing
         /\ x.pc \in Delivering => x \in Working
  BY DEF JobStates, Waiting, Enqueueing, Choosing, Working, Delivering

\* One job changes its record, the others keep theirs.
LEMMA Changes ==
  ASSUME TypeOK, NEW j \in Jobs, NEW x \in JobStates, Becomes(j, x)
  PROVE  /\ job' \in [Jobs -> JobStates]
         /\ job'[j] = x
         /\ \A i \in Jobs \ {j} : job'[i] = job[i]
  BY DEF TypeOK, Becomes, JobStates

\* A job that delivers a row goes on to another call of the delivery.
LEMMA GoesOn ==
  ASSUME TypeOK, NEW j \in Jobs, job[j].pc \in Delivering, NEW pc \in Delivering, Moves(j, pc)
  PROVE  /\ job' \in [Jobs -> JobStates]
         /\ job'[j].pc = pc /\ job'[j].k = job[j].k /\ job'[j].batch = job[j].batch
         /\ job[j].k \in Kinds
         /\ \A i \in Jobs \ {j} : job'[i] = job[i]
<1>1. job[j] \in Working
  BY Shapes DEF TypeOK, JobStates
<1>2. job' = [job EXCEPT ![j] = [job[j] EXCEPT !.pc = pc]]
  BY DEF Moves
<1>3. [job[j] EXCEPT !.pc = pc] \in Working
  BY <1>1 DEF Working
<1>4. /\ [job[j] EXCEPT !.pc = pc].pc = pc
      /\ [job[j] EXCEPT !.pc = pc].k = job[j].k
      /\ [job[j] EXCEPT !.pc = pc].batch = job[j].batch
  BY <1>1 DEF Working
<1> QED
  BY <1>1, <1>2, <1>3, <1>4 DEF TypeOK, JobStates, Working

\* A job that delivers a row has failed.
LEMMA FailsOn ==
  ASSUME TypeOK, NEW j \in Jobs, job[j].pc \in Delivering, NEW r \in BOOLEAN, Fails(j, r)
  PROVE  /\ job' \in [Jobs -> JobStates]
         /\ job'[j].pc = "failed" /\ job'[j].k = job[j].k /\ job'[j].batch = job[j].batch
         /\ job[j].k \in Kinds
         /\ \A i \in Jobs \ {j} : job'[i] = job[i]
<1> DEFINE x == [job[j] EXCEPT !.pc = "failed", !.last = @ \/ ~r]
<1>1. job[j] \in Working
  BY Shapes DEF TypeOK, JobStates
<1>2. x \in Working /\ x.pc = "failed" /\ x.k = job[j].k /\ x.batch = job[j].batch
  BY <1>1 DEF Working, Delivering
<1>3. Becomes(j, x)
  BY DEF Fails
<1>4. job[j].k \in Kinds
  BY <1>1 DEF Working
<1> QED
  BY <1>2, <1>3, <1>4, Changes DEF JobStates

\* A job that is done with a row chooses the next.
LEMMA ContinuesOn ==
  ASSUME TypeOK, NEW j \in Jobs, job[j].pc \in Delivering, Continues(j)
  PROVE  /\ job' \in [Jobs -> JobStates]
         /\ job'[j].pc = "next" /\ job'[j].batch = job[j].batch
         /\ \A i \in Jobs \ {j} : job'[i] = job[i]
<1> DEFINE x == [pc |-> "next", batch |-> job[j].batch, last |-> job[j].rest]
<1>1. job[j] \in Working
  BY Shapes DEF TypeOK, JobStates
<1>2. x \in Choosing
  BY <1>1 DEF Working, Choosing
<1>3. Becomes(j, x)
  BY DEF Continues
<1> QED
  BY <1>2, <1>3, Changes DEF JobStates

\* The outcome of a delivery is written only by the holder of its lock.
LEMMA Outcome ==
  ASSUME TypeOK, NEW j \in Jobs, NEW k \in Kinds,
         NEW status \in {"retry", "failed", "delivered"}, UpdateClaimedDelivery(j, k, status)
  PROVE  /\ row' \in [Kinds -> RowStates]
         /\ \A m \in Kinds :
              \/ row'[m] = row[m]
              \/ /\ m = k /\ row[m].lock = j
                 /\ row'[m].status = status /\ row'[m].lock = None
<1>1. CASE row[k].lock # j
  BY <1>1 DEF UpdateClaimedDelivery, TypeOK, RowStates
<1>2. CASE row[k].lock = j
  BY <1>2 DEF UpdateClaimedDelivery, TypeOK, RowStates
<1> QED
  BY <1>1, <1>2

-----------------------------------------------------------------------------
(* What holds of a step holds of every job.                                *)

\* What the providers have stays, and no row disappears.
Grows ==
    /\ won => won'
    /\ notes > 0 => notes' > 0
    /\ posted \subseteq posted'
    /\ \A k \in Kinds : row[k].status # "none" => row'[k].status # "none"

\* A job that takes no step stays sound.
LEMMA BystanderSound ==
  ASSUME TypeOK, NEW i \in Jobs, Seen(i), Exist(i), job'[i] = job[i], Grows
  PROVE  Seen(i)' /\ Exist(i)'
<1> USE DEF Grows
<1>1. job[i] \in JobStates
  BY DEF TypeOK, JobStates
<1>2. Seen(i)'
  BY DEF Seen
<1>3. job[i].pc = "insert" => job[i].all \subseteq Kinds
  BY <1>1, Shapes DEF Enqueueing
<1>4. job[i].pc = "next" => job[i].batch \subseteq Kinds
  BY <1>1, Shapes DEF Choosing
<1>5. job[i].pc \in Delivering => job[i].batch \cup {job[i].k} \subseteq Kinds
  BY <1>1, Shapes DEF Working
<1>6. Exist(i)'
  BY <1>3, <1>4, <1>5 DEF Exist
<1> QED
  BY <1>2, <1>6

\* A step that moves one job needs a look at that job alone.
LEMMA MoverSound ==
  ASSUME TypeOK, Sound, NEW j \in Jobs, \A i \in Jobs \ {j} : job'[i] = job[i], Grows,
         Seen(j)', Exist(j)'
  PROVE  Sound'
  BY BystanderSound DEF Sound

\* Nothing changes but a job: what the rows say stays.
LEMMA RowsRest ==
  ASSUME Unlocked, Untouched, DeliveredIsThere, MissingIsListed,
         UNCHANGED <<marked, row, review, provider>>
  PROVE  Grows /\ Unlocked' /\ Untouched' /\ DeliveredIsThere' /\ MissingIsListed'
  BY DEF Grows, Unlocked, Untouched, DeliveredIsThere, MissingIsListed, provider

-----------------------------------------------------------------------------
(* The invariant is inductive: one lemma for each group of actions.        *)

\* The sale is completed, a lease runs out.
LEMMA WorldStep ==
  ASSUME IInv, CompleteSale \/ \E k \in Kinds : ExpireLease(k)
  PROVE  IInv'
<1> USE DEF IInv
<1>1. CASE CompleteSale
  <2>1. UNCHANGED <<marked, row, review, provider>> /\ job' = job /\ TypeOK'
    BY <1>1 DEF CompleteSale, TypeOK, provider
  <2>2. Sound'
    BY <2>1, RowsRest, BystanderSound DEF Sound
  <2> QED
    BY <2>1, <2>2, RowsRest
<1>2. ASSUME NEW k \in Kinds, ExpireLease(k) PROVE IInv'
  <2>1. /\ UNCHANGED <<completed, marked, review, provider, job>>
        /\ row' \in [Kinds -> RowStates]
        /\ \A m \in Kinds : row'[m].status = row[m].status /\ row'[m].lock = row[m].lock
        /\ \A m \in Kinds : row[m].status = "none" => row'[m] = row[m]
    BY <1>2 DEF ExpireLease, TypeOK, RowStates
  <2>2. TypeOK'
    BY <2>1 DEF TypeOK, RowStates, provider
  <2>3. Grows
    BY <2>1 DEF Grows, provider
  <2>4. Sound'
    BY <2>1, <2>3, BystanderSound DEF Sound
  <2>5. Unlocked' /\ Untouched' /\ DeliveredIsThere' /\ MissingIsListed'
    BY <2>1 DEF Unlocked, Untouched, DeliveredIsThere, MissingIsListed, provider
  <2> QED
    BY <2>2, <2>4, <2>5
<1> QED
  BY <1>1, <1>2

\* A job reads the sale and inserts its rows.
LEMMA EnqueueStep ==
  ASSUME IInv, NEW j \in Jobs,
         \/ \E worker, active \in BOOLEAN : ReadSale(j, worker, active)
         \/ \E k \in Kinds : InsertDelivery(j, k)
         \/ InsertFails(j)
         \/ MarkEnqueued(j)
  PROVE  IInv'
<1> USE DEF IInv
<1>1. ASSUME NEW worker \in BOOLEAN, NEW active \in BOOLEAN, ReadSale(j, worker, active)
      PROVE  IInv'
  <2> DEFINE x == [pc |-> "insert", todo |-> Missing, all |-> Missing, worker |-> worker]
             y == [pc |-> "claim"]
  <2>1. UNCHANGED <<completed, marked, row, review, provider>> /\ (Becomes(j, x) \/ Becomes(j, y))
    BY <1>1 DEF ReadSale
  <2>2. x \in JobStates /\ y \in JobStates
    BY DEF JobStates, Waiting, Enqueueing, Missing, Slack
  <2>3. /\ job' \in [Jobs -> JobStates]
        /\ job'[j] = x \/ job'[j] = y
        /\ \A i \in Jobs \ {j} : job'[i] = job[i]
    BY <2>1, <2>2, Changes
  <2>4. TypeOK'
    BY <2>1, <2>3 DEF TypeOK, JobStates, provider
  <2>5. Seen(j)' /\ Exist(j)'
    BY <2>3 DEF Seen, Exist, Delivering
  <2> QED
    BY <2>1, <2>3, <2>4, <2>5, RowsRest, MoverSound
<1>2. ASSUME NEW k \in Kinds, InsertDelivery(j, k) PROVE IInv'
  <2> DEFINE x == [job[j] EXCEPT !.todo = @ \ {k}]
  <2>1. /\ UNCHANGED <<completed, marked, review, provider>>
        /\ job[j].pc = "insert" /\ Becomes(j, x)
    BY <1>2 DEF InsertDelivery, At, Becomes
  <2>2. job[j] \in Enqueueing
    BY <2>1, Shapes DEF TypeOK, JobStates
  <2>3. x \in JobStates /\ x.pc = "insert" /\ x.all = job[j].all /\ x.todo = job[j].todo \ {k}
    BY <2>2 DEF Enqueueing, JobStates
  <2>4. /\ job' \in [Jobs -> JobStates]
        /\ job'[j] = x
        /\ \A i \in Jobs \ {j} : job'[i] = job[i]
    BY <2>1, <2>3, Changes
  <2>5. /\ row' \in [Kinds -> RowStates]
        /\ row'[k].status # "none"
        /\ \A m \in Kinds : row'[m] = row[m] \/ (row[m].status = "none" /\ row'[m].status = "pending" /\ row'[m].lock = None)
    <3>1. CASE row[k] = NoRow
      <4> DEFINE y == [row[k] EXCEPT !.status = "pending"]
      <4>1. row' = [row EXCEPT ![k] = y]
        BY <1>2, <3>1 DEF InsertDelivery
      <4>2. row[k] \in RowStates /\ row \in [Kinds -> RowStates]
        BY DEF TypeOK, RowStates
      <4>3. y \in RowStates /\ y.status = "pending" /\ y.lock = row[k].lock
        BY <4>2 DEF RowStates
      <4>4. row[k].status = "none" /\ row[k].lock = None
        BY <3>1 DEF NoRow
      <4> QED
        BY <4>1, <4>2, <4>3, <4>4
    <3>2. CASE row[k] # NoRow
      BY <1>2, <3>2 DEF InsertDelivery, TypeOK, RowStates, Untouched
    <3> QED
      BY <3>1, <3>2
  <2>6. TypeOK'
    BY <2>1, <2>4, <2>5 DEF TypeOK, JobStates, RowStates, provider
  <2>7. Grows
    BY <2>1, <2>5 DEF Grows, provider
  <2>8. Seen(j)' /\ Exist(j)'
    <3>1. Seen(j)'
      BY <2>3, <2>4 DEF Seen, Delivering
    <3>2. \A m \in job[j].all \ job[j].todo : m \in Kinds /\ row'[m].status # "none"
      BY <2>1, <2>2, <2>7 DEF Sound, Exist, Enqueueing, Grows
    <3> QED
      BY <2>3, <2>4, <2>5, <3>1, <3>2 DEF Exist, Delivering
  <2>9. Unlocked' /\ Untouched' /\ DeliveredIsThere' /\ MissingIsListed'
    BY <2>1, <2>5 DEF Unlocked, Untouched, DeliveredIsThere, MissingIsListed, provider
  <2> QED
    BY <2>4, <2>6, <2>7, <2>8, <2>9, MoverSound
<1> DEFINE over == IF job[j].worker THEN [pc |-> "claim"] ELSE Idle
<1>3. ASSUME AfterEnqueue(j, job[j].worker)
      PROVE  /\ job' \in [Jobs -> JobStates]
             /\ job'[j].pc \in {"claim", "idle"}
             /\ \A i \in Jobs \ {j} : job'[i] = job[i]
  <2>1. over \in Waiting /\ over.pc \in {"claim", "idle"}
    BY DEF Waiting, Idle
  <2> QED
    BY <1>3, <2>1, Changes DEF AfterEnqueue, JobStates
<1>4. ASSUME AfterEnqueue(j, job[j].worker) PROVE Seen(j)' /\ Exist(j)'
  BY <1>3, <1>4 DEF Seen, Exist, Delivering
<1>5. CASE InsertFails(j)
  <2>1. UNCHANGED <<completed, marked, row, review, provider>> /\ AfterEnqueue(j, job[j].worker)
    BY <1>5 DEF InsertFails, GivesUp
  <2>2. TypeOK'
    BY <1>3, <2>1 DEF TypeOK, JobStates, provider
  <2> QED
    BY <1>3, <1>4, <2>1, <2>2, RowsRest, MoverSound
<1>6. CASE MarkEnqueued(j)
  <2>1. /\ UNCHANGED <<completed, row, review, provider>> /\ AfterEnqueue(j, job[j].worker)
        /\ job[j].pc = "insert" /\ job[j].todo = {}
        /\ marked' = marked \/ marked' = marked \cup (job[j].all \cap Slack)
    BY <1>6 DEF MarkEnqueued, At
  <2>2. TypeOK'
    BY <1>3, <2>1 DEF TypeOK, JobStates, provider
  <2>3. \A k \in job[j].all : row[k].status # "none"
    BY <2>1 DEF Sound, Exist
  <2>4. Grows /\ Unlocked' /\ Untouched' /\ DeliveredIsThere'
    BY <2>1 DEF Grows, Unlocked, Untouched, DeliveredIsThere, provider
  <2>5. MissingIsListed'
    BY <2>1, <2>3 DEF MissingIsListed
  <2> QED
    BY <1>3, <1>4, <2>1, <2>2, <2>4, <2>5, MoverSound
<1> QED
  BY <1>1, <1>2, <1>5, <1>6

\* A job claims a batch and chooses a row from it.
LEMMA ClaimStep ==
  ASSUME IInv, NEW j \in Jobs, (\E batch \in SUBSET Kinds : Claim(j, batch)) \/ NextDelivery(j)
  PROVE  IInv'
<1> USE DEF IInv
<1>1. ASSUME NEW batch \in SUBSET Kinds, Claim(j, batch) PROVE IInv'
  <2> DEFINE last == {k \in batch : row[k].tries + 1 >= MaxAttempts}
             x == [pc |-> "next", batch |-> batch, last |-> last]
  <2>1. UNCHANGED <<completed, marked, review, provider>> /\ Becomes(j, x)
    BY <1>1 DEF Claim
  <2>2. x \in JobStates
    BY DEF JobStates, Choosing
  <2>3. /\ job' \in [Jobs -> JobStates]
        /\ job'[j] = x
        /\ \A i \in Jobs \ {j} : job'[i] = job[i]
    BY <2>1, <2>2, Changes
  <2>4. /\ row' \in [Kinds -> RowStates]
        /\ \A k \in batch : row[k].status # "none" /\ row[k].status # "delivered" /\ row'[k].status = "processing"
        /\ \A k \in Kinds \ batch :
             \/ row'[k] = row[k]
             \/ row[k].status = "processing" /\ row'[k].status = "failed" /\ row'[k].lock = None
    <3> DEFINE leased(k) == [status |-> "processing", tries |-> row[k].tries + 1, lock |-> j, stale |-> FALSE]
               spent(k) == [row[k] EXCEPT !.status = "failed", !.lock = None, !.stale = FALSE]
    <3>1. \A k \in batch : Claimable(k)
      BY <1>1 DEF Claim
    <3>2. row' = [k \in Kinds |-> IF k \in batch THEN leased(k)
                                  ELSE IF Interrupted(k) /\ row[k].tries >= MaxAttempts THEN spent(k)
                                  ELSE row[k]]
      BY <1>1 DEF Claim
    <3>3. \A k \in Kinds : row[k] \in RowStates
      BY DEF TypeOK, RowStates
    <3>4. \A k \in Kinds : leased(k) \in RowStates /\ leased(k).status = "processing"
      BY <3>3 DEF RowStates
    <3>5. \A k \in Kinds : spent(k) \in RowStates /\ spent(k).status = "failed" /\ spent(k).lock = None
      BY <3>3 DEF RowStates
    <3> HIDE DEF leased, spent
    <3> QED
      BY <3>1, <3>2, <3>3, <3>4, <3>5 DEF Claimable, Interrupted
  <2>5. TypeOK'
    BY <2>1, <2>3, <2>4 DEF TypeOK, JobStates, RowStates, provider
  <2>6. Grows
    BY <2>1, <2>4 DEF Grows, provider
  <2>7. Seen(j)' /\ Exist(j)'
    BY <2>3, <2>4 DEF Seen, Exist, Delivering
  <2>8. Unlocked' /\ Untouched' /\ DeliveredIsThere' /\ MissingIsListed'
    <3>1. \A k \in Kinds : \/ row'[k] = row[k]
                           \/ row'[k].status = "processing" /\ row[k].status # "none"
                           \/ row'[k].status = "failed" /\ row'[k].lock = None /\ row[k].status # "none"
      BY <2>4
    <3> QED
      BY <2>1, <3>1 DEF Unlocked, Untouched, DeliveredIsThere, MissingIsListed, provider
  <2> QED
    BY <2>3, <2>5, <2>6, <2>7, <2>8, MoverSound
<1>2. CASE NextDelivery(j)
  <2>1. UNCHANGED <<completed, marked, row, review, provider>> /\ job[j].pc = "next"
    BY <1>2 DEF NextDelivery, At
  <2>2. job[j] \in Choosing
    BY <2>1, Shapes DEF TypeOK, JobStates
  <2>3. CASE Becomes(j, Idle)
    <3>1. Idle \in JobStates /\ Idle.pc = "idle"
      BY DEF JobStates, Waiting, Idle
    <3>2. /\ job' \in [Jobs -> JobStates]
          /\ job'[j].pc = "idle"
          /\ \A i \in Jobs \ {j} : job'[i] = job[i]
      BY <2>3, <3>1, Changes
    <3>3. TypeOK' /\ Seen(j)' /\ Exist(j)'
      BY <2>1, <3>2 DEF TypeOK, JobStates, provider, Seen, Exist, Delivering
    <3> QED
      BY <2>1, <3>2, <3>3, RowsRest, MoverSound
  <2>4. CASE job[j].batch # {}
    <3>1. PICK k \in job[j].batch :
            Becomes(j, [pc |-> IF k = "ghl" THEN "check" ELSE "post", k |-> k,
                        last |-> k \in job[j].last,
                        batch |-> job[j].batch \ {k}, rest |-> job[j].last])
      BY <1>2, <2>4 DEF NextDelivery
    <3> DEFINE x == [pc |-> IF k = "ghl" THEN "check" ELSE "post", k |-> k,
                     last |-> k \in job[j].last,
                     batch |-> job[j].batch \ {k}, rest |-> job[j].last]
    <3>2. x \in JobStates
      BY <2>2 DEF JobStates, Choosing, Working, Delivering
    <3>3. /\ job' \in [Jobs -> JobStates]
          /\ job'[j] = x
          /\ \A i \in Jobs \ {j} : job'[i] = job[i]
      BY <3>1, <3>2, Changes
    <3>4. TypeOK'
      BY <2>1, <3>3 DEF TypeOK, JobStates, provider
    <3>5. Seen(j)'
      BY <3>3 DEF Seen
    <3>6. Exist(j)'
      BY <2>1, <3>3 DEF Sound, Exist
    <3> QED
      BY <2>1, <3>3, <3>4, <3>5, <3>6, RowsRest, MoverSound
  <2> QED
    BY <1>2, <2>3, <2>4 DEF NextDelivery
<1> QED
  BY <1>1, <1>2

\* A job that delivers a row moves on, and what it must have seen is there.
LEMMA DeliveryMoves ==
  ASSUME IInv, TypeOK', NEW j \in Jobs, job[j].pc \in Delivering, Grows,
         job'[j].pc \in Delivering, job'[j].k = job[j].k, job'[j].batch = job[j].batch,
         \A i \in Jobs \ {j} : job'[i] = job[i],
         Seen(j)'
  PROVE  Sound'
<1>1. job[j] \in Working
  BY Shapes DEF IInv, TypeOK, JobStates
<1>2. job[j].batch \cup {job[j].k} \subseteq Kinds
  BY <1>1 DEF Working
<1>3. Exist(j)'
  BY <1>2 DEF IInv, Sound, Exist, Grows, Delivering
<1> QED
  BY <1>3, MoverSound DEF IInv

\* A call of a delivery: only the providers and the job change.
LEMMA CallStep ==
  ASSUME IInv, NEW j \in Jobs,
         \/ PostSlack(j) \/ CheckSale(j) \/ MarkGhlOpportunityWon(j)
         \/ ListNotes(j) \/ EnsureGhlWinNote(j)
  PROVE  IInv'
<1> USE DEF IInv
<1> DEFINE seen(pc) ==
      CASE pc = "delivered" -> job[j].k # "ghl" /\ job[j].k \in posted'
        [] pc \in {"list", "note"} -> job[j].k = "ghl" /\ won'
        [] pc = "binding" -> job[j].k = "ghl" /\ won' /\ notes' > 0
        [] pc = "put" -> job[j].k = "ghl"
        [] pc = "failed" -> TRUE
        [] OTHER -> FALSE
<1>1. /\ job[j].pc \in {"post", "check", "put", "list", "note"}
      /\ UNCHANGED <<completed, marked, row, review>>
      /\ won => won'
      /\ notes > 0 => notes' > 0
      /\ posted \subseteq posted'
      /\ won' \in BOOLEAN /\ notes' \in 0..2 /\ posted' \subseteq Slack
  <2> USE DEF At, provider
  <2>1. CASE PostSlack(j)
    <3>1. job[j].pc = "post"
      BY <2>1 DEF PostSlack
    <3>2. job[j].k \in Slack
      BY <3>1, Shapes DEF TypeOK, JobStates, Working, Delivering, Slack, Sound, Seen
    <3> QED
      BY <2>1, <3>2 DEF PostSlack, TypeOK
  <2>2. CASE CheckSale(j)
    BY <2>2 DEF CheckSale, TypeOK
  <2>3. CASE MarkGhlOpportunityWon(j)
    BY <2>3 DEF MarkGhlOpportunityWon, TypeOK
  <2>4. CASE ListNotes(j)
    BY <2>4 DEF ListNotes, TypeOK
  <2>5. CASE EnsureGhlWinNote(j)
    BY <2>5 DEF EnsureGhlWinNote, OneMore, TypeOK
  <2> QED
    BY <2>1, <2>2, <2>3, <2>4, <2>5
<1>2. \/ \E pc \in Delivering : Moves(j, pc) /\ seen(pc)
      \/ \E r \in BOOLEAN : Fails(j, r)
  <2> USE DEF At, Delivering
  <2>1. CASE PostSlack(j)
    BY <2>1 DEF PostSlack, Unanswered, Sound, Seen
  <2>2. CASE CheckSale(j)
    <3>1. job[j].k = "ghl" /\ won' = won
      BY <2>2 DEF CheckSale, provider, Sound, Seen
    <3> QED
      BY <2>2, <3>1 DEF CheckSale
  <2>3. CASE MarkGhlOpportunityWon(j)
    BY <2>3 DEF MarkGhlOpportunityWon, Unanswered, Refused, Sound, Seen
  <2>4. CASE ListNotes(j)
    <3>1. job[j].k = "ghl" /\ won' = won /\ won /\ notes' = notes
      BY <2>4 DEF ListNotes, provider, Sound, Seen
    <3> QED
      BY <2>4, <3>1 DEF ListNotes, Unanswered, Refused
  <2>5. CASE EnsureGhlWinNote(j)
    <3>1. job[j].k = "ghl" /\ won' = won /\ won
      BY <2>5 DEF EnsureGhlWinNote, Sound, Seen
    <3>2. OneMore => notes' > 0
      BY DEF OneMore, TypeOK
    <3>3. \/ OneMore /\ Moves(j, "binding")
          \/ Fails(j, TRUE) \/ Fails(j, FALSE)
      BY <2>5 DEF EnsureGhlWinNote, Unanswered, Refused
    <3>4. OneMore => seen("binding")
      BY <3>1, <3>2
    <3> QED
      BY <3>3, <3>4
  <2> QED
    BY <2>1, <2>2, <2>3, <2>4, <2>5
<1>3. job[j].pc \in Delivering
  BY <1>1 DEF Delivering
<1>4. Grows
  BY <1>1 DEF Grows
<1>5. Unlocked' /\ Untouched' /\ DeliveredIsThere' /\ MissingIsListed'
  <2>1. \A k \in Kinds : row'[k] = row[k]
    BY <1>1
  <2> QED
    BY <1>1, <2>1 DEF Unlocked, Untouched, DeliveredIsThere, MissingIsListed
<1>6. ASSUME NEW pc \in Delivering, Moves(j, pc), seen(pc) PROVE IInv'
  <2>1. /\ job' \in [Jobs -> JobStates]
        /\ job'[j].pc = pc /\ job'[j].k = job[j].k /\ job'[j].batch = job[j].batch
        /\ \A i \in Jobs \ {j} : job'[i] = job[i]
    BY <1>3, <1>6, GoesOn
  <2>2. TypeOK'
    BY <1>1, <2>1 DEF TypeOK, JobStates
  <2>3. Seen(j)'
    BY <1>6, <2>1 DEF Seen, Delivering
  <2>4. Sound'
    BY <1>3, <1>4, <2>1, <2>2, <2>3, DeliveryMoves
  <2> QED
    BY <1>5, <2>2, <2>4
<1>7. ASSUME NEW r \in BOOLEAN, Fails(j, r) PROVE IInv'
  <2>1. /\ job' \in [Jobs -> JobStates]
        /\ job'[j].pc = "failed" /\ job'[j].k = job[j].k /\ job'[j].batch = job[j].batch
        /\ \A i \in Jobs \ {j} : job'[i] = job[i]
    BY <1>3, <1>7, FailsOn
  <2>2. TypeOK'
    BY <1>1, <2>1 DEF TypeOK, JobStates
  <2>3. Seen(j)'
    BY <2>1 DEF Seen
  <2>4. Sound'
    BY <1>3, <1>4, <2>1, <2>2, <2>3, DeliveryMoves DEF Delivering
  <2> QED
    BY <1>5, <2>2, <2>4
<1> QED
  BY <1>2, <1>6, <1>7

\* The binding is set, the row's outcome written, or the failure noted.
LEMMA SettleStep ==
  ASSUME IInv, NEW j \in Jobs,
         BindingWon(j) \/ FinishDelivery(j) \/ MarkGhlDeliveryFailure(j) \/ FailDelivery(j)
  PROVE  IInv'
<1> USE DEF IInv
<1>1. job[j].pc \in {"binding", "delivered", "failed", "settle"} /\ job[j].pc \in Delivering
  BY DEF BindingWon, FinishDelivery, MarkGhlDeliveryFailure, FailDelivery, At, Delivering
<1>2. job[j] \in Working
  BY <1>1, Shapes DEF TypeOK, JobStates
<1>3. job[j].k \in Kinds /\ job[j].batch \subseteq Kinds /\ job[j].last \in BOOLEAN
  BY <1>2 DEF Working
<1>4. \A k \in job[j].batch \cup {job[j].k} : row[k].status # "none"
  BY <1>1 DEF Sound, Exist
<1>5. UNCHANGED <<completed, marked, provider>>
  BY DEF BindingWon, FinishDelivery, MarkGhlDeliveryFailure, FailDelivery
\* the job moves in one of four ways
<1>6. ASSUME NEW pc \in {"delivered", "settle"}, Moves(j, pc)
      PROVE  /\ job' \in [Jobs -> JobStates]
             /\ job'[j].pc = pc /\ job'[j].k = job[j].k /\ job'[j].batch = job[j].batch
             /\ \A i \in Jobs \ {j} : job'[i] = job[i]
  BY <1>1, <1>6, GoesOn DEF Delivering
<1>7. ASSUME NEW r \in BOOLEAN, Fails(j, r)
      PROVE  /\ job' \in [Jobs -> JobStates]
             /\ job'[j].pc = "failed" /\ job'[j].k = job[j].k /\ job'[j].batch = job[j].batch
             /\ \A i \in Jobs \ {j} : job'[i] = job[i]
  BY <1>1, <1>7, FailsOn
<1>8. ASSUME Becomes(j, Idle)
      PROVE  /\ job' \in [Jobs -> JobStates]
             /\ job'[j].pc = "idle"
             /\ \A i \in Jobs \ {j} : job'[i] = job[i]
  <2>1. Idle \in JobStates /\ Idle.pc = "idle"
    BY DEF JobStates, Waiting, Idle
  <2> QED
    BY <1>8, <2>1, Changes
\* the row stays
<1>9. ASSUME row' = row, review' \in BOOLEAN, review' => review \/ job[j].k = "ghl"
      PROVE  Grows /\ Unlocked' /\ Untouched' /\ DeliveredIsThere' /\ MissingIsListed'
  <2>1. Grows /\ Unlocked' /\ Untouched' /\ DeliveredIsThere'
    BY <1>5, <1>9 DEF Grows, Unlocked, Untouched, DeliveredIsThere, provider
  <2>2. MissingIsListed'
    BY <1>4, <1>5, <1>9 DEF MissingIsListed
  <2> QED
    BY <2>1, <2>2
<1>10. CASE BindingWon(j)
  <2>1. row' = row /\ job[j].pc = "binding" /\ review' \in BOOLEAN /\ (review' => review)
    <3>1. review' = FALSE \/ review' = review
      BY <1>10, Zenon DEF BindingWon
    <3>2. review \in BOOLEAN
      BY DEF TypeOK
    <3>3. review' \in BOOLEAN /\ (review' => review)
      <4>1. CASE review' = FALSE
        BY <4>1, Zenon
      <4>2. CASE review' = review
        BY <3>2, <4>2, Zenon
      <4> QED
        BY <3>1, <4>1, <4>2
    <3> QED
      BY <1>10, <3>3 DEF BindingWon, At
  <2>2. Grows /\ Unlocked' /\ Untouched' /\ DeliveredIsThere' /\ MissingIsListed'
    BY <1>9, <2>1
  <2>3. CASE Moves(j, "delivered")
    <3>1. TypeOK'
      BY <1>5, <1>6, <2>1, <2>3 DEF TypeOK, JobStates, provider
    <3>2. Seen(j)'
      BY <1>5, <1>6, <2>1, <2>3 DEF Sound, Seen, provider
    <3>3. Sound'
      BY <1>1, <1>6, <2>2, <2>3, <3>1, <3>2, DeliveryMoves DEF Delivering
    <3> QED
      BY <2>2, <3>1, <3>3
  <2>4. CASE Fails(j, TRUE)
    <3>1. TypeOK'
      BY <1>5, <1>7, <2>1, <2>4 DEF TypeOK, JobStates, provider
    <3>2. Seen(j)'
      BY <1>7, <2>4 DEF Seen
    <3>3. Sound'
      BY <1>1, <1>7, <2>2, <2>4, <3>1, <3>2, DeliveryMoves DEF Delivering
    <3> QED
      BY <2>2, <3>1, <3>3
  <2> QED
    BY <1>10, <2>3, <2>4 DEF BindingWon
<1>11. CASE MarkGhlDeliveryFailure(j)
  <2>1. /\ row' = row /\ job[j].k = "ghl" /\ Moves(j, "settle")
        /\ review' \in BOOLEAN
    BY <1>3, <1>11 DEF MarkGhlDeliveryFailure, TypeOK
  <2>2. Grows /\ Unlocked' /\ Untouched' /\ DeliveredIsThere' /\ MissingIsListed'
    BY <1>9, <2>1
  <2>3. TypeOK'
    BY <1>5, <1>6, <2>1 DEF TypeOK, JobStates, provider
  <2>4. Seen(j)'
    BY <1>6, <2>1 DEF Seen
  <2>5. Sound'
    BY <1>1, <1>6, <2>1, <2>2, <2>3, <2>4, DeliveryMoves DEF Delivering
  <2> QED
    BY <2>2, <2>3, <2>5
\* the row gets an outcome, if its lock still names the job
<1>12. ASSUME NEW status \in {"retry", "failed", "delivered"},
              UpdateClaimedDelivery(j, job[j].k, status), Continues(j), review' = review,
              status = "delivered" =>
                IF job[j].k = "ghl" THEN won /\ notes > 0 ELSE job[j].k \in posted
       PROVE  IInv'
  <2>1. /\ row' \in [Kinds -> RowStates]
        /\ \A m \in Kinds :
             \/ row'[m] = row[m]
             \/ /\ m = job[j].k /\ row[m].lock = j
                /\ row'[m].status = status /\ row'[m].lock = None
    BY <1>3, <1>12, Outcome
  <2>2. /\ job' \in [Jobs -> JobStates]
        /\ job'[j].pc = "next" /\ job'[j].batch = job[j].batch
        /\ \A i \in Jobs \ {j} : job'[i] = job[i]
    BY <1>1, <1>12, ContinuesOn
  <2>3. TypeOK'
    BY <1>5, <1>12, <2>1, <2>2 DEF TypeOK, JobStates, RowStates, provider
  <2>4. Grows
    BY <1>5, <2>1 DEF Grows, provider
  <2>5. Seen(j)' /\ Exist(j)'
    BY <1>3, <1>4, <2>2, <2>4 DEF Seen, Exist, Grows, Delivering
  <2>6. Sound'
    BY <2>2, <2>4, <2>5, MoverSound
  <2>7. Unlocked' /\ Untouched' /\ MissingIsListed'
    BY <1>4, <1>5, <1>12, <2>1 DEF Unlocked, Untouched, MissingIsListed
  <2>8. DeliveredIsThere'
    BY <1>5, <1>12, <2>1 DEF DeliveredIsThere, provider
  <2> QED
    BY <2>3, <2>6, <2>7, <2>8
<1>13. CASE FinishDelivery(j)
  <2>1. job[j].pc = "delivered" /\ review' = review
    BY <1>13 DEF FinishDelivery, At
  <2>2. CASE UpdateClaimedDelivery(j, job[j].k, "delivered") /\ Continues(j)
    <3>1. IF job[j].k = "ghl" THEN won /\ notes > 0 ELSE job[j].k \in posted
      BY <2>1 DEF Sound, Seen
    <3> QED
      BY <1>12, <2>1, <2>2, <3>1
  <2>3. CASE Fails(j, TRUE) /\ row' = row
    <3>1. Grows /\ Unlocked' /\ Untouched' /\ DeliveredIsThere' /\ MissingIsListed'
      BY <1>9, <2>1, <2>3 DEF TypeOK
    <3>2. TypeOK'
      BY <1>5, <1>7, <2>1, <2>3 DEF TypeOK, JobStates, provider
    <3>3. Seen(j)'
      BY <1>7, <2>3 DEF Seen
    <3>4. Sound'
      BY <1>1, <1>7, <2>3, <3>1, <3>2, <3>3, DeliveryMoves DEF Delivering
    <3> QED
      BY <3>1, <3>2, <3>4
  <2> QED
    BY <1>13, <2>2, <2>3 DEF FinishDelivery
<1>14. CASE FailDelivery(j)
  <2>1. review' = review
    BY <1>14 DEF FailDelivery
  <2>2. CASE UpdateClaimedDelivery(j, job[j].k, IF job[j].last THEN "failed" ELSE "retry") /\ Continues(j)
    BY <1>3, <1>12, <2>1, <2>2
  <2>3. CASE Becomes(j, Idle) /\ row' = row
    <3>1. Grows /\ Unlocked' /\ Untouched' /\ DeliveredIsThere' /\ MissingIsListed'
      BY <1>9, <2>1, <2>3 DEF TypeOK
    <3>2. TypeOK'
      BY <1>5, <1>8, <2>1, <2>3 DEF TypeOK, JobStates, provider
    <3>3. Seen(j)' /\ Exist(j)'
      BY <1>8, <2>3 DEF Seen, Exist, Delivering
    <3> QED
      BY <1>8, <2>3, <3>1, <3>2, <3>3, MoverSound
  <2> QED
    BY <1>14, <2>2, <2>3 DEF FailDelivery
<1> QED
  BY <1>10, <1>11, <1>13, <1>14

\* An administrator retries a failed row; a job stops.
LEMMA ResetStep ==
  ASSUME IInv, NEW j \in Jobs, ResetFailedGhlDelivery(j) \/ ResetBinding(j) \/ Abandon(j)
  PROVE  IInv'
<1> USE DEF IInv
<1> DEFINE y == [pc |-> "reset"]
           retried == [NoRow EXCEPT !.status = "retry"]
<1>1. /\ job' \in [Jobs -> JobStates]
      /\ job'[j].pc \in {"idle", "reset"}
      /\ \A i \in Jobs \ {j} : job'[i] = job[i]
  <2>1. /\ Idle \in JobStates /\ Idle.pc = "idle"
        /\ y \in JobStates /\ y.pc = "reset"
    BY DEF JobStates, Waiting, Idle
  <2>2. Becomes(j, Idle) \/ Becomes(j, y)
    BY DEF ResetFailedGhlDelivery, ResetBinding, Abandon
  <2> QED
    BY <2>1, <2>2, Changes
<1>2. /\ UNCHANGED <<completed, marked, provider>> /\ review' \in BOOLEAN /\ (review' => review)
      /\ row' \in [Kinds -> RowStates]
      /\ \A k \in Kinds :
           \/ row'[k] = row[k]
           \/ row[k].status = "failed" /\ row'[k].status = "retry" /\ row'[k].lock = None
  <2>1. retried \in RowStates /\ retried.status = "retry" /\ retried.lock = None
    BY DEF RowStates, NoRow
  <2>2. CASE ResetFailedGhlDelivery(j)
    BY <2>1, <2>2 DEF ResetFailedGhlDelivery, TypeOK, RowStates
  <2>3. CASE ResetBinding(j) \/ Abandon(j)
    <3>1. review' = FALSE \/ review' = review
      BY <2>3, Zenon DEF ResetBinding, Abandon
    <3>2. review \in BOOLEAN
      BY DEF TypeOK
    <3>3. review' \in BOOLEAN /\ (review' => review)
      <4>1. CASE review' = FALSE
        BY <4>1, Zenon
      <4>2. CASE review' = review
        BY <3>2, <4>2, Zenon
      <4> QED
        BY <3>1, <4>1, <4>2
    <3>4. UNCHANGED <<completed, marked, provider>> /\ row' = row
      BY <2>3 DEF ResetBinding, Abandon
    <3> QED
      BY <3>3, <3>4 DEF TypeOK, RowStates
  <2> QED
    BY <2>2, <2>3
<1>3. TypeOK'
  BY <1>1, <1>2 DEF TypeOK, JobStates, RowStates, provider
<1>4. Grows
  BY <1>2 DEF Grows, provider
<1>5. Seen(j)' /\ Exist(j)'
  BY <1>1 DEF Seen, Exist, Delivering
<1>6. Sound'
  BY <1>1, <1>4, <1>5, MoverSound
<1>7. Unlocked' /\ Untouched' /\ DeliveredIsThere' /\ MissingIsListed'
  BY <1>2 DEF Unlocked, Untouched, DeliveredIsThere, MissingIsListed, provider
<1> QED
  BY <1>3, <1>6, <1>7

-----------------------------------------------------------------------------
(* The theorems.                                                           *)

LEMMA InitSound == Init => IInv
<1> SUFFICES ASSUME Init PROVE IInv
  OBVIOUS
<1>1. Idle \in Waiting /\ Idle.pc = "idle" /\ NoRow \in RowStates /\ NoRow.status = "none" /\ NoRow.lock = None
  BY DEF Waiting, Idle, NoRow, RowStates
<1>2. TypeOK
  <2>1. completed \in BOOLEAN /\ review \in BOOLEAN /\ won \in BOOLEAN
    BY Zenon DEF Init
  <2>2. marked \subseteq Slack /\ notes \in 0..2 /\ posted \subseteq Slack
    BY DEF Init
  <2>3. row \in [Kinds -> RowStates] /\ job \in [Jobs -> JobStates]
    BY <1>1 DEF Init, JobStates
  <2> QED
    BY <2>1, <2>2, <2>3 DEF TypeOK, RowStates, JobStates
<1>3. Sound
  BY <1>1 DEF Init, Sound, Seen, Exist, Delivering
<1>4. Unlocked /\ Untouched /\ DeliveredIsThere /\ MissingIsListed
  BY <1>1 DEF Init, Unlocked, Untouched, DeliveredIsThere, MissingIsListed
<1> QED
  BY <1>2, <1>3, <1>4 DEF IInv

LEMMA NextSound == IInv /\ [Next]_vars => IInv'
<1> SUFFICES ASSUME IInv, [Next]_vars PROVE IInv'
  OBVIOUS
<1>1. CASE UNCHANGED vars
  <2>1. UNCHANGED <<completed, marked, row, review, provider, job>>
    BY <1>1 DEF vars
  <2>2. TypeOK'
    BY <2>1 DEF IInv, TypeOK, provider
  <2>3. Sound'
    BY <2>1, RowsRest, BystanderSound DEF IInv, Sound
  <2> QED
    BY <2>1, <2>2, <2>3, RowsRest DEF IInv
<1>2. CASE Next
  <2>1. CASE CompleteSale \/ \E k \in Kinds : ExpireLease(k)
    BY <2>1, WorldStep
  <2>2. ASSUME NEW j \in Jobs, Works(j) PROVE IInv'
    BY <2>2, EnqueueStep, ClaimStep, CallStep, SettleStep, ResetStep DEF Works
  <2> QED
    BY <1>2, <2>1, <2>2 DEF Next
<1> QED
  BY <1>1, <1>2

LEMMA Invariance == Spec => []IInv
  BY InitSound, NextSound, PTL DEF Spec

\* Every variable keeps its type, for any jobs and any limit of attempts.
THEOREM TypeCorrect == Spec => []TypeOK
<1>1. IInv => TypeOK
  BY DEF IInv
<1> QED
  BY <1>1, Invariance, PTL

\* What reads delivered is in Slack, or is won and noted in the CRM
\* (finishDelivery), whoever wrote it and whatever went unanswered.
THEOREM DeliveredHolds == Spec => []DeliveredIsThere
<1>1. IInv => DeliveredIsThere
  BY DEF IInv
<1> QED
  BY <1>1, Invariance, PTL

\* A sale that lacks a row is found by the next worker
\* (enqueueSalesWonDeliveries, reconcileSalesWonDeliveries).
THEOREM MissingStaysListed == Spec => []MissingIsListed
<1>1. IInv => MissingIsListed
  BY DEF IInv
<1> QED
  BY <1>1, Invariance, PTL

\* A delivered row stays delivered: its lock names nobody, so that no update
\* under a lock touches it, and no claim or retry takes it.
LEMMA DeliveredStays ==
  ASSUME IInv, [Next]_vars, NEW k \in Kinds, row[k].status = "delivered"
  PROVE  row'[k].status = "delivered"
<1> USE DEF IInv
<1>1. row[k].lock = None /\ None \notin Jobs
  BY DeliveryKinds DEF Unlocked
<1>2. CASE row' = row
  BY <1>2
<1>3. ASSUME NEW m \in Kinds, ExpireLease(m) PROVE row'[k] = row[k]
  BY <1>3 DEF ExpireLease, TypeOK
<1>4. ASSUME NEW j \in Jobs, NEW m \in Kinds, InsertDelivery(j, m) PROVE row'[k] = row[k]
  <2>1. row[m] = NoRow => m # k
    BY DEF NoRow
  <2> QED
    BY <1>4, <2>1 DEF InsertDelivery, TypeOK
<1>5. ASSUME NEW j \in Jobs, NEW batch \in SUBSET Kinds, Claim(j, batch) PROVE row'[k] = row[k]
  BY <1>5 DEF Claim, Claimable, Interrupted
<1>6. ASSUME NEW j \in Jobs, NEW m \in Kinds, NEW status \in {"retry", "failed", "delivered"},
             UpdateClaimedDelivery(j, m, status)
      PROVE  row'[k] = row[k]
  BY <1>1, <1>6, Outcome
<1>7. ASSUME NEW j \in Jobs, FinishDelivery(j) \/ FailDelivery(j) PROVE row'[k] = row[k]
  <2>1. job[j].pc \in Delivering
    BY <1>7 DEF FinishDelivery, FailDelivery, At, Delivering
  <2>2. job[j].k \in Kinds
    BY <2>1, Shapes DEF TypeOK, JobStates, Working
  <2> QED
    BY <1>6, <1>7, <2>2 DEF FinishDelivery, FailDelivery
<1>8. ASSUME NEW j \in Jobs, ResetFailedGhlDelivery(j) PROVE row'[k] = row[k]
  BY <1>8 DEF ResetFailedGhlDelivery, TypeOK
<1> QED
  BY <1>2, <1>3, <1>4, <1>5, <1>7, <1>8
  DEF Next, Works, vars, CompleteSale, ReadSale, InsertFails, MarkEnqueued, NextDelivery, PostSlack,
      CheckSale, MarkGhlOpportunityWon, ListNotes, EnsureGhlWinNote, BindingWon,
      MarkGhlDeliveryFailure, ResetBinding, Abandon

\* A delivered row is never worked on again (updateClaimedDelivery's lock
\* token), whatever late workers and administrators' retries do.
THEOREM DeliveredIsForGood == Spec => DeliveredIsFinal
<1>1. IInv /\ [Next]_vars =>
        [\A k \in Kinds : row[k].status = "delivered" => row'[k].status = "delivered"]_vars
  BY DeliveredStays
<1> QED
  BY <1>1, Invariance, PTL DEF Spec, DeliveredIsFinal

-----------------------------------------------------------------------------
(* SalesDeals: what its rows and the places of its requests are.           *)

-----------------------------------------------------------------------------
(* Where a request stands, and what its record holds there.                *)

BindingRows ==
    [status : {"none", "ready", "exception", "linked"}, deal : Deals \cup {Null},
     rep : Reps \cup {Null}]
ReceiptRows ==
    [status : {"none", "processing", "completed", "failed"}, owner : Requests \cup {Null},
     stale : BOOLEAN]

DraftPcs == {"reserve", "check", "insert_intent", "answer", "release"}
DealPcs == {"claim", "insert_agreement", "finalize", "send", "consume", "mail", "answer",
            "unlink", "intent", "agreement", "release"}

OnEvent == [pc : {"fetch", "reject"}, e : Events]
OnOpportunity ==
    [pc : {"lookup", "insert", "refresh", "imported", "reject"}, e : Events,
     rep : Reps \cup {Null}]
OnDraft ==
    [pc : DraftPcs, rep : Reps, p : Previews, k : Keys, used : BOOLEAN, d : {Null}]
OnDeal ==
    [pc : DealPcs, rep : Reps, p : Previews, k : Keys, used : BOOLEAN, d : Deals]
RequestPlaces == {Free} \cup OnEvent \cup OnOpportunity \cup OnDraft \cup OnDeal

RequestTypes == req \in [Requests -> RequestPlaces]
RowTypes ==
    /\ receipt \in [Events -> ReceiptRows] /\ acked \subseteq Events
    /\ binding \in BindingRows
    /\ intent \in [Deals -> {"none", "pending", "agreement_pending", "canceled", "gone"}]
    /\ preview \in [Deals -> Previews \cup {Null}]
    /\ agreement \in [Deals -> {"none", "draft", "sent", "voided", "gone"}]
    /\ consumed \subseteq Previews /\ taken \subseteq Keys
    /\ mailed \subseteq Deals /\ undone \subseteq Deals /\ lost \subseteq Deals
DealTypes == RowTypes /\ RequestTypes

-----------------------------------------------------------------------------
(* The inductive invariant.                                                *)

\* The opportunity is in a binding once a delivery is about to say so, and a
\* link makes the binding linked, under a representative.
Known == binding.status # "none"
Linked == binding.deal # Null => binding.status = "linked" /\ binding.rep # Null
ImportsSound ==
    /\ acked # {} \/ (\E e \in Events : receipt[e].status = "completed") => Known
    /\ \A r \in Requests : Stands(r, "imported") => Known
    /\ Linked

\* A deal whose agreement was sent, and what a cancellation makes of it; a
\* deal of which nothing is left.
Whole(d) ==
    /\ \/ intent[d] = "agreement_pending" /\ agreement[d] = "sent"
       \/ intent[d] = "canceled" /\ agreement[d] = "voided"
    /\ binding.deal = d
Gone(d) == intent[d] = "gone" /\ agreement[d] \in {"none", "gone"} /\ binding.deal # d

\* How much of its deal a request has made, or unmade, at each place; a
\* cancellation may come in between.
Owns(r, d) == req[r] \in OnDeal /\ req[r].d = d
Making(pc, d) ==
    /\ pc \in {"claim", "insert_agreement"} => intent[d] = "pending" /\ agreement[d] = "none"
    /\ pc \in {"insert_agreement", "finalize", "send"} => binding.deal = d
    /\ pc = "finalize" =>
         agreement[d] = "voided" \/ (intent[d] = "pending" /\ agreement[d] = "draft")
    /\ pc = "send" =>
         agreement[d] = "voided" \/ (intent[d] = "agreement_pending" /\ agreement[d] = "draft")
    /\ pc \in {"consume", "mail"} => Whole(d)
Unmaking(pc, d) ==
    /\ pc \in {"intent", "agreement", "release"} => binding.deal # d
    /\ pc \in {"agreement", "release"} => intent[d] = "gone"
    /\ pc = "release" => agreement[d] \in {"none", "gone"}
Held(r, d) ==
    /\ d \notin undone
    /\ d \in mailed => req[r].pc = "answer"
    /\ Making(req[r].pc, d)
    /\ d \notin lost => Unmaking(req[r].pc, d)

\* A deal has one request at most, and keeps what was answered for it.
DealSound(d) ==
    /\ \A r \in Requests, q \in Requests : Owns(r, d) /\ Owns(q, d) => r = q
    /\ \A r \in Requests : Owns(r, d) => Held(r, d)
    /\ d \in mailed \cup undone \/ (\E r \in Requests : Owns(r, d)) => intent[d] # "none"
    /\ intent[d] = "none" => agreement[d] = "none"
    /\ d \in mailed => Whole(d)
    /\ d \in undone \ lost => Gone(d)

DealInv == DealTypes /\ ImportsSound /\ \A d \in Deals : DealSound(d)

-----------------------------------------------------------------------------
(* A request moves.                                                        *)

\* The place of a request tells what its record holds.
LEMMA DealShapes ==
  ASSUME NEW x \in RequestPlaces
  PROVE  /\ x.pc = "fetch" => x \in OnEvent
         /\ x.pc \in {"lookup", "insert", "refresh", "imported"} => x \in OnOpportunity
         /\ x.pc = "reject" => x \in OnEvent \cup OnOpportunity
         /\ x.pc \in {"reserve", "check", "insert_intent"} => x \in OnDraft
         /\ x.pc \in {"answer", "release"} => x \in OnDraft \cup OnDeal
         /\ x.pc \in DealPcs \ {"answer", "release"} => x \in OnDeal
         /\ x \in OnDeal => x.pc \in DealPcs /\ x.d \in Deals
  BY DEF RequestPlaces, OnEvent, OnOpportunity, OnDraft, OnDeal, DraftPcs, DealPcs, Free

\* One request changes its record, the others keep theirs.
LEMMA RequestChanges ==
  ASSUME RequestTypes, NEW r \in Requests, NEW x \in RequestPlaces, Turns(r, x)
  PROVE  RequestTypes' /\ req'[r] = x /\ \A q \in Requests \ {r} : req'[q] = req[q]
  BY DEF RequestTypes, Turns

\* It moves on with what it has.
LEMMA OpportunityMoves ==
  ASSUME RequestTypes, NEW r \in Requests, req[r] \in OnEvent \cup OnOpportunity, NEW pc,
         \/ pc = "reject"
         \/ req[r] \in OnOpportunity /\ pc \in {"insert", "refresh", "imported", "lookup"},
         Goes(r, pc)
  PROVE  /\ RequestTypes' /\ req'[r].pc = pc /\ req'[r] \in OnEvent \cup OnOpportunity
         /\ \A q \in Requests \ {r} : req'[q] = req[q]
<1> DEFINE x == [req[r] EXCEPT !.pc = pc]
<1>1. x \in OnEvent \cup OnOpportunity /\ x.pc = pc
  <2>1. CASE req[r] \in OnEvent /\ pc = "reject"
    BY <2>1 DEF OnEvent
  <2>2. CASE req[r] \in OnOpportunity
    BY <2>2 DEF OnOpportunity
  <2> QED
    BY <2>1, <2>2
<1>2. Turns(r, x)
  BY DEF Goes, Turns, RequestTypes
<1> HIDE DEF x
<1>3. x \in RequestPlaces
  BY <1>1 DEF RequestPlaces
<1> QED
  BY <1>1, <1>2, <1>3, RequestChanges

LEMMA DraftMoves ==
  ASSUME RequestTypes, NEW r \in Requests, req[r] \in OnDraft, NEW pc \in DraftPcs, Goes(r, pc)
  PROVE  /\ RequestTypes' /\ req'[r].pc = pc /\ req'[r] \in OnDraft
         /\ \A q \in Requests \ {r} : req'[q] = req[q]
<1> DEFINE x == [req[r] EXCEPT !.pc = pc]
<1>1. x \in OnDraft /\ x.pc = pc
  BY DEF OnDraft
<1>2. Turns(r, x)
  BY DEF Goes, Turns, RequestTypes
<1> HIDE DEF x
<1>3. x \in RequestPlaces
  BY <1>1 DEF RequestPlaces
<1> QED
  BY <1>1, <1>2, <1>3, RequestChanges

LEMMA DealMoves ==
  ASSUME RequestTypes, NEW r \in Requests, NEW d \in Deals, Owns(r, d), NEW pc \in DealPcs,
         Goes(r, pc)
  PROVE  /\ RequestTypes' /\ req'[r].pc = pc /\ Owns(r, d)'
         /\ \A q \in Requests \ {r} : req'[q] = req[q]
<1> DEFINE x == [req[r] EXCEPT !.pc = pc]
<1>1. x \in OnDeal /\ x.pc = pc /\ x.d = d
  BY DEF Owns, OnDeal
<1>2. Turns(r, x)
  BY DEF Goes, Turns, RequestTypes
<1> HIDE DEF x
<1>3. x \in RequestPlaces
  BY <1>1 DEF RequestPlaces
<1>4. RequestTypes' /\ req'[r] = x /\ \A q \in Requests \ {r} : req'[q] = req[q]
  BY <1>2, <1>3, RequestChanges
<1> QED
  BY <1>1, <1>4 DEF Owns

-----------------------------------------------------------------------------
(* What a step leaves alone.                                               *)

Kept(d) ==
    /\ intent'[d] = intent[d] /\ agreement'[d] = agreement[d]
    /\ binding'.deal = d <=> binding.deal = d
    /\ d \in lost' <=> d \in lost
    /\ d \in mailed' <=> d \in mailed
    /\ d \in undone' <=> d \in undone

\* A deal that a step leaves alone stays sound.
LEMMA DealKeptSound ==
  ASSUME NEW d \in Deals, DealSound(d), Kept(d),
         \A q \in Requests : Owns(q, d)' => Owns(q, d) /\ req'[q].pc = req[q].pc
  PROVE  DealSound(d)'
<1>1. ASSUME NEW q \in Requests, Owns(q, d)' PROVE Held(q, d)'
  BY <1>1 DEF DealSound, Kept, Held, Making, Unmaking, Whole
<1> QED
  BY <1>1 DEF DealSound, Kept, Whole, Gone

\* The request of a deal takes it further, or leaves it.
LEMMA OwnerSound ==
  ASSUME NEW d \in Deals, NEW r \in Requests, DealSound(d), Owns(r, d),
         \A q \in Requests \ {r} : req'[q] = req[q],
         Owns(r, d)' => Held(r, d)', intent'[d] # "none",
         d \in mailed' => Whole(d)', d \in undone' \ lost' => Gone(d)'
  PROVE  DealSound(d)'
<1>1. ASSUME NEW q \in Requests, Owns(q, d)' PROVE q = r
  BY <1>1 DEF DealSound, Owns
<1> QED
  BY <1>1 DEF DealSound

\* The other deals are as sound as they were.
LEMMA OtherDealsSound ==
  ASSUME \A c \in Deals : DealSound(c), NEW d \in Deals, NEW r \in Requests, DealSound(d)',
         \A q \in Requests \ {r} : req'[q] = req[q], \A c \in Deals \ {d} : ~Owns(r, c)',
         \A c \in Deals \ {d} : Kept(c)
  PROVE  \A c \in Deals : DealSound(c)'
<1> SUFFICES ASSUME NEW c \in Deals \ {d} PROVE DealSound(c)'
  OBVIOUS
<1>1. \A q \in Requests : Owns(q, c)' => Owns(q, c) /\ req'[q].pc = req[q].pc
  BY DEF Owns
<1> QED
  BY <1>1, DealKeptSound

\* A request without a deal disturbs none.
LEMMA NoDeal ==
  ASSUME \A c \in Deals : DealSound(c), NEW r \in Requests,
         \A q \in Requests \ {r} : req'[q] = req[q], req'[r] \notin OnDeal,
         \A c \in Deals : Kept(c)
  PROVE  \A c \in Deals : DealSound(c)'
<1> SUFFICES ASSUME NEW c \in Deals PROVE DealSound(c)'
  OBVIOUS
<1>1. \A q \in Requests : Owns(q, c)' => Owns(q, c) /\ req'[q].pc = req[q].pc
  BY DEF Owns
<1> QED
  BY <1>1, DealKeptSound

\* The import stands as long as the binding does.
LEMMA ImportsStay ==
  ASSUME ImportsSound, UNCHANGED inbound, NEW r \in Requests,
         \A q \in Requests \ {r} : req'[q] = req[q], Stands(r, "imported")' => Known',
         Known => Known', Linked'
  PROVE  ImportsSound'
<1>1. ASSUME NEW q \in Requests, Stands(q, "imported")' PROVE Known'
  BY <1>1 DEF ImportsSound, Stands
<1> QED
  BY <1>1 DEF ImportsSound, inbound

-----------------------------------------------------------------------------
(* The webhook.                                                            *)

\* A request that has no deal before and after, and writes no deal.
LEMMA Quiet ==
  ASSUME DealInv, NEW r \in Requests, \A q \in Requests \ {r} : req'[q] = req[q],
         req'[r] \in {Free} \cup OnEvent \cup OnOpportunity \cup OnDraft,
         RequestTypes', RowTypes', ImportsSound',
         UNCHANGED <<deals, outcome>>, binding'.deal = binding.deal
  PROVE  DealInv'
<1>1. req'[r] \notin OnDeal
  BY SalesDealsNames DEF OnDeal, OnDraft, OnEvent, OnOpportunity, Free, DealPcs, DealInv
<1>2. \A c \in Deals : Kept(c)
  BY DEF Kept, deals, outcome
<1>3. \A c \in Deals : DealSound(c)'
  BY <1>1, <1>2, NoDeal DEF DealInv
<1> QED
  BY SalesDealsNames, <1>3 DEF DealInv, DealTypes

LEMMA ReceiveStep ==
  ASSUME DealInv, NEW r \in Requests, ReceiveEvent(r) \/ FetchOpportunity(r)
  PROVE  DealInv'
<1> USE DEF DealInv, DealTypes
<1>1. ASSUME NEW e \in Events, Replayed(e), acked' = acked \cup {e}, UNCHANGED <<receipt, req>>,
             UNCHANGED <<binding, deals, consumed, taken, outcome>>
      PROVE  DealInv'
  <2>1. Known
    BY <1>1 DEF ImportsSound, Replayed
  <2>2. ImportsSound'
    BY <1>1, <2>1 DEF ImportsSound, Known, Linked, Stands
  <2>3. RowTypes' /\ RequestTypes'
    BY <1>1 DEF RowTypes, RequestTypes, deals, outcome
  <2>4. ASSUME NEW c \in Deals PROVE DealSound(c)'
    <3>1. Kept(c) /\ \A q \in Requests : Owns(q, c)' => Owns(q, c) /\ req'[q].pc = req[q].pc
      BY <1>1 DEF Kept, deals, outcome, Owns
    <3> QED
      BY <3>1, DealKeptSound
  <2> QED
    BY SalesDealsNames, <2>2, <2>3, <2>4
<1>2. ASSUME NEW e \in Events, Turns(r, [pc |-> "fetch", e |-> e]), UNCHANGED acked,
             receipt' = [receipt EXCEPT ![e] = [status |-> "processing", owner |-> r, stale |-> FALSE]],
             UNCHANGED <<binding, deals, consumed, taken, outcome>>
      PROVE  DealInv'
  <2>1. [pc |-> "fetch", e |-> e] \in OnEvent
    BY DEF OnEvent
  <2>2. /\ RequestTypes' /\ req'[r] = [pc |-> "fetch", e |-> e]
        /\ \A q \in Requests \ {r} : req'[q] = req[q]
    BY <1>2, <2>1, RequestChanges DEF RequestPlaces
  <2>3. RowTypes'
    <3>1. [status |-> "processing", owner |-> r, stale |-> FALSE] \in ReceiptRows
      BY DEF ReceiptRows
    <3> QED
      BY <1>2, <3>1 DEF RowTypes, deals, outcome
  <2>4. ImportsSound'
    <3>1. \A q \in Requests : Stands(q, "imported")' => Stands(q, "imported")
      BY <2>2 DEF Stands
    <3>2. \A x \in Events : receipt'[x].status = "completed" => receipt[x].status = "completed"
      BY <1>2 DEF RowTypes
    <3> QED
      BY <1>2, <3>1, <3>2 DEF ImportsSound, Known, Linked
  <2> QED
    BY <1>2, <2>1, <2>2, <2>3, <2>4, Quiet
<1>3. ASSUME FetchOpportunity(r) PROVE DealInv'
  <2>1. PICK rep \in Reps \cup {Null} :
          Turns(r, [pc |-> "lookup", e |-> req[r].e, rep |-> rep])
    BY <1>3 DEF FetchOpportunity
  <2> DEFINE x == [pc |-> "lookup", e |-> req[r].e, rep |-> rep]
  <2>2. req[r] \in OnEvent
    BY <1>3, DealShapes DEF FetchOpportunity, Stands, RequestTypes
  <2>3. x \in OnOpportunity /\ x.pc = "lookup"
    BY <2>2 DEF OnEvent, OnOpportunity
  <2> HIDE DEF x
  <2>4. x \in RequestPlaces
    BY <2>3 DEF RequestPlaces
  <2>5. RequestTypes' /\ req'[r] = x /\ \A q \in Requests \ {r} : req'[q] = req[q]
    BY <2>1, <2>4, RequestChanges DEF x
  <2>6. RowTypes' /\ UNCHANGED <<inbound, binding, deals, outcome>>
    BY <1>3 DEF FetchOpportunity, RowTypes, inbound, deals, outcome
  <2>7. ImportsSound'
    BY <2>3, <2>5, <2>6, ImportsStay DEF Stands, Known, Linked, ImportsSound
  <2> QED
    BY <2>3, <2>5, <2>6, <2>7, Quiet
<1> QED
  BY <1>1, <1>2, <1>3 DEF ReceiveEvent

\* What moving on with an opportunity takes, where only the binding changes.
LEMMA ImportMoves ==
  ASSUME DealInv, NEW r \in Requests, req[r] \in OnEvent \cup OnOpportunity, NEW pc,
         \/ pc = "reject"
         \/ req[r] \in OnOpportunity /\ pc \in {"insert", "refresh", "imported", "lookup"},
         Goes(r, pc), UNCHANGED <<inbound, deals, consumed, taken, outcome>>,
         binding' \in BindingRows, binding'.deal = binding.deal, Linked',
         Known => Known', pc = "imported" => Known'
  PROVE  DealInv'
<1> USE DEF DealInv, DealTypes
<1>1. /\ RequestTypes' /\ req'[r].pc = pc /\ req'[r] \in OnEvent \cup OnOpportunity
      /\ \A q \in Requests \ {r} : req'[q] = req[q]
  BY OpportunityMoves
<1>2. RowTypes'
  BY DEF RowTypes, inbound, deals, outcome
<1>3. ImportsSound'
  BY <1>1, ImportsStay DEF Stands
<1> QED
  BY <1>1, <1>2, <1>3, Quiet

LEMMA ImportStep ==
  ASSUME DealInv, NEW r \in Requests,
         \/ LookUpBinding(r) \/ WriteBinding(r)
         \/ WriteBindingLost(r) \/ ImportFails(r)
  PROVE  DealInv'
<1> USE DEF DealInv, DealTypes
<1>0. req[r] \in RequestPlaces /\ binding \in BindingRows /\ Linked
  BY DEF RequestTypes, RowTypes, ImportsSound
<1>1. ASSUME LookUpBinding(r) PROVE DealInv'
  <2>1. req[r] \in OnOpportunity
    BY <1>0, <1>1, DealShapes DEF LookUpBinding, Stands
  <2>2. PICK pc \in {"insert", "imported", "refresh"} :
          Goes(r, pc) /\ (pc = "imported" => binding.deal # Null)
    BY <1>1 DEF LookUpBinding
  <2>3. pc = "imported" => Known'
    BY <1>0, <1>1, <2>2 DEF LookUpBinding, Linked, Known
  <2>4. UNCHANGED <<inbound, binding, deals, consumed, taken, outcome>>
    BY <1>1 DEF LookUpBinding
  <2> QED
    BY <1>0, <2>1, <2>2, <2>3, <2>4, ImportMoves DEF Known, Linked
<1>2. ASSUME WriteBinding(r) PROVE DealInv'
  <2>1. req[r] \in OnOpportunity
    BY <1>0, <1>2, DealShapes DEF WriteBinding, Stands
  <2>2. req[r].rep \in Reps \cup {Null}
    BY <2>1 DEF OnOpportunity
  <2>3. binding' = Imported(req[r].rep)
    BY <1>2 DEF WriteBinding
  <2>4. binding' \in BindingRows /\ binding'.deal = Null /\ Known'
    BY <2>2, <2>3 DEF Imported, BindingRows, Known
  <2>5. binding.deal = Null
    BY <1>2 DEF WriteBinding, Refreshable, NoBinding
  <2>6. PICK pc \in {"reject", "imported"} : Goes(r, pc)
    BY <1>2 DEF WriteBinding
  <2>7. UNCHANGED <<inbound, deals, consumed, taken, outcome>>
    BY <1>2 DEF WriteBinding
  <2> QED
    BY <2>1, <2>4, <2>5, <2>6, <2>7, ImportMoves DEF Linked
<1>3. ASSUME WriteBindingLost(r) PROVE DealInv'
  <2>1. req[r] \in OnOpportunity
    BY <1>0, <1>3, DealShapes DEF WriteBindingLost, Stands
  <2>2. /\ Goes(r, "lookup")
        /\ UNCHANGED <<inbound, binding, deals, consumed, taken, outcome>>
    BY <1>3 DEF WriteBindingLost
  <2> QED
    BY <1>0, <2>1, <2>2, ImportMoves DEF Known, Linked
<1>4. ASSUME ImportFails(r) PROVE DealInv'
  <2>1. req[r] \in OnEvent \cup OnOpportunity
    BY <1>0, <1>4, DealShapes DEF ImportFails
  <2>2. /\ Goes(r, "reject")
        /\ UNCHANGED <<inbound, binding, deals, consumed, taken, outcome>>
    BY <1>4 DEF ImportFails
  <2> QED
    BY <1>0, <2>1, <2>2, ImportMoves DEF Known, Linked
<1> QED
  BY <1>1, <1>2, <1>3, <1>4

\* A request that ends has no record.
LEMMA RequestEnds ==
  ASSUME RequestTypes, NEW r \in Requests, Finishes(r)
  PROVE  RequestTypes' /\ req'[r] = Free /\ \A q \in Requests \ {r} : req'[q] = req[q]
  BY RequestChanges DEF Finishes, RequestPlaces

LEMMA ReceiptStep ==
  ASSUME DealInv, NEW r \in Requests, FinishReceipt(r) \/ RejectEvent(r)
  PROVE  DealInv'
<1> USE DEF DealInv, DealTypes
<1>1. req[r].e \in Events /\ (Stands(r, "imported") => Known)
  <2>1. req[r] \in OnEvent \cup OnOpportunity
    BY DealShapes DEF FinishReceipt, RejectEvent, Stands, RequestTypes
  <2> QED
    BY <2>1 DEF OnEvent, OnOpportunity, ImportsSound
<1>2. PICK status \in {"completed", "failed"} :
        Settles(r, status) /\ (status = "completed" => Stands(r, "imported"))
  BY DEF FinishReceipt, RejectEvent
<1>3. /\ receipt' \in [Events -> ReceiptRows]
      /\ \A e \in Events :
           receipt'[e].status = "completed" => receipt[e].status = "completed" \/ status = "completed"
  <2> DEFINE settled == [NoReceipt EXCEPT !.status = status]
  <2>1. settled \in ReceiptRows /\ settled.status = status
    BY DEF NoReceipt, ReceiptRows
  <2>2. receipt' = receipt \/ receipt' = [receipt EXCEPT ![req[r].e] = settled]
    BY <1>2 DEF Settles
  <2> HIDE DEF settled
  <2> QED
    BY <1>1, <2>1, <2>2 DEF RowTypes
<1>4. acked' = acked \/ (acked' = acked \cup {req[r].e} /\ Stands(r, "imported"))
  BY DEF FinishReceipt, RejectEvent
<1>5. Finishes(r) /\ UNCHANGED <<binding, deals, consumed, taken, outcome>>
  BY DEF FinishReceipt, RejectEvent
<1>6. RequestTypes' /\ req'[r] = Free /\ \A q \in Requests \ {r} : req'[q] = req[q]
  BY <1>5, RequestEnds
<1>7. RowTypes'
  BY <1>1, <1>3, <1>4, <1>5 DEF RowTypes, deals, outcome
<1>8. ImportsSound'
  <2>1. \A q \in Requests : Stands(q, "imported")' => Stands(q, "imported")
    BY <1>6 DEF Stands, Free
  <2>2. acked' # {} \/ (\E e \in Events : receipt'[e].status = "completed") => Known
    BY <1>1, <1>2, <1>3, <1>4 DEF ImportsSound
  <2> QED
    BY <1>5, <2>1, <2>2 DEF ImportsSound, Known, Linked
<1> QED
  BY <1>5, <1>6, <1>7, <1>8, Quiet

-----------------------------------------------------------------------------
(* A creation, before it has a deal.                                       *)

LEMMA ReadStep ==
  ASSUME DealInv, NEW r \in Requests, ReadDraft(r)
  PROVE  DealInv'
<1> USE DEF DealInv, DealTypes
<1>1. PICK rep \in Reps, p \in Previews, k \in Keys :
        Turns(r, [pc |-> "reserve", rep |-> rep, p |-> p, k |-> k,
                         used |-> p \in consumed, d |-> Null])
  BY DEF ReadDraft
<1> DEFINE x == [pc |-> "reserve", rep |-> rep, p |-> p, k |-> k, used |-> p \in consumed, d |-> Null]
<1>2. x \in OnDraft /\ x.pc = "reserve"
  BY DEF OnDraft, DraftPcs
<1> HIDE DEF x
<1>3. RequestTypes' /\ req'[r] = x /\ \A q \in Requests \ {r} : req'[q] = req[q]
  BY <1>1, <1>2, RequestChanges DEF RequestPlaces, x
<1>4. UNCHANGED <<inbound, binding, deals, consumed, taken, outcome>>
  BY DEF ReadDraft
<1>5. RowTypes'
  BY <1>4 DEF RowTypes, inbound, deals, outcome
<1>6. ImportsSound'
  BY <1>2, <1>3, <1>4, ImportsStay DEF Stands, Known, Linked, ImportsSound
<1> QED
  BY <1>2, <1>3, <1>4, <1>5, <1>6, Quiet

\* A draft moves on, or its request ends; at most the key changes.
LEMMA DraftSteps ==
  ASSUME DealInv, NEW r \in Requests, req[r] \in OnDraft,
         Finishes(r) \/ \E pc \in DraftPcs : Goes(r, pc),
         UNCHANGED <<inbound, binding, deals, consumed, outcome>>, taken' \subseteq Keys
  PROVE  DealInv'
<1> USE DEF DealInv, DealTypes
<1>1. /\ RequestTypes' /\ req'[r] \in {Free} \cup OnDraft
      /\ \A q \in Requests \ {r} : req'[q] = req[q]
  BY RequestEnds, DraftMoves
<1>2. ~Stands(r, "imported")'
  BY <1>1 DEF Stands, Free, OnDraft, DraftPcs
<1>3. RowTypes'
  BY DEF RowTypes, inbound, deals, outcome
<1>4. ImportsSound'
  BY <1>1, <1>2, ImportsStay DEF Known, Linked, ImportsSound
<1> QED
  BY <1>1, <1>3, <1>4, Quiet

LEMMA DraftStep ==
  ASSUME DealInv, NEW r \in Requests,
         \/ ReserveKey(r) \/ CheckConflicts(r)
         \/ (AnswerKey(r) /\ req[r] \in OnDraft) \/ (ReleaseKey(r) /\ req[r] \in OnDraft)
  PROVE  DealInv'
<1>1. req[r] \in OnDraft
  BY DealShapes DEF ReserveKey, CheckConflicts, Stands, DealInv, DealTypes, RequestTypes
<1>2. req[r].k \in Keys /\ req[r].d = Null /\ taken \subseteq Keys
  BY <1>1 DEF OnDraft, DealInv, DealTypes, RowTypes
<1>3. CASE ReserveKey(r)
  <2>1. /\ Finishes(r) \/ \E pc \in DraftPcs : Goes(r, pc)
        /\ UNCHANGED <<inbound, binding, deals, consumed, outcome>> /\ taken' \subseteq Keys
    BY <1>2, <1>3 DEF ReserveKey, DraftPcs
  <2> QED
    BY <1>1, <2>1, DraftSteps
<1>4. CASE CheckConflicts(r)
  <2>1. /\ Finishes(r) \/ \E pc \in DraftPcs : Goes(r, pc)
        /\ UNCHANGED <<inbound, binding, deals, consumed, taken, outcome>>
    BY <1>4 DEF CheckConflicts, DraftPcs
  <2> QED
    BY <1>1, <1>2, <2>1, DraftSteps
<1>5. CASE AnswerKey(r)
  <2>1. Finishes(r) /\ UNCHANGED <<inbound, binding, deals, consumed, taken, outcome>>
    BY <1>5 DEF AnswerKey
  <2> QED
    BY <1>1, <1>2, <2>1, DraftSteps
<1>6. CASE ReleaseKey(r)
  <2>1. /\ Finishes(r) /\ UNCHANGED <<inbound, binding, deals, consumed, outcome>>
        /\ taken' \subseteq Keys
    BY <1>2, <1>6 DEF ReleaseKey, outcome
  <2> QED
    BY <1>1, <2>1, DraftSteps
<1> QED
  BY <1>3, <1>4, <1>5, <1>6

\* A deal is inserted under an id nobody has; an insert whose answer is lost
\* leaves it to nobody.
LEMMA InsertIntentStep ==
  ASSUME DealInv, NEW r \in Requests, InsertIntent(r)
  PROVE  DealInv'
<1> USE DEF DealInv, DealTypes
<1>1. req[r] \in OnDraft
  BY DealShapes DEF InsertIntent, Stands, RequestTypes
<1>2. UNCHANGED <<inbound, binding, agreement, consumed, taken, mailed, undone>>
  BY DEF InsertIntent
<1>3. CASE UNCHANGED <<intent, preview, lost>> /\ \E pc \in DraftPcs : Goes(r, pc)
  <2>1. UNCHANGED <<inbound, binding, deals, consumed, outcome>> /\ taken' \subseteq Keys
    BY <1>2, <1>3 DEF deals, outcome, RowTypes
  <2> QED
    BY <1>1, <1>3, <2>1, DraftSteps
<1>4. ASSUME NEW d \in Deals, Inserted(r, d),
             \/ Turns(r, [req[r] EXCEPT !.pc = "claim", !.d = d]) /\ UNCHANGED lost
             \/ Goes(r, "release") /\ lost' = lost \cup {d}
      PROVE  DealInv'
  <2>1. intent[d] = "none" /\ intent' = [intent EXCEPT ![d] = "pending"]
    BY <1>4 DEF Inserted
  <2>2. \A q \in Requests : ~Owns(q, d)
    BY <2>1 DEF DealSound
  <2>3. d \notin mailed \cup undone
    BY <2>1 DEF DealSound
  <2>4. ASSUME NEW c \in Deals \ {d} PROVE Kept(c)
    BY <1>2, <1>4, <2>1 DEF Kept, RowTypes
  <2>5. RowTypes'
    <3>1. preview' = [preview EXCEPT ![d] = req[r].p] /\ req[r].p \in Previews
      BY <1>1, <1>4 DEF Inserted, OnDraft
    <3> QED
      BY <1>2, <1>4, <2>1, <3>1 DEF RowTypes, inbound
  <2>6. /\ RequestTypes' /\ \A q \in Requests \ {r} : req'[q] = req[q]
        /\ \A c \in Deals \ {d} : ~Owns(r, c)'
        /\ Owns(r, d)' => req'[r].pc = "claim"
        /\ ~Stands(r, "imported")'
    <3>1. CASE Turns(r, [req[r] EXCEPT !.pc = "claim", !.d = d])
      <4> DEFINE x == [req[r] EXCEPT !.pc = "claim", !.d = d]
      <4>1. x \in OnDeal /\ x.pc = "claim" /\ x.d = d
        BY <1>1 DEF OnDraft, OnDeal, DealPcs
      <4> HIDE DEF x
      <4>2. RequestTypes' /\ req'[r] = x /\ \A q \in Requests \ {r} : req'[q] = req[q]
        BY <3>1, <4>1, RequestChanges DEF RequestPlaces, x
      <4> QED
        BY <4>1, <4>2 DEF Owns, Stands
    <3>2. CASE Goes(r, "release")
      <4>1. /\ RequestTypes' /\ req'[r].pc = "release" /\ req'[r] \in OnDraft
            /\ \A q \in Requests \ {r} : req'[q] = req[q]
        BY <1>1, <3>2, DraftMoves DEF DraftPcs
      <4>2. req'[r] \notin OnDeal
        BY SalesDealsNames, <4>1 DEF OnDraft, OnDeal
      <4> QED
        BY <4>1, <4>2 DEF Owns, Stands
    <3> QED
      BY <1>4, <3>1, <3>2
  <2>7. intent'[d] = "pending" /\ agreement'[d] = agreement[d] /\ binding' = binding
    BY <1>2, <2>1 DEF RowTypes
  <2>8. agreement[d] = "none"
    BY <2>1 DEF DealSound
  <2>9. DealSound(d)'
    <3>1. \A q \in Requests : Owns(q, d)' => q = r
      BY <2>2, <2>6 DEF Owns
    <3>2. Owns(r, d)' => Held(r, d)'
      BY <1>2, <2>3, <2>6, <2>7, <2>8 DEF Held, Making, Unmaking
    <3> QED
      BY <1>2, <2>3, <2>7, <3>1, <3>2 DEF DealSound
  <2>10. \A c \in Deals : DealSound(c)'
    BY <2>4, <2>6, <2>9, OtherDealsSound
  <2>11. ImportsSound'
    BY <1>2, <2>6, ImportsStay DEF Known, Linked, ImportsSound
  <2> QED
    BY SalesDealsNames, <2>5, <2>6, <2>10, <2>11
<1> QED
  BY <1>3, <1>4 DEF InsertIntent, DraftPcs

-----------------------------------------------------------------------------
(* A creation with its deal.                                               *)

\* What the request of a deal knows.
LEMMA Owned ==
  ASSUME DealInv, NEW r \in Requests, req[r] \in OnDeal
  PROVE  /\ req[r].d \in Deals /\ Owns(r, req[r].d) /\ Held(r, req[r].d)
         /\ intent[req[r].d] # "none"
         /\ req[r].rep \in Reps /\ req[r].p \in Previews /\ req[r].k \in Keys
<1>1. /\ req[r].d \in Deals /\ req[r].rep \in Reps /\ req[r].p \in Previews /\ req[r].k \in Keys
  BY DEF OnDeal
<1>2. Owns(r, req[r].d)
  BY DEF Owns
<1> QED
  BY <1>1, <1>2 DEF DealInv, DealSound

\* What it takes to go on with a deal.
LEMMA Going ==
  ASSUME DealInv, NEW r \in Requests, NEW d \in Deals, Owns(r, d), NEW pc \in DealPcs,
         Goes(r, pc), RowTypes', UNCHANGED <<inbound, undone>>, \A c \in Deals \ {d} : Kept(c),
         Known => Known', Linked', intent'[d] # "none",
         d \in mailed' => pc = "answer" /\ Whole(d)',
         Making(pc, d)', d \notin lost' => Unmaking(pc, d)'
  PROVE  DealInv'
<1> USE DEF DealInv, DealTypes
<1>1. /\ RequestTypes' /\ req'[r].pc = pc /\ Owns(r, d)'
      /\ \A q \in Requests \ {r} : req'[q] = req[q]
  BY DealMoves
<1>2. d \notin undone'
  BY DEF DealSound, Held
<1>3. Held(r, d)'
  BY <1>1, <1>2 DEF Held, Making, Unmaking, Whole
<1>4. DealSound(d)'
  BY <1>1, <1>2, <1>3, OwnerSound
<1>5. \A c \in Deals \ {d} : ~Owns(r, c)'
  BY <1>1 DEF Owns
<1>6. \A c \in Deals : DealSound(c)'
  BY <1>1, <1>4, <1>5, OtherDealsSound
<1>7. ImportsSound'
  BY <1>1, ImportsStay DEF Stands, DealPcs
<1> QED
  BY SalesDealsNames, <1>1, <1>6, <1>7

\* A failed call starts the undoing, whatever it left.
LEMMA Falling ==
  ASSUME DealInv, NEW r \in Requests, NEW d \in Deals, Owns(r, d), Goes(r, CleanupOrder[1]),
         req[r].pc # "answer",
         RowTypes', UNCHANGED <<inbound, mailed, undone>>, \A c \in Deals \ {d} : Kept(c),
         Known => Known', Linked', intent'[d] # "none"
  PROVE  DealInv'
<1>1. CleanupOrder[1] = "unlink"
  BY DEF CleanupOrder
<1>2. d \notin mailed'
  BY DEF DealInv, DealSound, Held
<1>3. Making("unlink", d)' /\ Unmaking("unlink", d)'
  BY DEF Making, Unmaking
<1> QED
  BY <1>1, <1>2, <1>3, Going DEF DealPcs

LEMMA ClaimBindingStep ==
  ASSUME DealInv, NEW r \in Requests, ClaimBinding(r)
  PROVE  DealInv'
<1> USE DEF DealInv, DealTypes
<1>1. req[r] \in OnDeal
  BY DealShapes DEF ClaimBinding, Stands, RequestTypes, DealPcs
<1>2. PICK d \in Deals :
        /\ d = req[r].d /\ Owns(r, d) /\ Held(r, d) /\ intent[d] # "none"
        /\ req[r].rep \in Reps /\ req[r].pc = "claim"
  BY <1>1, Owned DEF ClaimBinding, Stands
<1>3. UNCHANGED <<inbound, deals, consumed, taken, outcome>>
  BY DEF ClaimBinding
<1>4. \/ UNCHANGED binding
      \/ /\ binding.rep = req[r].rep /\ binding.deal \in {Null, d}
         /\ binding' = [binding EXCEPT !.status = "linked", !.deal = d]
  BY <1>2 DEF ClaimBinding
<1>5. RowTypes' /\ Linked' /\ (Known => Known') /\ \A c \in Deals \ {d} : Kept(c)
  <2>1. CASE UNCHANGED binding
    BY <1>3, <2>1 DEF RowTypes, Linked, Known, Kept, inbound, deals, outcome, ImportsSound
  <2>2. CASE /\ binding.rep = req[r].rep /\ binding.deal \in {Null, d}
             /\ binding' = [binding EXCEPT !.status = "linked", !.deal = d]
    <3>1. /\ binding' \in BindingRows /\ binding'.status = "linked" /\ binding'.deal = d
          /\ binding'.rep = binding.rep
      BY <1>2, <2>2 DEF BindingRows, RowTypes
    <3> QED
      BY SalesDealsNames, <1>2, <1>3, <2>2, <3>1 
         DEF RowTypes, Linked, Known, Kept, inbound, deals, outcome
  <2> QED
    BY <1>4, <2>1, <2>2
<1>6. CASE Goes(r, CleanupOrder[1])
  BY <1>2, <1>3, <1>5, <1>6, Falling DEF deals, outcome
<1>7. CASE /\ Goes(r, "insert_agreement")
           /\ binding' = [binding EXCEPT !.status = "linked", !.deal = d]
  <2>1. binding'.deal = d
    BY <1>7 DEF RowTypes, BindingRows
  <2>2. Making("insert_agreement", d)' /\ Unmaking("insert_agreement", d)'
    BY <1>2, <1>3, <2>1 DEF Held, Making, Unmaking, deals
  <2>3. d \notin mailed'
    BY <1>2, <1>3 DEF Held, outcome
  <2> QED
    BY <1>2, <1>3, <1>5, <1>7, <2>2, <2>3, Going DEF deals, outcome, DealPcs
<1> QED
  BY <1>2, <1>6, <1>7 DEF ClaimBinding, FailsFrom

LEMMA InsertAgreementStep ==
  ASSUME DealInv, NEW r \in Requests, InsertAgreement(r)
  PROVE  DealInv'
<1> USE DEF DealInv, DealTypes
<1>1. req[r] \in OnDeal
  BY DealShapes DEF InsertAgreement, Stands, RequestTypes, DealPcs
<1>2. PICK d \in Deals :
        d = req[r].d /\ Owns(r, d) /\ Held(r, d) /\ intent[d] # "none" /\ req[r].pc = "insert_agreement"
  BY <1>1, Owned DEF InsertAgreement, Stands
<1>3. UNCHANGED <<inbound, binding, intent, preview, consumed, taken, mailed, undone>>
  BY DEF InsertAgreement
<1>4. /\ UNCHANGED agreement \/ agreement' = [agreement EXCEPT ![d] = "draft"]
      /\ UNCHANGED lost \/ lost' = lost \cup {d}
  BY <1>2 DEF InsertAgreement
<1>5. RowTypes' /\ Linked' /\ Known' = Known /\ \A c \in Deals \ {d} : Kept(c)
  BY <1>2, <1>3, <1>4 DEF RowTypes, Linked, Known, Kept, inbound, ImportsSound
<1>6. CASE Goes(r, CleanupOrder[1])
  BY <1>2, <1>3, <1>5, <1>6, Falling
<1>7. CASE Goes(r, "finalize") /\ agreement' = [agreement EXCEPT ![d] = "draft"]
  <2>1. Making("finalize", d)' /\ Unmaking("finalize", d)' /\ d \notin mailed'
    BY <1>2, <1>3, <1>7 DEF Held, Making, Unmaking, RowTypes
  <2> QED
    BY <1>2, <1>3, <1>5, <1>7, <2>1, Going DEF DealPcs
<1> QED
  BY <1>2, <1>6, <1>7 DEF InsertAgreement

LEMMA FinalizeStep ==
  ASSUME DealInv, NEW r \in Requests, FinalizeIntent(r)
  PROVE  DealInv'
<1> USE DEF DealInv, DealTypes
<1>1. req[r] \in OnDeal
  BY DealShapes DEF FinalizeIntent, Stands, RequestTypes, DealPcs
<1>2. PICK d \in Deals :
        d = req[r].d /\ Owns(r, d) /\ Held(r, d) /\ intent[d] # "none" /\ req[r].pc = "finalize"
  BY <1>1, Owned DEF FinalizeIntent, Stands
<1>3. UNCHANGED <<inbound, binding, preview, agreement, consumed, taken, outcome>>
  BY DEF FinalizeIntent
<1>4. UNCHANGED intent \/ intent' = [intent EXCEPT ![d] = "agreement_pending"]
  BY <1>2 DEF FinalizeIntent
<1>5. /\ RowTypes' /\ Linked' /\ Known' = Known /\ \A c \in Deals \ {d} : Kept(c)
      /\ intent'[d] # "none"
  BY <1>2, <1>3, <1>4 DEF RowTypes, Linked, Known, Kept, inbound, outcome, ImportsSound
<1>6. CASE Goes(r, CleanupOrder[1])
  BY <1>2, <1>3, <1>5, <1>6, Falling DEF outcome
<1>7. CASE Goes(r, "send") /\ intent' = [intent EXCEPT ![d] = "agreement_pending"]
  <2>1. Making("send", d)' /\ Unmaking("send", d)' /\ d \notin mailed'
    BY <1>2, <1>3, <1>7 DEF Held, Making, Unmaking, RowTypes, outcome
  <2> QED
    BY <1>2, <1>3, <1>5, <1>7, <2>1, Going DEF DealPcs, outcome
<1> QED
  BY <1>2, <1>6, <1>7 DEF FinalizeIntent, FailsFrom

LEMMA SendStep ==
  ASSUME DealInv, NEW r \in Requests, SendAgreement(r)
  PROVE  DealInv'
<1> USE DEF DealInv, DealTypes
<1>1. req[r] \in OnDeal
  BY DealShapes DEF SendAgreement, Stands, RequestTypes, DealPcs
<1>2. PICK d \in Deals :
        d = req[r].d /\ Owns(r, d) /\ Held(r, d) /\ intent[d] # "none" /\ req[r].pc = "send"
  BY <1>1, Owned DEF SendAgreement, Stands
<1>3. UNCHANGED <<inbound, binding, intent, preview, consumed, taken, outcome>>
  BY DEF SendAgreement
<1>4. UNCHANGED agreement \/ agreement' = [agreement EXCEPT ![d] = "sent"]
  BY <1>2 DEF SendAgreement
<1>5. RowTypes' /\ Linked' /\ Known' = Known /\ \A c \in Deals \ {d} : Kept(c)
  BY <1>2, <1>3, <1>4 DEF RowTypes, Linked, Known, Kept, inbound, outcome, ImportsSound
<1>6. CASE Goes(r, CleanupOrder[1])
  BY <1>2, <1>3, <1>5, <1>6, Falling DEF outcome
<1>7. CASE /\ Goes(r, "consume") /\ agreement[d] = "draft"
           /\ agreement' = [agreement EXCEPT ![d] = "sent"]
  <2>1. Making("consume", d)' /\ Unmaking("consume", d)' /\ d \notin mailed'
    BY <1>2, <1>3, <1>7 DEF Held, Making, Unmaking, Whole, RowTypes, outcome
  <2> QED
    BY <1>2, <1>3, <1>5, <1>7, <2>1, Going DEF DealPcs, outcome
<1> QED
  BY <1>2, <1>6, <1>7 DEF SendAgreement, FailsFrom

LEMMA MailStep ==
  ASSUME DealInv, NEW r \in Requests, ConsumePreview(r) \/ MailAgreement(r)
  PROVE  DealInv'
<1> USE DEF DealInv, DealTypes
<1>1. req[r] \in OnDeal
  BY DealShapes DEF ConsumePreview, MailAgreement, Stands, RequestTypes, DealPcs
<1>2. PICK d \in Deals :
        /\ d = req[r].d /\ Owns(r, d) /\ Held(r, d) /\ intent[d] # "none"
        /\ req[r].pc \in {"consume", "mail"} /\ req[r].p \in Previews
  BY <1>1, Owned DEF ConsumePreview, MailAgreement, Stands
<1>3. UNCHANGED <<inbound, binding, deals, taken, undone, lost>>
  BY DEF ConsumePreview, MailAgreement, outcome
<1>4. /\ consumed' \subseteq Previews
      /\ UNCHANGED mailed \/ mailed' = mailed \cup {d}
  BY <1>2 DEF ConsumePreview, MailAgreement, outcome, RowTypes
<1>5. RowTypes' /\ Linked' /\ Known' = Known /\ \A c \in Deals \ {d} : Kept(c)
  BY <1>2, <1>3, <1>4 DEF RowTypes, Linked, Known, Kept, inbound, deals, ImportsSound
<1>6. PICK pc \in {"mail", "answer"} : Goes(r, pc) /\ (pc = "mail" => UNCHANGED mailed)
  BY DEF ConsumePreview, MailAgreement, outcome
<1>7. Whole(d)' /\ d \notin mailed
  BY <1>2, <1>3 DEF Held, Making, Whole, deals
<1>8. Making(pc, d)' /\ Unmaking(pc, d)'
  BY <1>6, <1>7 DEF Making, Unmaking, Whole
<1> QED
  BY <1>2, <1>3, <1>5, <1>6, <1>7, <1>8, Going DEF DealPcs, deals

-----------------------------------------------------------------------------
(* Undoing, answers and the world.                                         *)

\* A request that ends leaves its deal as it is; what it answered holds.
LEMMA Leaving ==
  ASSUME DealInv, NEW r \in Requests, NEW d \in Deals, Owns(r, d), Finishes(r),
         taken' \subseteq Keys, UNCHANGED <<inbound, binding, deals, consumed, mailed, lost>>,
         \/ UNCHANGED undone
         \/ req[r].pc = "release" /\ undone' = undone \cup {d}
  PROVE  DealInv'
<1> USE DEF DealInv, DealTypes
<1>1. RequestTypes' /\ req'[r] = Free /\ \A q \in Requests \ {r} : req'[q] = req[q]
  BY RequestEnds
<1>2. \A c \in Deals : ~Owns(r, c)'
  BY <1>1 DEF Owns, OnDeal, Free
<1>3. Held(r, d) /\ intent[d] # "none" /\ (d \in mailed => Whole(d))
  BY DEF DealSound
<1>4. d \in undone' \ lost => Gone(d)
  BY <1>3 DEF Held, Unmaking, Gone
<1>5. intent'[d] # "none" /\ (d \in mailed' => Whole(d)') /\ (d \in undone' \ lost' => Gone(d)')
  BY <1>3, <1>4 DEF Whole, Gone, deals
<1>6. DealSound(d)'
  BY <1>1, <1>2, <1>5, OwnerSound
<1>7. \A c \in Deals \ {d} : Kept(c)
  BY DEF Kept, deals
<1>8. \A c \in Deals : DealSound(c)'
  BY <1>1, <1>2, <1>6, <1>7, OtherDealsSound
<1>9. RowTypes'
  BY DEF RowTypes, inbound, deals
<1>10. ImportsSound'
  BY <1>1, ImportsStay DEF Stands, Free, Known, Linked, ImportsSound
<1> QED
  BY SalesDealsNames, <1>1, <1>8, <1>9, <1>10

LEMMA AnswerStep ==
  ASSUME DealInv, NEW r \in Requests, AnswerKey(r) \/ ReleaseKey(r)
  PROVE  DealInv'
<1>1. req[r] \in OnDraft \cup OnDeal
  BY DealShapes DEF AnswerKey, ReleaseKey, Stands, DealInv, DealTypes, RequestTypes
<1>2. CASE req[r] \in OnDraft
  BY <1>2, DraftStep
<1>3. CASE req[r] \in OnDeal
  <2>1. PICK d \in Deals : d = req[r].d /\ Owns(r, d) /\ req[r].k \in Keys
    BY <1>3, Owned
  <2>2. d # Null /\ taken \subseteq Keys
    BY SalesDealsNames DEF DealInv, DealTypes, RowTypes
  <2>3. CASE AnswerKey(r)
    BY <2>1, <2>2, <2>3, Leaving DEF AnswerKey, outcome
  <2>4. CASE ReleaseKey(r)
    <3>1. req[r].pc = "release" /\ undone' = undone \cup {d} /\ taken' \subseteq Keys
      BY <2>1, <2>2, <2>4 DEF ReleaseKey, Stands
    <3>2. Finishes(r) /\ UNCHANGED <<inbound, binding, deals, consumed, mailed, lost>>
      BY <2>4 DEF ReleaseKey
    <3> QED
      BY <2>1, <3>1, <3>2, Leaving
  <2> QED
    BY <2>3, <2>4
<1> QED
  BY <1>1, <1>2, <1>3

LEMMA CleanupStep ==
  ASSUME DealInv, NEW r \in Requests, Cleanup(r)
  PROVE  DealInv'
<1> USE DEF DealInv, DealTypes
<1>1. PICK i \in 1..3 :
        /\ Stands(r, CleanupOrder[i])
        /\ \/ Undoes(r, CleanupOrder[i]) /\ UNCHANGED lost
           \/ UNCHANGED <<binding, deals>> /\ lost' = lost \cup {req[r].d}
        /\ Goes(r, CleanupOrder[i + 1])
  BY DEF Cleanup
<1>2. PICK step \in {"unlink", "intent", "agreement"},
           next \in {"intent", "agreement", "release"} :
        /\ step = CleanupOrder[i] /\ next = CleanupOrder[i + 1]
        /\ step = "unlink" <=> next = "intent"
        /\ step = "intent" <=> next = "agreement"
        /\ step = "agreement" <=> next = "release"
  BY DEF CleanupOrder
<1>3. req[r].pc = step
  BY <1>1, <1>2 DEF Stands
<1>4. req[r] \in OnDeal
  BY <1>3, DealShapes DEF RequestTypes, DealPcs
<1>5. PICK d \in Deals : d = req[r].d /\ Owns(r, d) /\ Held(r, d) /\ intent[d] # "none"
  BY <1>4, Owned
<1>6. UNCHANGED <<inbound, consumed, taken, mailed, undone>> /\ d \notin mailed
  BY <1>3, <1>5 DEF Cleanup, Held
<1>7. Making(next, d)'
  BY DEF Making
<1>8. ASSUME UNCHANGED <<binding, deals>>, lost' = lost \cup {d} PROVE DealInv'
  <2>1. RowTypes' /\ Linked' /\ (Known => Known') /\ \A c \in Deals \ {d} : Kept(c)
    BY <1>6, <1>8 DEF RowTypes, Linked, Known, Kept, inbound, deals, ImportsSound
  <2> QED
    BY <1>1, <1>2, <1>5, <1>6, <1>7, <1>8, <2>1, Going DEF DealPcs, deals
<1>9. ASSUME Undoes(r, step), step = "unlink", UNCHANGED lost PROVE DealInv'
  <2>1. /\ binding' = IF binding.deal = d THEN [binding EXCEPT !.status = "ready", !.deal = Null]
                        ELSE binding
        /\ UNCHANGED deals
    BY <1>5, <1>9 DEF Undoes
  <2>2. /\ binding' \in BindingRows /\ binding'.deal # d /\ Linked' /\ (Known => Known')
        /\ \A c \in Deals \ {d} : binding'.deal = c <=> binding.deal = c
    BY SalesDealsNames, <2>1 DEF BindingRows, RowTypes, Linked, Known, ImportsSound
  <2>3. RowTypes' /\ \A c \in Deals \ {d} : Kept(c)
    BY <1>6, <1>9, <2>1, <2>2 DEF RowTypes, Kept, inbound, deals
  <2>4. Unmaking("intent", d)'
    BY <2>2 DEF Unmaking
  <2> QED
    BY <1>1, <1>2, <1>5, <1>6, <1>7, <1>9, <2>1, <2>2, <2>3, <2>4, Going DEF DealPcs, deals
<1>10. ASSUME Undoes(r, step), step = "intent", UNCHANGED lost PROVE DealInv'
  <2>1. /\ intent' = IF binding.deal = d THEN intent ELSE [intent EXCEPT ![d] = "gone"]
        /\ UNCHANGED <<binding, preview, agreement>>
    BY <1>5, <1>10 DEF Undoes
  <2>2. /\ RowTypes' /\ Linked' /\ (Known => Known') /\ \A c \in Deals \ {d} : Kept(c)
        /\ intent'[d] # "none"
    BY <1>5, <1>6, <1>10, <2>1 DEF RowTypes, Linked, Known, Kept, inbound, ImportsSound
  <2>3. d \notin lost' => Unmaking("agreement", d)'
    BY <1>3, <1>5, <1>10, <2>1 DEF Held, Unmaking, RowTypes
  <2> QED
    BY <1>1, <1>2, <1>5, <1>6, <1>7, <1>10, <2>2, <2>3, Going DEF DealPcs
<1>11. ASSUME Undoes(r, step), step = "agreement", UNCHANGED lost PROVE DealInv'
  <2>1. /\ agreement' = IF agreement[d] = "none" \/ d \in lost THEN agreement
                        ELSE [agreement EXCEPT ![d] = "gone"]
        /\ UNCHANGED <<binding, intent, preview>>
    BY <1>5, <1>11 DEF Undoes
  <2>2. /\ RowTypes' /\ Linked' /\ (Known => Known') /\ \A c \in Deals \ {d} : Kept(c)
        /\ intent'[d] # "none"
    BY <1>5, <1>6, <1>11, <2>1 DEF RowTypes, Linked, Known, Kept, inbound, ImportsSound
  <2>3. d \notin lost' => Unmaking("release", d)'
    BY <1>3, <1>5, <1>11, <2>1 DEF Held, Unmaking, RowTypes
  <2> QED
    BY <1>1, <1>2, <1>5, <1>6, <1>7, <1>11, <2>2, <2>3, Going DEF DealPcs
<1> QED
  BY <1>1, <1>2, <1>5, <1>8, <1>9, <1>10, <1>11

LEMMA AbandonStep ==
  ASSUME DealInv, NEW r \in Requests, Stops(r)
  PROVE  DealInv'
<1> USE DEF DealInv, DealTypes
<1>1. Finishes(r) /\ UNCHANGED <<inbound, binding, deals, consumed, taken, outcome>>
  BY DEF Stops
<1>2. CASE req[r] \in OnDeal
  <2>1. PICK d \in Deals : d = req[r].d /\ Owns(r, d)
    BY <1>2, Owned
  <2> QED
    BY <1>1, <2>1, Leaving DEF outcome, RowTypes
<1>3. CASE req[r] \notin OnDeal
  <2>1. RequestTypes' /\ req'[r] = Free /\ \A q \in Requests \ {r} : req'[q] = req[q]
    BY <1>1, RequestEnds
  <2>2. RowTypes'
    BY <1>1 DEF RowTypes, inbound, deals, outcome
  <2>3. ImportsSound'
    BY <1>1, <2>1, ImportsStay DEF Stands, Free, Known, Linked, ImportsSound
  <2> QED
    BY <1>1, <2>1, <2>2, <2>3, Quiet
<1> QED
  BY <1>2, <1>3

\* A receipt ages, or a deal whose agreement is out is canceled.
LEMMA DealsWorldStep ==
  ASSUME DealInv, AgeReceipt \/ CancelDeal
  PROVE  DealInv'
<1> USE DEF DealInv, DealTypes
<1>1. CASE AgeReceipt
  <2>1. PICK e \in Events : /\ receipt[e].status = "processing"
                            /\ receipt' = [receipt EXCEPT ![e].stale = TRUE]
    BY <1>1 DEF AgeReceipt
  <2>2. UNCHANGED <<acked, binding, deals, consumed, taken, outcome, req>>
    BY <1>1 DEF AgeReceipt
  <2>3. /\ receipt' \in [Events -> ReceiptRows]
        /\ \A x \in Events : receipt'[x].status = receipt[x].status
    BY <2>1 DEF RowTypes, ReceiptRows
  <2>4. RowTypes' /\ RequestTypes'
    BY <2>2, <2>3 DEF RowTypes, RequestTypes, deals, outcome
  <2>5. ImportsSound'
    BY <2>2, <2>3 DEF ImportsSound, Known, Linked, Stands
  <2>6. ASSUME NEW c \in Deals PROVE DealSound(c)'
    <3>1. Kept(c) /\ \A q \in Requests : Owns(q, c)' => Owns(q, c) /\ req'[q].pc = req[q].pc
      BY <2>2 DEF Kept, deals, outcome, Owns
    <3> QED
      BY <3>1, DealKeptSound
  <2> QED
    BY SalesDealsNames, <2>4, <2>5, <2>6
<1>2. CASE CancelDeal
  <2>1. PICK d \in Deals : /\ Live(d) /\ agreement[d] \in {"draft", "sent"}
                           /\ intent' = [intent EXCEPT ![d] = "canceled"]
                           /\ agreement' = [agreement EXCEPT ![d] = "voided"]
    BY <1>2 DEF CancelDeal
  <2>2. UNCHANGED <<inbound, binding, preview, consumed, taken, outcome, req>>
    BY <1>2 DEF CancelDeal
  <2>3. RowTypes' /\ RequestTypes'
    BY <2>1, <2>2 DEF RowTypes, RequestTypes, inbound, outcome
  <2>4. ImportsSound'
    BY <2>2 DEF ImportsSound, Known, Linked, Stands, inbound
  <2>5. ASSUME NEW c \in Deals \ {d} PROVE DealSound(c)'
    <3>1. Kept(c) /\ \A q \in Requests : Owns(q, c)' => Owns(q, c) /\ req'[q].pc = req[q].pc
      BY <2>1, <2>2 DEF Kept, RowTypes, outcome, Owns
    <3> QED
      BY <3>1, DealKeptSound
  <2>6. intent'[d] = "canceled" /\ agreement'[d] = "voided"
    BY <2>1 DEF RowTypes
  <2>7. DealSound(d)'
    <3>1. \A q \in Requests : Owns(q, d)' => Owns(q, d) /\ req'[q].pc = req[q].pc
      BY <2>2 DEF Owns
    <3>2. Whole(d) => Whole(d)'
      BY <2>2, <2>6 DEF Whole
    <3>3. ~Gone(d)
      BY <2>1 DEF Gone, Live
    <3>4. ASSUME NEW q \in Requests, Owns(q, d)' PROVE Held(q, d)'
      <4>1. Held(q, d) /\ req'[q].pc = req[q].pc
        BY <3>1, <3>4 DEF DealSound
      <4>2. ~(req[q].pc \in {"claim", "insert_agreement"})
        BY <2>1, <4>1 DEF Held, Making
      <4>3. d \notin lost => req[q].pc \notin {"agreement", "release"}
        BY <2>1, <4>1 DEF Held, Unmaking, Live
      <4> QED
        BY <2>2, <2>6, <3>2, <4>1, <4>2, <4>3 DEF Held, Making, Unmaking, outcome
    <3> QED
      BY <2>2, <2>6, <3>1, <3>2, <3>3, <3>4 DEF DealSound, outcome
  <2> QED
    BY SalesDealsNames, <2>3, <2>4, <2>5, <2>7
<1> QED
  BY <1>1, <1>2

-----------------------------------------------------------------------------
(* The invariant and what it gives.                                        *)

LEMMA DealsNext == DealInv /\ [DealNext]_dealVars => DealInv'
<1> SUFFICES ASSUME DealInv, [DealNext]_dealVars PROVE DealInv'
  OBVIOUS
<1>1. ASSUME UNCHANGED dealVars PROVE DealInv'
  <2>1. UNCHANGED <<receipt, acked, binding, intent, preview, agreement, consumed, taken, mailed,
                    undone, lost, req>>
    BY <1>1 DEF dealVars, inbound, deals, outcome
  <2>2. RowTypes' /\ RequestTypes' /\ ImportsSound'
    BY <2>1 DEF DealInv, DealTypes, RowTypes, RequestTypes, ImportsSound, Known, Linked, Stands
  <2>3. ASSUME NEW c \in Deals PROVE DealSound(c)'
    <3>1. Kept(c) /\ \A q \in Requests : Owns(q, c)' => Owns(q, c) /\ req'[q].pc = req[q].pc
      BY <2>1 DEF Kept, Owns
    <3> QED
      BY <3>1, DealKeptSound DEF DealInv
  <2> QED
    BY SalesDealsNames, <2>2, <2>3 DEF DealInv, DealTypes
<1>2. ASSUME NEW r \in Requests, Importing(r) PROVE DealInv'
  BY <1>2, ReceiveStep, ImportStep, ReceiptStep DEF Importing
<1>3. ASSUME NEW r \in Requests, Creating(r) PROVE DealInv'
  BY <1>3, ReadStep, DraftStep, InsertIntentStep, ClaimBindingStep, InsertAgreementStep, FinalizeStep,
     SendStep, MailStep, AnswerStep, CleanupStep DEF Creating
<1>4. ASSUME NEW r \in Requests, Stops(r) PROVE DealInv'
  BY <1>4, AbandonStep
<1> QED
  BY <1>1, <1>2, <1>3, <1>4, DealsWorldStep DEF DealNext

LEMMA DealsInit == DealInit => DealInv
<1> SUFFICES ASSUME DealInit PROVE DealInv
  OBVIOUS
<1>1. DealTypes
  BY DEF DealInit, DealTypes, RowTypes, RequestTypes, ReceiptRows, BindingRows, NoReceipt,
     NoBinding, RequestPlaces
<1>2. ImportsSound
  BY DEF DealInit, ImportsSound, Known, Linked, Stands, NoReceipt, NoBinding, Free
<1>3. ASSUME NEW d \in Deals PROVE DealSound(d)
  <2>1. \A r \in Requests : ~Owns(r, d)
    BY DEF DealInit, Owns, OnDeal, Free
  <2> QED
    BY <2>1 DEF DealInit, DealSound
<1> QED
  BY <1>1, <1>2, <1>3 DEF DealInv

\* The invariant of the deals holds throughout.
THEOREM DealInvariance == DealSpec => []DealInv
<1> QED
  BY DealsInit, DealsNext, PTL DEF DealSpec

\* Every variable keeps its type; the place of a request says what it holds.
THEOREM DealTypesHold == DealSpec => []DealTypes
<1>1. DealInv => DealTypes
  BY DEF DealInv
<1> QED
  BY <1>1, DealInvariance, PTL

\* A deal whose signature request went out keeps its intent, its agreement
\* and the opportunity's link, whatever runs beside it.
THEOREM MailedStaysWhole == DealSpec => []MailedIsWhole
<1>1. DealInv => MailedIsWhole
  <2> SUFFICES ASSUME DealInv, NEW d \in mailed
               PROVE  /\ \/ intent[d] = "agreement_pending" /\ agreement[d] = "sent"
                         \/ intent[d] = "canceled" /\ agreement[d] = "voided"
                      /\ binding.deal = d /\ binding.status = "linked" /\ binding.rep # Null
    BY DEF MailedIsWhole
  <2>1. d \in Deals /\ Whole(d) /\ d # Null
    BY SalesDealsNames DEF DealInv, DealTypes, RowTypes, DealSound
  <2> QED
    BY <2>1 DEF DealInv, ImportsSound, Linked, Whole
<1> QED
  BY <1>1, DealInvariance, PTL

\* A creation answered as failed has left no intent, no agreement and no
\* link, unless the answer of one of its writes was lost.
THEOREM FailureIsClean == DealSpec => []FailureLeavesNothing
<1>1. DealInv => FailureLeavesNothing
  BY DEF DealInv, DealTypes, RowTypes, DealSound, Gone, FailureLeavesNothing
<1> QED
  BY <1>1, DealInvariance, PTL

\* An event whose sender was told that it completed is in the binding
\* (reserveReceipt, finishReceipt).
THEOREM AckedImported == DealSpec => []AckedIsImported
<1>1. DealInv => AckedIsImported
  BY DEF DealInv, ImportsSound, Known, NoBinding, AckedIsImported
<1> QED
  BY <1>1, DealInvariance, PTL
=============================================================================
