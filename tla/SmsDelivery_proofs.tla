------------------------- MODULE SmsDelivery_proofs -------------------------
(***************************************************************************)
(* Proofs about SmsDelivery, for any finite set of requests, any cap and   *)
(* any number of days, texts, events and mishaps.  The argument on money   *)
(* rests on what a request's position says of its reservation and of its   *)
(* message: nothing is sent before money is reserved, and money is given   *)
(* back only by a request that knows its message was not taken.            *)
(***************************************************************************)
EXTENDS SmsDelivery, FiniteSetTheorems, SequenceTheorems, TLAPS

-----------------------------------------------------------------------------
(* The inductive invariant. *)

Before == {"idle", "clear"}
Holding == {"reserved", "issued", "requested", "awaiting", "answered", "settling"}
Unsent == {"idle", "clear", "reserved", "issued", "requested"}

\* What a request's position says of its reservation and its message.
Placed(s) ==
  /\ request[s].pc \in Before => reservation[s] = NoReservation
  /\ request[s].pc \in Holding => reservation[s].day # 0 /\ ~reservation[s].released
  /\ request[s].pc \in Unsent => carrier[s].took = "nothing"
  /\ request[s].pc \in Unsent \cup {"awaiting"} => ~carrier[s].misreported
  /\ request[s].pc \in {"answered", "settling"} /\ request[s].outcome \in Unbilled =>
       carrier[s].took # "accepted" \/ carrier[s].misreported

\* Money stays reserved for a message that was taken and not misreported.
Booked(s) ==
  carrier[s].took = "accepted" /\ ~carrier[s].misreported =>
    reservation[s].day # 0 /\ ~reservation[s].released

\* What an answer of "accepted" rests on, from the moment it is heard.
Accepted(s) ==
  /\ request[s].pc \in Unsent \cup {"awaiting"} => request[s].outcome = "none"
  /\ request[s].outcome = "accepted" =>
       carrier[s].took = "accepted" /\ ~carrier[s].misreported
  /\ request[s].outcome = "accepted" /\ request[s].pc # "answered" => challenge[s].bound

\* Until its outcome is recorded a row has no status and no message id.
Blank(s) ==
  request[s].pc \in Unsent \cup {"awaiting", "answered"} =>
    ~challenge[s].bound /\ challenge[s].status = "none"

Sound(s) == Placed(s) /\ Booked(s) /\ Accepted(s) /\ Blank(s)

\* The reservations of a day fit the cap.
BookedWithinCap == \A d \in Days : Cardinality(ReservedOn(d)) <= Cap

IInv == TypeOK /\ (\A s \in Sends : Sound(s)) /\ BookedWithinCap

-----------------------------------------------------------------------------
(* Types. *)

\* A request moves.
LEMMA MoveTypes ==
  ASSUME RequestTypes, NEW s \in Sends, NEW pc \in Places, Goes(s, pc)
  PROVE  RequestTypes'
  BY DEF RequestTypes, Goes

\* A request moves with an outcome.
LEMMA EndTypes ==
  ASSUME RequestTypes, NEW s \in Sends, NEW pc \in Places, NEW outcome \in Outcomes,
         Ends(s, pc, outcome)
  PROVE  RequestTypes'
  BY DEF RequestTypes, Ends

\* Whatever befell, the count of mishaps stays within its bound.
LEMMA MishapTypes ==
  ASSUME OtherTypes, Smooth \/ Mishap
  PROVE  mishaps' \in 0..MaxMishaps
  BY BoundAssumption DEF OtherTypes, Smooth, Mishap

\* The row of a challenge stays a row of a challenge.
LEMMA OutcomeTypes ==
  ASSUME RequestTypes, ChallengeTypes, NEW s \in Sends,
         challenge' = [challenge EXCEPT ![s] = WithOutcome(challenge[s], request[s])]
  PROVE  ChallengeTypes'
<1> DEFINE Row == [requested : BOOLEAN, bound : BOOLEAN,
                   status : Final \cup {"none", "queued", "sent"}, event : 0..2, at : 0..2]
<1>1. challenge[s] \in Row /\ request[s].status \in {"none", "queued", "sent"}
  BY DEF ChallengeTypes, RequestTypes
<1>2. WithOutcome(challenge[s], request[s]) \in Row
  BY <1>1 DEF WithOutcome, Final
<1> QED
  BY <1>2 DEF ChallengeTypes

\* A second event is the last.
LEMMA SecondAtMost ==
  ASSUME NEW S, NEW q \in Seq(S), NEW x \in S, Len(q) = 0 \/ Len(q) = 1
  PROVE  Append(q, x) \in Seq(S) /\ Len(Append(q, x)) <= 2
<1>1. Append(q, x) \in Seq(S) /\ Len(Append(q, x)) = Len(q) + 1
  BY AppendProperties
<1>2. CASE Len(q) = 0
  BY <1>1, <1>2
<1>3. CASE Len(q) = 1
  BY <1>1, <1>3
<1> QED
  BY <1>1, <1>2, <1>3, Zenon

\* Every step keeps the types.
LEMMA TypeStep == TypeOK /\ [Next]_vars => TypeOK'
<1> SUFFICES ASSUME TypeOK, [Next]_vars PROVE TypeOK'
  OBVIOUS
<1> USE DEF TypeOK
<1>1. ASSUME NEW s \in Sends, ChecksSuppression(s) PROVE TypeOK'
  <2>1. PICK pc \in {"done", "clear"} : Goes(s, pc)
    BY <1>1 DEF ChecksSuppression
  <2>2. RequestTypes'
    BY <2>1, MoveTypes DEF Places
  <2>3. ReservationTypes' /\ ChallengeTypes' /\ CarrierTypes' /\ TextTypes'
    BY <1>1 DEF ChecksSuppression, ReservationTypes, ChallengeTypes, CarrierTypes, TextTypes,
       rows, outside
  <2>4. OtherTypes'
    BY <1>1, MishapTypes DEF ChecksSuppression, OtherTypes, rows, outside
  <2> QED
    BY <2>2, <2>3, <2>4
<1>2. ASSUME NEW s \in Sends, IsTurnedAway(s) PROVE TypeOK'
  <2>2. RequestTypes'
    BY <1>2, MoveTypes DEF Places, IsTurnedAway
  <2>3. ReservationTypes' /\ ChallengeTypes' /\ CarrierTypes' /\ TextTypes' /\ OtherTypes'
    BY <1>2 DEF IsTurnedAway, ReservationTypes, ChallengeTypes, CarrierTypes, TextTypes,
       OtherTypes, rows, outside
  <2> QED
    BY <2>2, <2>3
<1>3. ASSUME NEW s \in Sends, ReservesSpend(s) PROVE TypeOK'
  <2>1. PICK pc \in {"done", "reserved"} : Goes(s, pc)
    BY <1>3 DEF ReservesSpend
  <2>2. RequestTypes'
    BY <2>1, MoveTypes DEF Places
  <2>3. ReservationTypes'
    <3>1. CASE UNCHANGED reservation
      BY <3>1 DEF ReservationTypes
    <3>2. CASE reservation' = [reservation EXCEPT ![s].day = day]
      BY <3>2, BoundAssumption DEF ReservationTypes, OtherTypes, Days
    <3> QED
      BY <1>3, <3>1, <3>2 DEF ReservesSpend
  <2>4. ChallengeTypes' /\ CarrierTypes' /\ TextTypes'
    BY <1>3 DEF ReservesSpend, ChallengeTypes, CarrierTypes, TextTypes, outside
  <2>5. Smooth \/ Mishap
    BY <1>3 DEF ReservesSpend
  <2>6. OtherTypes'
    BY <1>3, <2>5, MishapTypes DEF ReservesSpend, OtherTypes, outside
  <2> QED
    BY <2>2, <2>3, <2>4, <2>6
<1>4. ASSUME NEW s \in Sends, IssuesChallenge(s) PROVE TypeOK'
  <2>2. RequestTypes'
    BY <1>4, MoveTypes DEF Places, IssuesChallenge
  <2>3. ReservationTypes' /\ ChallengeTypes' /\ CarrierTypes' /\ TextTypes' /\ OtherTypes'
    BY <1>4 DEF IssuesChallenge, Smooth, ReservationTypes, ChallengeTypes, CarrierTypes,
       TextTypes, OtherTypes, rows, outside
  <2> QED
    BY <2>2, <2>3
<1>5. ASSUME NEW s \in Sends, RecordsRequested(s) PROVE TypeOK'
  <2>2. RequestTypes'
    BY <1>5, MoveTypes DEF Places, RecordsRequested
  <2>3. ChallengeTypes'
    BY <1>5 DEF RecordsRequested, ChallengeTypes
  <2>4. ReservationTypes' /\ CarrierTypes' /\ TextTypes' /\ OtherTypes'
    BY <1>5 DEF RecordsRequested, Smooth, ReservationTypes, CarrierTypes, TextTypes, OtherTypes,
       outside
  <2> QED
    BY <2>2, <2>3, <2>4
<1>6. ASSUME NEW s \in Sends, FailsBeforeSending(s) PROVE TypeOK'
  <2>2. RequestTypes'
    BY <1>6, EndTypes DEF Places, Outcomes, Unbilled, FailsBeforeSending
  <2>3. ChallengeTypes'
    BY <1>6 DEF FailsBeforeSending, ChallengeTypes
  <2>4. ReservationTypes' /\ CarrierTypes' /\ TextTypes'
    BY <1>6 DEF FailsBeforeSending, ReservationTypes, CarrierTypes, TextTypes, outside
  <2>5. OtherTypes'
    BY <1>6, MishapTypes DEF FailsBeforeSending, OtherTypes, outside
  <2> QED
    BY <2>2, <2>3, <2>4, <2>5
<1>7. ASSUME NEW s \in Sends, Dispatches(s) PROVE TypeOK'
  <2>2. RequestTypes'
    BY <1>7, MoveTypes DEF Places, Dispatches
  <2>3. CarrierTypes'
    BY <1>7 DEF Dispatches, CarrierTypes
  <2>4. ReservationTypes' /\ ChallengeTypes' /\ TextTypes' /\ OtherTypes'
    BY <1>7 DEF Dispatches, Smooth, ReservationTypes, ChallengeTypes, TextTypes, OtherTypes, rows
  <2> QED
    BY <2>2, <2>3, <2>4
<1>8. ASSUME NEW s \in Sends, HearsProvider(s) PROVE TypeOK'
  <2>2. RequestTypes'
    <3>1. ASSUME NEW outcome \in Outcomes, Ends(s, "answered", outcome) PROVE RequestTypes'
      BY <3>1, EndTypes DEF Places
    <3>2. ASSUME NEW status \in {"queued", "sent"},
                 request' = [request EXCEPT ![s] = [pc |-> "answered", outcome |-> "accepted",
                                                    status |-> status]]
          PROVE  RequestTypes'
      BY <3>2 DEF RequestTypes, Places, Outcomes, Billed
    <3> QED
      BY <1>8, <3>1, <3>2 DEF HearsProvider, Outcomes, Billed, Unbilled
  <2>3. CarrierTypes'
    BY <1>8 DEF HearsProvider, CarrierTypes
  <2>4. ReservationTypes' /\ ChallengeTypes' /\ TextTypes'
    BY <1>8 DEF HearsProvider, ReservationTypes, ChallengeTypes, TextTypes, rows
  <2>5. Smooth \/ Mishap
    BY <1>8 DEF HearsProvider
  <2>6. OtherTypes'
    BY <1>8, <2>5, MishapTypes DEF HearsProvider, OtherTypes, rows
  <2> QED
    BY <2>2, <2>3, <2>4, <2>6
<1>9. ASSUME NEW s \in Sends, RecordsOutcome(s) PROVE TypeOK'
  <2>2. RequestTypes'
    BY <1>9, MoveTypes, EndTypes DEF Places, Outcomes, Billed, RecordsOutcome, AfterLostRecord
  <2>3. ChallengeTypes'
    <3>1. CASE UNCHANGED challenge
      BY <3>1 DEF ChallengeTypes
    <3> QED
      BY <1>9, <3>1, OutcomeTypes DEF RecordsOutcome
  <2>4. ReservationTypes' /\ CarrierTypes' /\ TextTypes'
    BY <1>9 DEF RecordsOutcome, ReservationTypes, CarrierTypes, TextTypes, outside
  <2>5. Smooth \/ Mishap
    BY <1>9 DEF RecordsOutcome
  <2>6. OtherTypes'
    BY <1>9, <2>5, MishapTypes DEF RecordsOutcome, OtherTypes, outside
  <2> QED
    BY <2>2, <2>3, <2>4, <2>6
<1>10. ASSUME NEW s \in Sends, Settles(s) PROVE TypeOK'
  <2>2. RequestTypes'
    BY <1>10, MoveTypes DEF Places, Settles
  <2>3. ReservationTypes'
    <3>1. CASE UNCHANGED reservation
      BY <3>1 DEF ReservationTypes
    <3>2. request[s].outcome \in Outcomes
      BY DEF RequestTypes
    <3>4. CASE reservation' = [reservation EXCEPT ![s] = Settled(reservation[s], request[s].outcome)]
      <4>1. Settled(reservation[s], request[s].outcome)
              \in [day : 0..MaxDay, outcome : Outcomes, released : BOOLEAN]
        <5>1. CASE request[s].outcome \in Unbilled
          <6>1. Settled(reservation[s], request[s].outcome)
                  = [reservation[s] EXCEPT !.outcome = request[s].outcome, !.released = TRUE]
            BY <5>1, Zenon DEF Settled
          <6> QED
            BY <3>2, <6>1 DEF ReservationTypes
        <5>2. CASE request[s].outcome \notin Unbilled
          <6>1. Settled(reservation[s], request[s].outcome)
                  = [reservation[s] EXCEPT !.outcome = request[s].outcome, !.released = FALSE]
            <7>1. (request[s].outcome \in Unbilled) = FALSE
              BY <5>2
            <7> QED
              BY <7>1, Zenon DEF Settled
          <6> QED
            BY <3>2, <6>1 DEF ReservationTypes
        <5> QED
          BY <5>1, <5>2
      <4>2. \A t \in Sends : reservation'[t].released <=> reservation'[t].outcome \in Unbilled
        BY <3>4, <3>2 DEF Settled, ReservationTypes
      <4> QED
        BY <3>4, <4>1, <4>2 DEF ReservationTypes
    <3> QED
      BY <1>10, <3>1, <3>4 DEF Settles
  <2>4. ChallengeTypes' /\ CarrierTypes' /\ TextTypes'
    BY <1>10 DEF Settles, ChallengeTypes, CarrierTypes, TextTypes, outside
  <2>5. Smooth \/ Mishap
    BY <1>10 DEF Settles
  <2>6. OtherTypes'
    BY <1>10, <2>5, MishapTypes DEF Settles, OtherTypes, outside
  <2> QED
    BY <2>2, <2>3, <2>4, <2>6
<1>11. ASSUME NEW s \in Sends, Dies(s) PROVE TypeOK'
  <2>2. RequestTypes'
    BY <1>11, EndTypes DEF Places, Outcomes, Dies
  <2>3. ReservationTypes' /\ ChallengeTypes' /\ CarrierTypes' /\ TextTypes'
    BY <1>11 DEF Dies, ReservationTypes, ChallengeTypes, CarrierTypes, TextTypes, rows, outside
  <2>4. OtherTypes'
    BY <1>11, MishapTypes DEF Dies, OtherTypes, rows, outside
  <2> QED
    BY <2>2, <2>3, <2>4
<1>12. ASSUME NEW s \in Sends, ProviderReports(s) PROVE TypeOK'
  <2>1. PICK e \in Event : carrier' = [carrier EXCEPT ![s].events = Append(carrier[s].events, e)]
    BY <1>12 DEF ProviderReports
  <2>2. /\ carrier[s].events \in Seq(Event)
        /\ Len(carrier[s].events) = 0 \/ Len(carrier[s].events) = 1
    BY <1>12 DEF ProviderReports, CarrierTypes
  <2>3. /\ Append(carrier[s].events, e) \in Seq(Event)
        /\ Len(Append(carrier[s].events, e)) <= 2
    BY <2>2, SecondAtMost
  <2>4. CarrierTypes'
    BY <2>1, <2>3 DEF CarrierTypes
  <2>5. RequestTypes' /\ ReservationTypes' /\ ChallengeTypes' /\ TextTypes' /\ OtherTypes'
    BY <1>12 DEF ProviderReports, RequestTypes, ReservationTypes, ChallengeTypes, TextTypes,
       OtherTypes, rows
  <2> QED
    BY <2>4, <2>5
<1>13. ASSUME NEW s \in Sends, NEW k \in DOMAIN carrier[s].events, RecordsDelivery(s, k)
       PROVE  TypeOK'
  <2>1. k \in 1..2 /\ carrier[s].events[k] \in Event
    BY DEF CarrierTypes
  <2>2. ChallengeTypes'
    <3>1. CASE UNCHANGED challenge
      BY <3>1 DEF ChallengeTypes
    <3>2. CASE challenge' = [challenge EXCEPT ![s].status = carrier[s].events[k].status,
                             ![s].event = k, ![s].at = carrier[s].events[k].at]
      <4>1. /\ carrier[s].events[k].status \in Final \cup {"none", "queued", "sent"}
            /\ carrier[s].events[k].at \in 0..2
            /\ k \in 0..2
        BY <2>1 DEF Event, Final
      <4> DEFINE e == carrier[s].events[k]
                 Row == [requested : BOOLEAN, bound : BOOLEAN,
                         status : Final \cup {"none", "queued", "sent"}, event : 0..2, at : 0..2]
      <4>2. challenge \in [Sends -> Row]
        BY DEF ChallengeTypes
      <4>3. [challenge[s] EXCEPT !.status = e.status, !.event = k, !.at = e.at] \in Row
        <5> HIDE DEF e
        <5>1. /\ e.status \in Final \cup {"none", "queued", "sent"}
              /\ e.at \in 0..2 /\ k \in 0..2
          BY <4>1 DEF e
        <5> QED
          BY <4>2, <5>1
      <4>4. challenge' = [challenge EXCEPT ![s] =
                            [challenge[s] EXCEPT !.status = e.status, !.event = k, !.at = e.at]]
        BY <3>2, <4>2
      <4>5. challenge' \in [Sends -> Row]
        <5> HIDE DEF Row, e
        <5> QED
          BY <4>2, <4>3, <4>4
      <4> QED
        BY <4>5 DEF ChallengeTypes
    <3> QED
      BY <1>13, <3>1, <3>2 DEF RecordsDelivery
  <2>3. OtherTypes'
    BY <1>13, <2>1 DEF RecordsDelivery, OtherTypes, outside
  <2>4. RequestTypes' /\ ReservationTypes' /\ CarrierTypes' /\ TextTypes'
    BY <1>13 DEF RecordsDelivery, RequestTypes, ReservationTypes, CarrierTypes, TextTypes, outside
  <2> QED
    BY <2>2, <2>3, <2>4
<1>14. ASSUME NEW word \in Words, Texts(word) PROVE TypeOK'
  <2>1. said' \in Seq(Words) /\ Len(said') = Len(said) + 1 /\ Len(said) \in Nat
    BY <1>14 DEF Texts, TextTypes
  <2>2. TextTypes'
    BY <1>14, <2>1, BoundAssumption DEF Texts, TextTypes, rows
  <2>3. RequestTypes' /\ ReservationTypes' /\ ChallengeTypes' /\ CarrierTypes' /\ OtherTypes'
    BY <1>14 DEF Texts, RequestTypes, ReservationTypes, ChallengeTypes, CarrierTypes,
       OtherTypes, rows
  <2> QED
    BY <2>2, <2>3
<1>15. ASSUME NEW i \in DOMAIN said, RecordsControl(i) PROVE TypeOK'
  <2>1. i \in 1..Len(said)
    BY DEF TextTypes
  <2>2. (said[i] = "stop") \in BOOLEAN
    BY Zenon
  <2>3. (inOrder /\ (i \in recorded \/ \A j \in recorded : j < i)) \in BOOLEAN
    BY Zenon
  <2>4. suppressed' \in BOOLEAN /\ inOrder' \in BOOLEAN
    BY <1>15, <2>2, <2>3, Zenon DEF RecordsControl, TextTypes
  <2>5. recorded' \subseteq 1..Len(said) /\ said' = said
    BY <1>15, <2>1 DEF RecordsControl, TextTypes, outside
  <2>6. TextTypes'
    BY <2>4, <2>5 DEF TextTypes
  <2>7. RequestTypes' /\ ReservationTypes' /\ ChallengeTypes' /\ CarrierTypes' /\ OtherTypes'
    BY <1>15 DEF RecordsControl, RequestTypes, ReservationTypes, ChallengeTypes, CarrierTypes,
       OtherTypes, outside
  <2> QED
    BY <2>6, <2>7
<1>16. CASE TripsBreaker
  <2>1. OtherTypes'
    BY <1>16, MishapTypes DEF TripsBreaker, OtherTypes, outside
  <2>2. RequestTypes' /\ ReservationTypes' /\ ChallengeTypes' /\ CarrierTypes' /\ TextTypes'
    BY <1>16 DEF TripsBreaker, RequestTypes, ReservationTypes, ChallengeTypes, CarrierTypes,
       TextTypes, outside
  <2> QED
    BY <2>1, <2>2
<1>17. CASE NewDay
  <2>1. OtherTypes'
    BY <1>17, BoundAssumption DEF NewDay, OtherTypes, Days, rows
  <2>2. RequestTypes' /\ ReservationTypes' /\ ChallengeTypes' /\ CarrierTypes' /\ TextTypes'
    BY <1>17 DEF NewDay, RequestTypes, ReservationTypes, ChallengeTypes, CarrierTypes,
       TextTypes, rows
  <2> QED
    BY <2>1, <2>2
<1>18. CASE UNCHANGED vars
  BY <1>18 DEF vars, rows, outside, RequestTypes, ReservationTypes, ChallengeTypes, CarrierTypes,
     TextTypes, OtherTypes
<1> QED
  BY <1>1, <1>2, <1>3, <1>4, <1>5, <1>6, <1>7, <1>8, <1>9, <1>10, <1>11, <1>12, <1>13,
     <1>14, <1>15, <1>16, <1>17, <1>18 DEF Next

\* The first state is well typed.
LEMMA InitTypes == Init => TypeOK
<1> SUFFICES ASSUME Init PROVE TypeOK
  OBVIOUS
<1>1. RequestTypes /\ ReservationTypes /\ ChallengeTypes
  BY BoundAssumption DEF Init, RequestTypes, ReservationTypes, ChallengeTypes, Idle,
     NoReservation,
     NoChallenge, Places, Outcomes, Unbilled
<1>2. /\ \A S : << >> \in Seq(S)
      /\ Len(<< >>) = 0
  OBVIOUS
<1>3. CarrierTypes
  BY <1>2 DEF Init, CarrierTypes
<1>4. TextTypes
  <2>1. suppressed \in BOOLEAN /\ inOrder \in BOOLEAN
    BY Zenon DEF Init
  <2> QED
    BY <1>2, <2>1, BoundAssumption DEF Init, TextTypes
<1>5. OtherTypes
  <2>1. breaker \in BOOLEAN
    BY Zenon DEF Init
  <2> QED
    BY <2>1, BoundAssumption DEF Init, OtherTypes, Days
<1> QED
  BY <1>1, <1>3, <1>4, <1>5 DEF TypeOK

\* Every state of a behaviour is well typed.
THEOREM TypeCorrect == Spec => []TypeOK
  BY InitTypes, TypeStep, PTL DEF Spec

-----------------------------------------------------------------------------
(* A step that concerns one request. *)

\* What moving a request changes.
LEMMA MoveEffect ==
  ASSUME RequestTypes, NEW s \in Sends, NEW pc \in Places, Goes(s, pc)
  PROVE  /\ request'[s].pc = pc /\ request'[s].outcome = request[s].outcome
         /\ \A t \in Sends \ {s} : request'[t] = request[t]
  BY DEF RequestTypes, Goes

\* What moving a request with an outcome changes.
LEMMA EndEffect ==
  ASSUME RequestTypes, NEW s \in Sends, NEW pc \in Places, NEW outcome \in Outcomes,
         Ends(s, pc, outcome)
  PROVE  /\ request'[s].pc = pc /\ request'[s].outcome = outcome
         /\ \A t \in Sends \ {s} : request'[t] = request[t]
  BY DEF RequestTypes, Ends

\* The other requests are as sound as they were.
LEMMA OthersSound ==
  ASSUME NEW s \in Sends, \A t \in Sends : Sound(t), Sound(s)',
         \A t \in Sends \ {s} :
           /\ request'[t] = request[t] /\ reservation'[t] = reservation[t]
           /\ challenge'[t] = challenge[t] /\ carrier'[t] = carrier[t]
  PROVE  \A t \in Sends : Sound(t)'
<1> SUFFICES ASSUME NEW t \in Sends, t # s PROVE Sound(t)'
  OBVIOUS
<1> QED
  BY DEF Sound, Placed, Booked, Accepted, Blank

\* Where no reservation changes, each day's stay within the cap.
LEMMA SameBookings ==
  ASSUME BookedWithinCap, UNCHANGED reservation
  PROVE  BookedWithinCap'
<1>1. \A d \in Days : ReservedOn(d)' = ReservedOn(d)
  BY DEF ReservedOn
<1> QED
  BY <1>1, Zenon DEF BookedWithinCap

\* An admitted reservation fits.
LEMMA AdmittedFits ==
  ASSUME TypeOK, BookedWithinCap, Admits, NEW s \in Sends, reservation[s] = NoReservation,
         reservation' = [reservation EXCEPT ![s].day = day]
  PROVE  BookedWithinCap'
<1>1. \A d \in Days : IsFiniteSet(ReservedOn(d)) /\ Cardinality(ReservedOn(d)) \in Nat
  BY SendAssumption, FS_Subset, FS_CardinalityType DEF ReservedOn
<1>2. \A d \in Days : ReservedOn(d)' \subseteq ReservedOn(d) \cup {s}
  BY DEF ReservedOn, TypeOK, ReservationTypes
<1>3. \A d \in Days \ {day} : ReservedOn(d)' \subseteq ReservedOn(d)
  BY DEF ReservedOn, TypeOK, ReservationTypes
<1> SUFFICES ASSUME NEW d \in Days PROVE Cardinality(ReservedOn(d)') <= Cap
  BY DEF BookedWithinCap
<1>5. CASE d = day
  <2>1. Cardinality(ReservedOn(d)) + 1 <= Cap /\ Cardinality(ReservedOn(d)) \in Nat
    BY <1>1, <1>5 DEF Admits
  <2>2. /\ IsFiniteSet(ReservedOn(d) \cup {s})
        /\ \/ Cardinality(ReservedOn(d) \cup {s}) = Cardinality(ReservedOn(d))
           \/ Cardinality(ReservedOn(d) \cup {s}) = Cardinality(ReservedOn(d)) + 1
    BY <1>1, FS_AddElement, Zenon
  <2>3. /\ Cardinality(ReservedOn(d)') \in Nat
        /\ Cardinality(ReservedOn(d)') <= Cardinality(ReservedOn(d) \cup {s})
    BY <1>2, <2>2, FS_Subset, FS_CardinalityType
  <2>4. CASE Cardinality(ReservedOn(d) \cup {s}) = Cardinality(ReservedOn(d))
    BY <2>1, <2>3, <2>4, BoundAssumption
  <2>5. CASE Cardinality(ReservedOn(d) \cup {s}) = Cardinality(ReservedOn(d)) + 1
    BY <2>1, <2>3, <2>5, BoundAssumption
  <2> QED
    BY <2>2, <2>4, <2>5
<1>6. CASE d # day
  <2>1. /\ Cardinality(ReservedOn(d)') \in Nat
        /\ Cardinality(ReservedOn(d)') <= Cardinality(ReservedOn(d))
    BY <1>1, <1>3, <1>6, FS_Subset, FS_CardinalityType
  <2>2. Cardinality(ReservedOn(d)) <= Cap /\ Cardinality(ReservedOn(d)) \in Nat
    BY <1>1 DEF BookedWithinCap
  <2> QED
    BY <2>1, <2>2, BoundAssumption
<1> QED
  BY <1>5, <1>6

\* A settlement only gives money back.
LEMMA SettledFits ==
  ASSUME TypeOK, BookedWithinCap, NEW s \in Sends, NEW outcome, ~reservation[s].released,
         reservation' = [reservation EXCEPT ![s] = Settled(reservation[s], outcome)]
  PROVE  BookedWithinCap'
<1>1. \A d \in Days : IsFiniteSet(ReservedOn(d)) /\ Cardinality(ReservedOn(d)) \in Nat
  BY SendAssumption, FS_Subset, FS_CardinalityType DEF ReservedOn
<1>2. \A d \in Days : ReservedOn(d)' \subseteq ReservedOn(d)
  BY DEF ReservedOn, TypeOK, ReservationTypes, Settled
<1> SUFFICES ASSUME NEW d \in Days PROVE Cardinality(ReservedOn(d)') <= Cap
  BY DEF BookedWithinCap
<1>3. /\ Cardinality(ReservedOn(d)') \in Nat
      /\ Cardinality(ReservedOn(d)') <= Cardinality(ReservedOn(d))
  BY <1>1, <1>2, FS_Subset, FS_CardinalityType
<1>4. Cardinality(ReservedOn(d)) <= Cap /\ Cardinality(ReservedOn(d)) \in Nat
  BY <1>1 DEF BookedWithinCap
<1> QED
  BY <1>3, <1>4, BoundAssumption
-----------------------------------------------------------------------------
(* Every step keeps the invariant. *)

\* Sending waits for a reservation, and a reservation is given back only by a
\* request that knows its message was not taken.
LEMMA InvStep == IInv /\ [Next]_vars => IInv'
<1> SUFFICES ASSUME IInv, [Next]_vars PROVE IInv'
  OBVIOUS
<1>1. TypeOK' /\ RequestTypes /\ TypeOK
  BY TypeStep DEF IInv, TypeOK
<1>2. SUFFICES (\A s \in Sends : Sound(s)') /\ BookedWithinCap'
  BY <1>1 DEF IInv
<1>3. (\A s \in Sends : Sound(s)) /\ BookedWithinCap
  BY DEF IInv
<1> USE <1>1, <1>3 DEF At, Before, Holding, Unsent
<1>4. ASSUME NEW s \in Sends, ChecksSuppression(s) PROVE (\A t \in Sends : Sound(t)') /\ BookedWithinCap'
  <2>1. PICK pc \in {"done", "clear"} : Goes(s, pc)
    BY <1>4 DEF ChecksSuppression
  <2>3. /\ request'[s].pc = pc /\ request'[s].outcome = request[s].outcome
        /\ \A t \in Sends \ {s} : request'[t] = request[t]
    BY <2>1, MoveEffect DEF Places
  <2>2. Sound(s)'
    BY <1>4, <2>1, <2>3 DEF ChecksSuppression, Sound, Placed, Booked, Accepted, Blank, rows,
       outside
  <2>8. \A t \in Sends : Sound(t)'
    BY <1>4, <2>1, <2>2, OthersSound, <2>3 DEF ChecksSuppression, rows, outside, TypeOK,
       ReservationTypes, ChallengeTypes, CarrierTypes
  <2>9. BookedWithinCap'
    BY <1>4, SameBookings DEF ChecksSuppression, rows
  <2> QED
    BY <2>8, <2>9
<1>5. ASSUME NEW s \in Sends, IsTurnedAway(s) PROVE (\A t \in Sends : Sound(t)') /\ BookedWithinCap'
  <2>1. PICK pc \in {"done"} : Goes(s, pc)
    BY <1>5 DEF IsTurnedAway
  <2>3. /\ request'[s].pc = pc /\ request'[s].outcome = request[s].outcome
        /\ \A t \in Sends \ {s} : request'[t] = request[t]
    BY <2>1, MoveEffect DEF Places
  <2>2. Sound(s)'
    BY <1>5, <2>1, <2>3 DEF IsTurnedAway, Sound, Placed, Booked, Accepted, Blank, rows, outside
  <2>8. \A t \in Sends : Sound(t)'
    BY <1>5, <2>1, <2>2, OthersSound, <2>3 DEF IsTurnedAway, rows, outside, TypeOK,
       ReservationTypes, ChallengeTypes, CarrierTypes
  <2>9. BookedWithinCap'
    BY <1>5, SameBookings DEF IsTurnedAway, rows
  <2> QED
    BY <2>8, <2>9
<1>6. ASSUME NEW s \in Sends, ReservesSpend(s) PROVE (\A t \in Sends : Sound(t)') /\ BookedWithinCap'
  <2>1. PICK pc \in {"done", "reserved"} : Goes(s, pc)
    BY <1>6 DEF ReservesSpend
  <2>3. /\ request'[s].pc = pc /\ request'[s].outcome = request[s].outcome
        /\ \A t \in Sends \ {s} : request'[t] = request[t]
    BY <2>1, MoveEffect DEF Places
  <2>4. reservation[s] = NoReservation /\ day # 0
    BY <1>6, BoundAssumption DEF ReservesSpend, Sound, Placed, TypeOK, OtherTypes, Days
  <2>2. Sound(s)'
    <3>1. CASE pc = "done"
      BY <1>6, <2>3, <2>4, <3>1 DEF ReservesSpend, Sound, Placed, Booked, Accepted, Blank, outside
    <3>2. CASE pc = "reserved"
      <4>1. reservation' = [reservation EXCEPT ![s].day = day]
        BY <1>6, <2>3, <3>2 DEF ReservesSpend, Goes, TypeOK, RequestTypes
      <4>2. reservation'[s].day # 0 /\ ~reservation'[s].released
        BY <2>4, <4>1 DEF NoReservation, TypeOK, ReservationTypes
      <4> QED
        BY <1>6, <2>3, <3>2, <4>2 DEF ReservesSpend, Sound, Placed, Booked, Accepted, Blank,
           outside
    <3> QED
      BY <3>1, <3>2
  <2>8. \A t \in Sends : Sound(t)'
    BY <1>6, <2>1, <2>2, OthersSound, <2>3 DEF ReservesSpend, rows, outside, TypeOK,
       ReservationTypes, ChallengeTypes, CarrierTypes
  <2>9. BookedWithinCap'
    BY <1>6, <2>4, SameBookings, AdmittedFits DEF ReservesSpend
  <2> QED
    BY <2>8, <2>9
<1>7. ASSUME NEW s \in Sends, IssuesChallenge(s) PROVE (\A t \in Sends : Sound(t)') /\ BookedWithinCap'
  <2>1. PICK pc \in {"issued"} : Goes(s, pc)
    BY <1>7 DEF IssuesChallenge
  <2>3. /\ request'[s].pc = pc /\ request'[s].outcome = request[s].outcome
        /\ \A t \in Sends \ {s} : request'[t] = request[t]
    BY <2>1, MoveEffect DEF Places
  <2>2. Sound(s)'
    BY <1>7, <2>1, <2>3 DEF IssuesChallenge, Sound, Placed, Booked, Accepted, Blank, rows, outside
  <2>8. \A t \in Sends : Sound(t)'
    BY <1>7, <2>1, <2>2, OthersSound, <2>3 DEF IssuesChallenge, rows, outside, TypeOK,
       ReservationTypes, ChallengeTypes, CarrierTypes
  <2>9. BookedWithinCap'
    BY <1>7, SameBookings DEF IssuesChallenge, rows
  <2> QED
    BY <2>8, <2>9
<1>8. ASSUME NEW s \in Sends, RecordsRequested(s) PROVE (\A t \in Sends : Sound(t)') /\ BookedWithinCap'
  <2>1. PICK pc \in {"requested"} : Goes(s, pc)
    BY <1>8 DEF RecordsRequested
  <2>3. /\ request'[s].pc = pc /\ request'[s].outcome = request[s].outcome
        /\ \A t \in Sends \ {s} : request'[t] = request[t]
    BY <2>1, MoveEffect DEF Places
  <2>2. Sound(s)'
    BY <1>8, <2>1, <2>3 DEF RecordsRequested, Sound, Placed, Booked, Accepted, Blank, outside,
       TypeOK, ChallengeTypes
  <2>8. \A t \in Sends : Sound(t)'
    BY <1>8, <2>1, <2>2, OthersSound, <2>3 DEF RecordsRequested, rows, outside, TypeOK,
       ReservationTypes, ChallengeTypes, CarrierTypes
  <2>9. BookedWithinCap'
    BY <1>8, SameBookings DEF RecordsRequested, rows
  <2> QED
    BY <2>8, <2>9
<1>9. ASSUME NEW s \in Sends, FailsBeforeSending(s) PROVE (\A t \in Sends : Sound(t)') /\ BookedWithinCap'
  <2>1. Ends(s, "settling", "misconfigured")
    BY <1>9 DEF FailsBeforeSending
  <2>3. /\ request'[s].pc = "settling" /\ request'[s].outcome = "misconfigured"
        /\ \A t \in Sends \ {s} : request'[t] = request[t]
    BY <2>1, EndEffect DEF Places, Outcomes, Unbilled
  <2>2. Sound(s)'
    BY <1>9, <2>3 DEF FailsBeforeSending, Sound, Placed, Booked, Accepted, Blank, outside
  <2>8. \A t \in Sends : Sound(t)'
    BY <1>9, <2>1, <2>2, OthersSound, <2>3 DEF FailsBeforeSending, rows, outside, TypeOK,
       ReservationTypes, ChallengeTypes, CarrierTypes
  <2>9. BookedWithinCap'
    BY <1>9, SameBookings DEF FailsBeforeSending, rows
  <2> QED
    BY <2>8, <2>9
<1>10. ASSUME NEW s \in Sends, Dispatches(s) PROVE (\A t \in Sends : Sound(t)') /\ BookedWithinCap'
  <2>1. PICK pc \in {"awaiting"} : Goes(s, pc)
    BY <1>10 DEF Dispatches
  <2>3. /\ request'[s].pc = pc /\ request'[s].outcome = request[s].outcome
        /\ \A t \in Sends \ {s} : request'[t] = request[t]
    BY <2>1, MoveEffect DEF Places
  <2>2. Sound(s)'
    BY <1>10, <2>1, <2>3 DEF Dispatches, Sound, Placed, Booked, Accepted, Blank, rows, TypeOK,
       CarrierTypes
  <2>8. \A t \in Sends : Sound(t)'
    BY <1>10, <2>1, <2>2, OthersSound, <2>3 DEF Dispatches, rows, outside, TypeOK,
       ReservationTypes, ChallengeTypes, CarrierTypes
  <2>9. BookedWithinCap'
    BY <1>10, SameBookings DEF Dispatches, rows
  <2> QED
    BY <2>8, <2>9
<1>11. ASSUME NEW s \in Sends, HearsProvider(s) PROVE (\A t \in Sends : Sound(t)') /\ BookedWithinCap'
  <2>1. /\ request'[s].pc = "answered"
        /\ \A t \in Sends \ {s} : request'[t] = request[t]
        /\ \/ /\ carrier[s].took = "accepted" /\ request'[s].outcome = "accepted"
              /\ UNCHANGED carrier
           \/ /\ carrier[s].took = "refused" /\ request'[s].outcome \in Unbilled
              /\ UNCHANGED carrier
           \/ request'[s].outcome = "ambiguous_outcome" /\ UNCHANGED carrier
           \/ /\ request'[s].outcome = "transient_preacceptance"
              /\ carrier' = [carrier EXCEPT ![s].misreported = TRUE]
    <3>1. ASSUME NEW status \in {"queued", "sent"},
                 request' = [request EXCEPT ![s] = [pc |-> "answered", outcome |-> "accepted",
                                                    status |-> status]]
          PROVE  /\ request'[s].pc = "answered" /\ request'[s].outcome = "accepted"
                 /\ \A t \in Sends \ {s} : request'[t] = request[t]
      BY <3>1 DEF RequestTypes
    <3>2. ASSUME NEW outcome \in Outcomes, Ends(s, "answered", outcome)
          PROVE  /\ request'[s].pc = "answered" /\ request'[s].outcome = outcome
                 /\ \A t \in Sends \ {s} : request'[t] = request[t]
      BY <3>2, EndEffect DEF Places
    <3> QED
      BY <1>11, <3>1, <3>2 DEF HearsProvider, Outcomes, Billed, Unbilled
  <2>2. Sound(s)'
    BY <1>11, <2>1 DEF HearsProvider, Sound, Placed, Booked, Accepted, Blank, Unbilled, rows,
       TypeOK,
       CarrierTypes
  <2>8. \A t \in Sends : Sound(t)'
    BY <1>11, <2>1, <2>2, OthersSound DEF HearsProvider, rows, outside, TypeOK,
       ReservationTypes, ChallengeTypes, CarrierTypes
  <2>9. BookedWithinCap'
    BY <1>11, SameBookings DEF HearsProvider, rows
  <2> QED
    BY <2>8, <2>9
<1>12. ASSUME NEW s \in Sends, RecordsOutcome(s) PROVE (\A t \in Sends : Sound(t)') /\ BookedWithinCap'
  <2>1. /\ request'[s].pc = "settling"
        /\ \A t \in Sends \ {s} : request'[t] = request[t]
        /\ \/ /\ request'[s].outcome = request[s].outcome
              /\ challenge' = [challenge EXCEPT ![s] = WithOutcome(challenge[s], request[s])]
           \/ request'[s].outcome = "ambiguous_outcome"
    BY <1>12, MoveEffect, EndEffect DEF RecordsOutcome, AfterLostRecord, Places, Outcomes, Billed
  <2>3. request[s].outcome = "accepted" /\ request'[s].outcome = request[s].outcome =>
          challenge'[s].bound
    <3>1. SUFFICES ASSUME request[s].outcome = "accepted", request'[s].outcome = request[s].outcome
                   PROVE  challenge'[s].bound
      OBVIOUS
    <3>2. challenge'[s] = WithOutcome(challenge[s], request[s])
      BY <2>1, <3>1 DEF TypeOK, ChallengeTypes
    <3>3. WithOutcome(challenge[s], request[s])
            = [challenge[s] EXCEPT !.bound = TRUE,
                                   !.status = IF challenge[s].status = "none" THEN request[s].status
                                                                              ELSE challenge[s].status]
      BY <3>1 DEF WithOutcome
    <3>4. challenge[s] \in [requested : BOOLEAN, bound : BOOLEAN,
                            status : Final \cup {"none", "queued", "sent"}, event : 0..2, at : 0..2]
      BY DEF TypeOK, ChallengeTypes
    <3> QED
      BY <3>2, <3>3, <3>4
  <2>2. Sound(s)'
    BY <1>12, <2>1, <2>3 DEF RecordsOutcome, Sound, Placed, Booked, Accepted, Blank, Unbilled,
       outside
  <2>8. \A t \in Sends : Sound(t)'
    BY <1>12, <2>1, <2>2, OthersSound DEF RecordsOutcome, rows, outside, TypeOK,
       ReservationTypes, ChallengeTypes, CarrierTypes
  <2>9. BookedWithinCap'
    BY <1>12, SameBookings DEF RecordsOutcome, rows
  <2> QED
    BY <2>8, <2>9
<1>13. ASSUME NEW s \in Sends, Settles(s) PROVE (\A t \in Sends : Sound(t)') /\ BookedWithinCap'
  <2>1. Goes(s, "done")
    BY <1>13 DEF Settles
  <2>3. /\ request'[s].pc = "done" /\ request'[s].outcome = request[s].outcome
        /\ \A t \in Sends \ {s} : request'[t] = request[t]
    BY <2>1, MoveEffect DEF Places
  <2>4. /\ reservation[s].day # 0 /\ ~reservation[s].released
        /\ request[s].outcome \in Unbilled => carrier[s].took # "accepted" \/ carrier[s].misreported
    BY <1>13 DEF Settles, Sound, Placed
  <2>5. reservation'[s].day = reservation[s].day
    BY <1>13 DEF Settles, Settled, TypeOK, ReservationTypes
  <2>6. request[s].outcome \notin Unbilled => ~reservation'[s].released
    BY <1>13, <2>4 DEF Settles, Settled, TypeOK, ReservationTypes
  <2>2. Sound(s)'
    BY <1>13, <2>3, <2>4, <2>5, <2>6 DEF Settles, Sound, Placed, Booked, Accepted, Blank, outside
  <2>8. \A t \in Sends : Sound(t)'
    BY <1>13, <2>1, <2>2, OthersSound, <2>3 DEF Settles, rows, outside, TypeOK,
       ReservationTypes, ChallengeTypes, CarrierTypes
  <2>9. BookedWithinCap'
    BY <1>13, <2>4, SameBookings, SettledFits DEF Settles
  <2> QED
    BY <2>8, <2>9
<1>14. ASSUME NEW s \in Sends, Dies(s) PROVE (\A t \in Sends : Sound(t)') /\ BookedWithinCap'
  <2>1. Ends(s, "done", "none")
    BY <1>14 DEF Dies
  <2>3. /\ request'[s].pc = "done" /\ request'[s].outcome = "none"
        /\ \A t \in Sends \ {s} : request'[t] = request[t]
    BY <2>1, EndEffect DEF Places, Outcomes
  <2>2. Sound(s)'
    BY <1>14, <2>3 DEF Dies, Sound, Placed, Booked, Accepted, Blank, rows, outside
  <2>8. \A t \in Sends : Sound(t)'
    BY <1>14, <2>1, <2>2, OthersSound, <2>3 DEF Dies, rows, outside, TypeOK, ReservationTypes,
       ChallengeTypes, CarrierTypes
  <2>9. BookedWithinCap'
    BY <1>14, SameBookings DEF Dies, rows
  <2> QED
    BY <2>8, <2>9
<1>15. ASSUME NEW s \in Sends, ProviderReports(s) PROVE (\A t \in Sends : Sound(t)') /\ BookedWithinCap'
  <2>1. \A t \in Sends : carrier'[t].took = carrier[t].took
                         /\ carrier'[t].misreported = carrier[t].misreported
    BY <1>15 DEF ProviderReports, TypeOK, CarrierTypes
  <2>2. Sound(s)'
    BY <1>15, <2>1 DEF ProviderReports, Sound, Placed, Booked, Accepted, Blank, rows
  <2>8. \A t \in Sends : Sound(t)'
    BY <1>15, <2>1, <2>2, OthersSound DEF ProviderReports, rows, outside, TypeOK,
       ReservationTypes, ChallengeTypes, CarrierTypes
  <2>9. BookedWithinCap'
    BY <1>15, SameBookings DEF ProviderReports, rows
  <2> QED
    BY <2>8, <2>9
<1>16. ASSUME NEW s \in Sends, NEW k \in DOMAIN carrier[s].events, RecordsDelivery(s, k)
       PROVE  (\A t \in Sends : Sound(t)') /\ BookedWithinCap'
  <2>1. challenge[s].bound /\ challenge'[s].bound
    BY <1>16 DEF RecordsDelivery, TypeOK, ChallengeTypes
  <2>2. Sound(s)'
    BY <1>16, <2>1 DEF RecordsDelivery, Sound, Placed, Booked, Accepted, Blank, outside
  <2>8. \A t \in Sends : Sound(t)'
    BY <1>16, <2>1, <2>2, OthersSound DEF RecordsDelivery, outside, TypeOK, ChallengeTypes
  <2>9. BookedWithinCap'
    BY <1>16, SameBookings DEF RecordsDelivery
  <2> QED
    BY <2>8, <2>9
<1>17. ASSUME UNCHANGED <<request, reservation, challenge, carrier>>
       PROVE  (\A t \in Sends : Sound(t)') /\ BookedWithinCap'
  BY <1>17, SameBookings DEF Sound, Placed, Booked, Accepted, Blank
<1>18. ASSUME NEW word \in Words, Texts(word)
       PROVE  UNCHANGED <<request, reservation, challenge, carrier>>
  BY <1>18 DEF Texts, rows
<1>19. ASSUME NEW i \in DOMAIN said, RecordsControl(i)
       PROVE  UNCHANGED <<request, reservation, challenge, carrier>>
  BY <1>19 DEF RecordsControl, outside
<1>20. TripsBreaker \/ NewDay \/ UNCHANGED vars =>
         UNCHANGED <<request, reservation, challenge, carrier>>
  BY DEF TripsBreaker, NewDay, vars, rows, outside
<1> QED
  BY <1>2, <1>4, <1>5, <1>6, <1>7, <1>8, <1>9, <1>10, <1>11, <1>12, <1>13, <1>14, <1>15, <1>16,
     <1>17, <1>18, <1>19, <1>20 DEF Next

\* The invariant holds throughout.
THEOREM Invariance == Spec => []IInv
<1>1. Init => IInv
  <2> SUFFICES ASSUME Init PROVE IInv
    OBVIOUS
  <2>1. TypeOK
    BY InitTypes
  <2>2. \A s \in Sends : Sound(s)
    BY DEF Init, Sound, Placed, Booked, Accepted, Blank, Idle, NoReservation, NoChallenge, Before,
       Holding, Unsent
  <2>3. ASSUME NEW d \in Days PROVE ReservedOn(d) = {}
    BY BoundAssumption DEF Init, ReservedOn, NoReservation, Days
  <2>4. BookedWithinCap
    <3>1. Cardinality({}) = 0
      BY FS_EmptySet
    <3> QED
      BY <2>3, <3>1, BoundAssumption DEF BookedWithinCap
  <2> QED
    BY <2>1, <2>2, <2>4 DEF IInv
<1> QED
  BY <1>1, InvStep, PTL DEF Spec

-----------------------------------------------------------------------------
(* What the invariant gives. *)

\* Of the messages reserved for a day, the provider took no more than the
\* cap, except those it took while answering that it had not.
THEOREM CapKept == Spec => []SentWithinCap
<1>1. IInv => SentWithinCap
  <2> SUFFICES ASSUME IInv, NEW d \in Days
               PROVE  Cardinality({s \in TakenOn(d) : ~carrier[s].misreported}) <= Cap
    BY DEF SentWithinCap
  <2> DEFINE T == {s \in TakenOn(d) : ~carrier[s].misreported}
  <2>1. T \subseteq ReservedOn(d)
    BY DEF IInv, Sound, Booked, TakenOn, ReservedOn
  <2>2. IsFiniteSet(ReservedOn(d))
    BY SendAssumption, FS_Subset DEF ReservedOn
  <2>3. /\ Cardinality(ReservedOn(d)) <= Cap /\ Cardinality(ReservedOn(d)) \in Nat
        /\ Cardinality(T) <= Cardinality(ReservedOn(d)) /\ Cardinality(T) \in Nat
    BY <2>1, <2>2, FS_Subset, FS_CardinalityType DEF IInv, BookedWithinCap
  <2> QED
    BY <2>3, BoundAssumption
<1> QED
  BY <1>1, Invariance, PTL

\* A request that answered "accepted" has a message the provider took, a row
\* its webhooks find, and money reserved for it.
THEOREM AcceptedTraceable == Spec => []AcceptedIsTraceable
<1>1. IInv => AcceptedIsTraceable
  BY DEF IInv, Sound, Booked, Accepted, AcceptedIsTraceable
<1> QED
  BY <1>1, Invariance, PTL

\* A status that follows another one ranks higher.
LEMMA FollowedRanksHigher ==
  ASSUME NEW old, NEW new \in {"sent", "delivered", "undelivered"}, Follows(old, new), new # old
  PROVE  Rank(new) > Rank(old)
<1>1. Rank(new) = IF new = "sent" THEN 2 ELSE 3
  BY DEF Rank
<1>2. CASE old \in {"none", "queued"}
  <2>1. Rank(old) = 0 \/ Rank(old) = 1
    BY <1>2 DEF Rank
  <2> QED
    BY <1>1, <2>1
<1>3. CASE old = "sent" /\ new \in {"delivered", "undelivered"}
  <2>1. Rank(old) = 2 /\ Rank(new) = 3
    BY <1>3 DEF Rank
  <2> QED
    BY <2>1
<1> QED
  BY <1>2, <1>3 DEF Follows

\* A recorded delivery status only advances.
THEOREM StatusAdvances == Spec => StatusNeverRegresses
<1> DEFINE Advances == \A s \in Sends :
             LET old == challenge[s].status  new == challenge[s].status'
             IN  Rank(new) > Rank(old) \/ new = old
<1>1. IInv /\ [Next]_vars => Advances
  <2> SUFFICES ASSUME IInv, [Next]_vars, NEW t \in Sends, challenge'[t].status # challenge[t].status
               PROVE  Rank(challenge'[t].status) > Rank(challenge[t].status)
    OBVIOUS
  <2> USE DEF IInv, TypeOK
  <2>1. challenge[t].status \in Final \cup {"none", "queued", "sent"}
    BY DEF ChallengeTypes
  <2>2. PICK s \in Sends :
          \/ RecordsOutcome(s)
          \/ \E k \in DOMAIN carrier[s].events : RecordsDelivery(s, k)
    BY DEF Next, ChecksSuppression, IsTurnedAway, ReservesSpend, IssuesChallenge,
       RecordsRequested,
       FailsBeforeSending, Dispatches, HearsProvider, Settles, Dies, ProviderReports, Texts,
       RecordsControl, TripsBreaker, NewDay, vars, rows, outside, ChallengeTypes
  <2>3. CASE RecordsOutcome(s)
    <3>1. challenge' = [challenge EXCEPT ![s] = WithOutcome(challenge[s], request[s])] /\ s = t
      BY <2>3 DEF RecordsOutcome, ChallengeTypes
    <3>2. challenge[t].status = "none"
      BY <2>3, <3>1 DEF RecordsOutcome, At, Sound, Blank, Unsent
    <3>3. challenge'[t].status \in {"queued", "sent", "rejected", "failed"}
      <4>1. /\ challenge'[t] = WithOutcome(challenge[t], request[t])
            /\ WithOutcome(challenge[t], request[t]).status # "none"
            /\ request[t].status \in {"none", "queued", "sent"}
        BY <3>1, <3>2 DEF ChallengeTypes, RequestTypes
      <4> QED
        BY <3>2, <4>1 DEF WithOutcome, ChallengeTypes
    <3> QED
      BY <3>2, <3>3 DEF Rank
  <2>4. ASSUME NEW k \in DOMAIN carrier[s].events, RecordsDelivery(s, k)
        PROVE  Rank(challenge'[t].status) > Rank(challenge[t].status)
    <3>1. CASE UNCHANGED challenge
      BY <3>1
    <3>3. ASSUME Applies(challenge[s], k, carrier[s].events[k]),
                 challenge' = [challenge EXCEPT ![s].status = carrier[s].events[k].status,
                               ![s].event = k, ![s].at = carrier[s].events[k].at]
          PROVE  Rank(challenge'[t].status) > Rank(challenge[t].status)
      <4>1. s = t /\ challenge'[t].status = carrier[s].events[k].status
        BY <3>3 DEF ChallengeTypes
      <4>2. carrier[s].events[k].status \in {"sent", "delivered", "undelivered"}
        <5>1. carrier[s].events[k] \in Event
          BY DEF CarrierTypes
        <5> QED
          BY <5>1 DEF Event
      <4>3. Follows(challenge[t].status, challenge'[t].status)
        BY <3>3, <4>1 DEF Applies
      <4>4. /\ challenge'[t].status \in {"sent", "delivered", "undelivered"}
            /\ challenge'[t].status # challenge[t].status
        BY <4>1, <4>2
      <4> QED
        BY <4>3, <4>4, FollowedRanksHigher, Zenon
    <3> QED
      BY <2>4, <3>1, <3>3 DEF RecordsDelivery
  <2> QED
    BY <2>2, <2>3, <2>4
<1> QED
  BY <1>1, Invariance, PTL DEF Spec, StatusNeverRegresses

-----------------------------------------------------------------------------
(* Delivery events, in any order.                                          *)

\* What is known of the events of a message: the first bears the earliest
\* instant, and only a message that was sent has a second one.
Posted(events) ==
  /\ Len(events) # 0 => events[1].at = 1
  /\ Len(events) = 2 => events[1].status = "sent" /\ events[2].status # "sent"

\* What the row shows of its message: what the request recorded, or the event
\* it names; and the newest one once that was heard.
RowShows(s) ==
  LET events == carrier[s].events
      row == challenge[s]
  IN  /\ row.event = 0 => row.at = 0 /\ (row.bound => row.status \in {"queued", "sent"})
      /\ row.event # 0 => /\ row.event \in 1..Len(events)
                          /\ row.at = events[row.event].at /\ row.status = events[row.event].status
      /\ Len(events) \in heard[s] /\ (Len(events) = 2 => events[1].at # events[2].at) =>
           row.status = events[Len(events)].status

Heard(s) ==
  /\ request[s].outcome = "accepted" => request[s].status \in {"queued", "sent"}
  /\ Posted(carrier[s].events)
  /\ heard[s] \subseteq 1..Len(carrier[s].events)
  /\ ~challenge[s].bound => challenge[s].event = 0 /\ heard[s] = {}
  /\ RowShows(s)

EventInv == \A s \in Sends : Heard(s)

\* What a step must leave alone for a row to keep what it shows.
Kept(s) ==
  /\ request'[s].outcome = "accepted" =>
       request[s].outcome = "accepted" /\ request'[s].status = request[s].status
  /\ carrier'[s].events = carrier[s].events /\ heard'[s] = heard[s]
  /\ challenge'[s].bound = challenge[s].bound /\ challenge'[s].status = challenge[s].status
  /\ challenge'[s].event = challenge[s].event /\ challenge'[s].at = challenge[s].at

LEMMA KeptHeard ==
  ASSUME NEW s \in Sends, Heard(s), Kept(s)
  PROVE  Heard(s)'
<1>1. RowShows(s)'
  BY DEF Heard, Kept, RowShows
<1> QED
  BY <1>1 DEF Heard, Kept, Posted

\* Steps of a request that change neither its row's status nor its events.
LEMMA MovesKeep ==
  ASSUME IInv, NEW s \in Sends, NEW t \in Sends,
         \/ ChecksSuppression(s) \/ IsTurnedAway(s) \/ ReservesSpend(s) \/ IssuesChallenge(s)
         \/ RecordsRequested(s) \/ FailsBeforeSending(s) \/ Settles(s) \/ Dies(s)
  PROVE  Kept(t)
<1> USE DEF IInv, TypeOK
<1>1. UNCHANGED <<carrier, heard>>
  BY DEF ChecksSuppression, IsTurnedAway, ReservesSpend, IssuesChallenge, RecordsRequested,
     FailsBeforeSending, Settles, Dies, outside
<1>2. challenge' = challenge \/ challenge' = [challenge EXCEPT ![s].requested = TRUE]
  BY DEF ChecksSuppression, IsTurnedAway, ReservesSpend, IssuesChallenge, RecordsRequested,
     FailsBeforeSending, Settles, Dies, rows
<1>3. ASSUME NEW pc \in Places, Goes(s, pc)
      PROVE  request'[t].outcome = request[t].outcome /\ request'[t].status = request[t].status
  BY <1>3 DEF RequestTypes, Goes
<1>4. ASSUME NEW pc \in Places, NEW o \in Outcomes, o # "accepted", Ends(s, pc, o)
      PROVE  request'[t].outcome = "accepted" =>
               request[t].outcome = "accepted" /\ request'[t].status = request[t].status
  BY <1>4 DEF RequestTypes, Ends
<1>5. \/ \E pc \in Places : Goes(s, pc)
      \/ \E pc \in Places, o \in Outcomes : o # "accepted" /\ Ends(s, pc, o)
  BY DEF ChecksSuppression, IsTurnedAway, ReservesSpend, IssuesChallenge, RecordsRequested,
     FailsBeforeSending, Settles, Dies, Places, Outcomes, Unbilled
<1>6. request'[t].outcome = "accepted" =>
        request[t].outcome = "accepted" /\ request'[t].status = request[t].status
  BY <1>3, <1>4, <1>5
<1> QED
  BY <1>1, <1>2, <1>6 DEF Kept, ChallengeTypes

LEMMA OthersKeep ==
  ASSUME IInv, NEW t \in Sends,
         \/ \E word \in Words : Texts(word)
         \/ \E i \in DOMAIN said : RecordsControl(i)
         \/ TripsBreaker \/ NewDay \/ UNCHANGED vars
  PROVE  Kept(t)
<1>1. UNCHANGED <<request, challenge, carrier, heard>>
  BY DEF Texts, RecordsControl, TripsBreaker, NewDay, vars, rows, outside
<1> QED
  BY <1>1 DEF Kept

\* What the provider answers is no event yet.
LEMMA AnswersKeep ==
  ASSUME IInv, EventInv, NEW s \in Sends, NEW t \in Sends, Dispatches(s) \/ HearsProvider(s)
  PROVE  Heard(t)'
<1> USE DEF IInv, TypeOK
<1>1. UNCHANGED <<challenge, heard>>
  BY DEF Dispatches, HearsProvider, rows
<1>2. carrier'[t].events = carrier[t].events
  <2>1. ASSUME NEW took \in {"accepted", "refused"}, carrier' = [carrier EXCEPT ![s].took = took]
        PROVE  carrier'[t].events = carrier[t].events
    BY <2>1 DEF CarrierTypes
  <2>2. ASSUME carrier' = [carrier EXCEPT ![s].misreported = TRUE]
        PROVE  carrier'[t].events = carrier[t].events
    BY <2>2 DEF CarrierTypes
  <2> QED
    BY <2>1, <2>2 DEF Dispatches, HearsProvider
<1>3. CASE t # s
  <2>1. request'[t] = request[t]
    BY <1>3 DEF Dispatches, HearsProvider, Goes, Ends, RequestTypes
  <2> QED
    BY <1>1, <1>2, <2>1, KeptHeard DEF EventInv, Kept
<1>4. CASE t = s /\ request'[t].outcome = "accepted" /\ request'[t].status \in {"queued", "sent"}
  <2>1. RowShows(t)'
    BY <1>1, <1>2 DEF EventInv, Heard, RowShows
  <2> QED
    BY <1>1, <1>2, <1>4, <2>1 DEF EventInv, Heard, Posted
<1>5. CASE t = s /\ (request'[t].outcome = "accepted" =>
                       request[t].outcome = "accepted" /\ request'[t].status = request[t].status)
  BY <1>1, <1>2, <1>5, KeptHeard DEF EventInv, Kept
<1>6. \/ /\ request'[s].outcome = "accepted" /\ request'[s].status \in {"queued", "sent"}
      \/ (request'[s].outcome = "accepted" =>
            request[s].outcome = "accepted" /\ request'[s].status = request[s].status)
  BY DEF Dispatches, HearsProvider, Goes, Ends, RequestTypes, Unbilled
<1> QED
  BY <1>3, <1>4, <1>5, <1>6

\* A row is bound when its outcome is recorded, before any event finds it.
LEMMA OutcomeKeeps ==
  ASSUME IInv, EventInv, NEW s \in Sends, NEW t \in Sends, RecordsOutcome(s)
  PROVE  Heard(t)'
<1> USE DEF IInv, TypeOK
<1>1. UNCHANGED <<carrier, heard>>
  BY DEF RecordsOutcome, outside
<1>2. (request'[t].outcome = "accepted" =>
         request[t].outcome = "accepted" /\ request'[t].status = request[t].status)
  BY DEF RecordsOutcome, Goes, Ends, AfterLostRecord, RequestTypes
<1>3. CASE challenge'[t] = challenge[t]
  BY <1>1, <1>2, <1>3, KeptHeard DEF EventInv, Kept
<1>4. CASE t = s /\ challenge'[t] = WithOutcome(challenge[t], request[t])
  <2>1. ~challenge[t].bound /\ challenge[t].status = "none"
    BY <1>4 DEF RecordsOutcome, At, Sound, Blank, Unsent
  <2>2. challenge[t].event = 0 /\ challenge[t].at = 0 /\ heard[t] = {}
    BY <2>1 DEF EventInv, Heard, RowShows
  <2>3. /\ challenge'[t].event = 0 /\ challenge'[t].at = 0
        /\ challenge'[t].bound => request[t].outcome = "accepted" /\ challenge'[t].status = request[t].status
    <3>1. /\ challenge'[t].event = challenge[t].event /\ challenge'[t].at = challenge[t].at
          /\ request[t].outcome # "accepted" => challenge'[t].bound = challenge[t].bound
          /\ request[t].outcome = "accepted" /\ challenge[t].status = "none" =>
               challenge'[t].status = request[t].status
      BY <1>4 DEF WithOutcome, ChallengeTypes
    <3> QED
      BY <2>1, <2>2, <3>1
  <2>4. RowShows(t)'
    BY <1>1, <2>2, <2>3 DEF EventInv, Heard, RowShows
  <2> QED
    BY <1>1, <1>2, <2>2, <2>3, <2>4 DEF EventInv, Heard, Posted
<1>5. challenge'[t] = challenge[t] \/ (t = s /\ challenge'[t] = WithOutcome(challenge[t], request[t]))
  BY DEF RecordsOutcome, ChallengeTypes
<1> QED
  BY <1>3, <1>4, <1>5

\* A new event is not heard yet, so the row need not show it.
LEMMA ReportsKeep ==
  ASSUME IInv, EventInv, NEW s \in Sends, NEW t \in Sends, ProviderReports(s)
  PROVE  Heard(t)'
<1> USE DEF IInv, TypeOK
<1>1. UNCHANGED <<request, challenge, heard>>
  BY DEF ProviderReports, rows
<1> DEFINE events == carrier[s].events
           latest == IF Len(events) = 0 THEN 0 ELSE events[Len(events)].at
<1>2. events \in Seq(Event) /\ Len(events) \in Nat
  BY DEF CarrierTypes
<1>3. PICK e \in Event : /\ Len(events) = 1 => e.status # "sent"
                         /\ e.at \in {latest, latest + 1}
                         /\ carrier' = [carrier EXCEPT ![s].events = Append(events, e)]
  BY DEF ProviderReports
<1>4. Len(events) = 0 \/ (Len(events) = 1 /\ events[1].status = "sent")
  BY DEF ProviderReports
<1>5. CASE t # s
  <2>1. carrier'[t] = carrier[t]
    BY <1>3, <1>5 DEF CarrierTypes
  <2> QED
    BY <1>1, <2>1, KeptHeard DEF EventInv, Kept
<1>6. CASE t = s
  <2>1. carrier'[s].events = Append(events, e)
    BY <1>3 DEF CarrierTypes
  <2>2. /\ Len(Append(events, e)) = Len(events) + 1
        /\ Append(events, e)[Len(events) + 1] = e
        /\ \A i \in 1..Len(events) : Append(events, e)[i] = events[i]
    BY <1>2, AppendProperties
  <2> HIDE DEF events, latest
  <2>3. /\ carrier'[s].events[Len(events) + 1] = e /\ Len(carrier'[s].events) = Len(events) + 1
        /\ \A i \in 1..Len(events) : carrier'[s].events[i] = events[i]
    BY <2>1, <2>2
  <2>4. Posted(carrier[s].events)'
    <3>1. CASE Len(events) = 0
      <4>1. e.at = 1
        BY <1>3, <3>1 DEF Event, latest
      <4> QED
        BY <2>3, <3>1, <4>1 DEF Posted
    <3>2. CASE Len(events) = 1
      <4>1. events[1].at = 1
        BY <3>2 DEF EventInv, Heard, Posted, events
      <4> QED
        BY <1>3, <1>4, <2>3, <3>2, <4>1 DEF Posted
    <3> QED
      BY <1>4, <3>1, <3>2
  <2>5. heard'[s] \subseteq 1..Len(events) /\ heard'[s] \subseteq 1..Len(carrier'[s].events)
    BY <1>1, <1>2, <2>3 DEF EventInv, Heard, events
  <2>6. RowShows(s)'
    <3>1. Len(carrier'[s].events) \notin heard'[s]
      BY <1>2, <2>3, <2>5
    <3>2. challenge[s].event # 0 =>
            /\ challenge[s].event \in 1..Len(events)
            /\ challenge[s].at = events[challenge[s].event].at
            /\ challenge[s].status = events[challenge[s].event].status
      BY DEF EventInv, Heard, RowShows, events
    <3>3. challenge[s].event = 0 =>
            challenge[s].at = 0 /\ (challenge[s].bound => challenge[s].status \in {"queued", "sent"})
      BY DEF EventInv, Heard, RowShows
    <3>4. challenge[s].event # 0 => challenge[s].event \in 1..Len(carrier'[s].events)
      BY <1>2, <2>3, <3>2
    <3> QED
      BY <1>1, <2>3, <3>1, <3>2, <3>3, <3>4 DEF RowShows
  <2>7. /\ request[s].outcome = "accepted" => request[s].status \in {"queued", "sent"}
        /\ ~challenge[s].bound => challenge[s].event = 0 /\ heard[s] = {}
    BY DEF EventInv, Heard
  <2> QED
    BY <1>1, <1>6, <2>4, <2>5, <2>6, <2>7 DEF Heard
<1> QED
  BY <1>5, <1>6

\* There are at most two events.
LEMMA TwoEvents ==
  ASSUME CarrierTypes, NEW s \in Sends, NEW k \in DOMAIN carrier[s].events
  PROVE  /\ carrier[s].events \in Seq(Event) /\ Len(carrier[s].events) \in 0..2
         /\ k \in 1..Len(carrier[s].events) /\ k \in 1..2
         /\ \A i \in 1..Len(carrier[s].events) : carrier[s].events[i] \in Event
<1> DEFINE events == carrier[s].events
<1>1. events \in Seq(Event) /\ Len(events) <= 2
  BY DEF CarrierTypes
<1> HIDE DEF events
<1>2. /\ Len(events) \in Nat /\ DOMAIN events = 1..Len(events)
      /\ \A i \in 1..Len(events) : events[i] \in Event
  BY <1>1, LenProperties
<1>3. k \in DOMAIN events
  BY DEF events
<1>4. k \in 1..Len(events)
  BY <1>2, <1>3
<1>5. Len(events) \in 0..2 /\ k \in 1..2
  BY <1>1, <1>2, <1>4
<1> QED
  BY <1>1, <1>2, <1>4, <1>5 DEF events

\* An event that changes nothing is the one the row shows, or an older one,
\* or one that was overtaken by what the row shows.
LEMMA UnappliedShows ==
  ASSUME IInv, EventInv, NEW s \in Sends, NEW k \in DOMAIN carrier[s].events, challenge[s].bound,
         ~Applies(challenge[s], k, carrier[s].events[k]), k = Len(carrier[s].events),
         k = 2 => carrier[s].events[1].at # carrier[s].events[2].at
  PROVE  challenge[s].status = carrier[s].events[k].status
<1> DEFINE c == challenge[s]
           events == carrier[s].events
<1>1. events \in Seq(Event) /\ k \in 1..2 /\ events[k] \in Event /\ (k = 2 => events[1] \in Event)
  BY TwoEvents DEF IInv, TypeOK
<1>2. /\ events[1].at = 1
      /\ k = 2 => events[1].status = "sent" /\ events[2].at = 2
  BY <1>1 DEF EventInv, Heard, Posted, Event
<1>3. c.event \in 0..k /\ (c.event = 0 => c.at = 0 /\ c.status \in {"queued", "sent"})
  BY <1>1 DEF EventInv, Heard, RowShows
<1>4. c.event # 0 => c.at = events[c.event].at /\ c.status = events[c.event].status
  BY DEF EventInv, Heard, RowShows
<1>5. CASE c.event = k
  BY <1>1, <1>4, <1>5
<1>6. CASE c.event # k
  <2>1. ~Older(c, events[k])
    BY <1>1, <1>2, <1>3, <1>4, <1>6 DEF Older
  <2>2. c.status \in {"queued", "sent"}
    BY <1>1, <1>2, <1>3, <1>4, <1>6
  <2>3. Follows(c.status, events[k].status)
    BY <1>1, <2>2 DEF Follows, Event
  <2> QED
    BY <1>6, <2>1, <2>3 DEF Applies, Replays
<1> QED
  BY <1>5, <1>6

\* A delivery event moves its row to the newest status, whatever came first.
LEMMA DeliveryKeeps ==
  ASSUME IInv, EventInv, NEW s \in Sends, NEW t \in Sends,
         NEW k \in DOMAIN carrier[s].events, RecordsDelivery(s, k)
  PROVE  Heard(t)'
<1> USE DEF IInv, TypeOK
<1>1. UNCHANGED <<request, carrier>> /\ challenge[s].bound
  BY DEF RecordsDelivery, outside
<1>2. heard' = [heard EXCEPT ![s] = heard[s] \cup {k}]
  BY DEF RecordsDelivery
<1>3. CASE t # s
  <2>1. challenge'[t] = challenge[t] /\ heard'[t] = heard[t]
    BY <1>2, <1>3 DEF RecordsDelivery, ChallengeTypes, OtherTypes
  <2> QED
    BY <1>1, <2>1, KeptHeard DEF EventInv, Kept
<1>4. CASE t = s
  <2> DEFINE events == carrier[s].events
             n == Len(events)
             row == challenge'[s]
  <2>1. /\ events \in Seq(Event) /\ n \in 0..2 /\ k \in 1..n /\ events[k] \in Event
        /\ n = 2 => events[2] \in Event
    BY TwoEvents
  <2>2. heard'[s] = heard[s] \cup {k}
    BY <1>2 DEF OtherTypes
  <2>3. row.bound
    BY <1>1 DEF RecordsDelivery, ChallengeTypes
  <2>4. RowShows(s)'
    <3>1. CASE ~Applies(challenge[s], k, events[k])
      <4>1. row = challenge[s]
        BY <3>1 DEF RecordsDelivery
      <4>2. n \in heard'[s] /\ (n = 2 => events[1].at # events[2].at) => row.status = events[n].status
        BY <1>1, <2>1, <2>2, <3>1, <4>1, UnappliedShows DEF EventInv, Heard, RowShows
      <4> QED
        BY <1>1, <4>1, <4>2 DEF EventInv, Heard, RowShows
    <3>2. CASE Applies(challenge[s], k, events[k])
      <4>1. row.status = events[k].status /\ row.event = k /\ row.at = events[k].at
        BY <3>2 DEF RecordsDelivery, ChallengeTypes
      <4>2. ASSUME n \in heard'[s], n = 2 => events[1].at # events[2].at, k # n PROVE FALSE
        <5>1. n \in heard[s]
          BY <2>2, <4>2
        <5>2. n = 2 /\ k = 1
          <6>1. \A m \in 0..2 : \A i \in 1..m : i # m => m = 2 /\ i = 1
            OBVIOUS
          <6> QED
            BY <2>1, <4>2, <6>1, Zenon
        <5>3. challenge[s].status = events[2].status
          BY <4>2, <5>1, <5>2 DEF EventInv, Heard, RowShows
        <5>4. events[2].status # "sent" /\ events[1].status = "sent" /\ events[2] \in Event
          BY <2>1, <5>2 DEF EventInv, Heard, Posted
        <5>5. Follows(events[2].status, "sent")
          BY <3>2, <5>2, <5>3, <5>4 DEF Applies
        <5> QED
          BY <5>4, <5>5 DEF Follows, Event
      <4> QED
        BY <1>1, <2>1, <4>1, <4>2 DEF RowShows
    <3> QED
      BY <3>1, <3>2
  <2>5. heard'[s] \subseteq 1..Len(carrier'[s].events)
    BY <1>1, <2>1, <2>2 DEF EventInv, Heard
  <2> QED
    BY <1>1, <1>4, <2>3, <2>4, <2>5 DEF EventInv, Heard
<1> QED
  BY <1>3, <1>4

LEMMA EventStep == IInv /\ EventInv /\ [Next]_vars => EventInv'
<1> SUFFICES ASSUME IInv, EventInv, [Next]_vars, NEW t \in Sends PROVE Heard(t)'
  BY DEF EventInv
<1>1. ASSUME Kept(t) PROVE Heard(t)'
  BY <1>1, KeptHeard DEF EventInv
<1>2. ASSUME NEW s \in Sends,
             \/ ChecksSuppression(s) \/ IsTurnedAway(s) \/ ReservesSpend(s) \/ IssuesChallenge(s)
             \/ RecordsRequested(s) \/ FailsBeforeSending(s) \/ Settles(s) \/ Dies(s)
      PROVE  Heard(t)'
  BY <1>1, <1>2, MovesKeep
<1>3. ASSUME \/ \E word \in Words : Texts(word)
             \/ \E i \in DOMAIN said : RecordsControl(i)
             \/ TripsBreaker \/ NewDay \/ UNCHANGED vars
      PROVE  Heard(t)'
  BY <1>1, <1>3, OthersKeep
<1>4. ASSUME NEW s \in Sends, Dispatches(s) \/ HearsProvider(s) PROVE Heard(t)'
  BY <1>4, AnswersKeep
<1>5. ASSUME NEW s \in Sends, RecordsOutcome(s) PROVE Heard(t)'
  BY <1>5, OutcomeKeeps
<1>6. ASSUME NEW s \in Sends, ProviderReports(s) PROVE Heard(t)'
  BY <1>6, ReportsKeep
<1>7. ASSUME NEW s \in Sends, NEW k \in DOMAIN carrier[s].events, RecordsDelivery(s, k)
      PROVE  Heard(t)'
  BY <1>7, DeliveryKeeps
<1> QED
  BY <1>2, <1>3, <1>4, <1>5, <1>6, <1>7 DEF Next

\* Once the newest event of a message was handled with its row found, the row
\* shows it, whatever the order and the repetition of the events.
THEOREM NewestShows == Spec => []NewestEventShows
<1>1. Init => EventInv
  BY DEF Init, EventInv, Heard, Posted, RowShows, Idle, NoChallenge
<1>2. EventInv => NewestEventShows
  BY DEF EventInv, Heard, RowShows, NewestEventShows
<1> QED
  BY <1>1, <1>2, Invariance, EventStep, PTL DEF Spec

-----------------------------------------------------------------------------
(* Texts, however often each is redelivered.                               *)

\* A text that is not the newest recorded one changes nothing.
LEMMA TextStep == TypeOK /\ RedeliveredTextsAreInert /\ [Next]_vars => RedeliveredTextsAreInert'
<1> SUFFICES ASSUME TypeOK, RedeliveredTextsAreInert, [Next]_vars PROVE RedeliveredTextsAreInert'
  OBVIOUS
<1>1. CASE UNCHANGED <<said, recorded, suppressed, inOrder>>
  BY <1>1 DEF RedeliveredTextsAreInert
<1>2. ASSUME NEW word \in Words, Texts(word) PROVE RedeliveredTextsAreInert'
  <2>1. said' = Append(said, word) /\ UNCHANGED <<recorded, suppressed, inOrder>>
    BY <1>2 DEF Texts, rows
  <2>2. \A i \in recorded : said'[i] = said[i]
    BY <2>1, AppendProperties DEF TypeOK, TextTypes
  <2> QED
    BY <2>1, <2>2 DEF RedeliveredTextsAreInert
<1>3. ASSUME NEW i \in DOMAIN said, RecordsControl(i) PROVE RedeliveredTextsAreInert'
  <2>1. said' = said /\ inOrder' = (inOrder /\ (i \in recorded \/ \A j \in recorded : j < i))
    BY <1>3 DEF RecordsControl, outside
  <2>2. recorded \subseteq Nat /\ i \in Nat
    BY DEF TypeOK, TextTypes
  <2>3. CASE i \in recorded
    <3>1. UNCHANGED <<recorded, suppressed>> /\ inOrder' = inOrder
      BY <1>3, <2>1, <2>3 DEF RecordsControl, IsNew, TypeOK, TextTypes
    <3> QED
      BY <2>1, <3>1 DEF RedeliveredTextsAreInert
  <2>4. CASE i \notin recorded
    <3>1. recorded' = recorded \cup {i} /\ suppressed' = (said[i] = "stop")
      BY <1>3, <2>4 DEF RecordsControl, IsNew
    <3>2. ASSUME inOrder', NEW j \in recorded \cup {i}, \A h \in recorded \cup {i} : h <= j
          PROVE  j = i
      <4>1. \A h \in recorded : h < i
        BY <2>1, <2>4, <3>2, Zenon
      <4> QED
        BY <2>2, <3>2, <4>1
    <3> QED
      BY <2>1, <3>1, <3>2 DEF RedeliveredTextsAreInert
  <2> QED
    BY <2>3, <2>4
<1>4. ASSUME NEW s \in Sends,
             \/ ChecksSuppression(s) \/ IsTurnedAway(s) \/ ReservesSpend(s) \/ IssuesChallenge(s)
             \/ RecordsRequested(s) \/ FailsBeforeSending(s) \/ Dispatches(s) \/ HearsProvider(s)
             \/ RecordsOutcome(s) \/ Settles(s) \/ Dies(s) \/ ProviderReports(s)
             \/ \E k \in DOMAIN carrier[s].events : RecordsDelivery(s, k)
      PROVE  UNCHANGED <<said, recorded, suppressed, inOrder>>
  BY <1>4 DEF ChecksSuppression, IsTurnedAway, ReservesSpend, IssuesChallenge, RecordsRequested,
     FailsBeforeSending, Dispatches, HearsProvider, RecordsOutcome, Settles, Dies, ProviderReports,
     RecordsDelivery, rows, outside
<1>5. ASSUME TripsBreaker \/ NewDay \/ UNCHANGED vars
      PROVE  UNCHANGED <<said, recorded, suppressed, inOrder>>
  BY <1>5 DEF TripsBreaker, NewDay, vars, rows, outside
<1> QED
  BY <1>1, <1>2, <1>3, <1>4, <1>5 DEF Next

\* While texts first arrive in the order they were sent, the destination is
\* suppressed exactly when the latest recorded one says STOP.
THEOREM RedeliveredInert == Spec => []RedeliveredTextsAreInert
<1>1. Init => RedeliveredTextsAreInert
  BY DEF Init, RedeliveredTextsAreInert
<1> QED
  BY <1>1, TypeCorrect, TextStep, PTL DEF Spec

=============================================================================
