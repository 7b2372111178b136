----------------------------- MODULE SmsDelivery -----------------------------
(***************************************************************************)
(* Verification codes by text message, for one destination and one         *)
(* provider.  A delivery request checks the destination's suppression,     *)
(* reserves money under the daily cap, commits a challenge, records that   *)
(* it is about to send, calls the provider, records what the provider      *)
(* answered, and settles the reservation.  Every step is a call that can   *)
(* fail or lose its reply, and the process can stop between any two.       *)
(*                                                                         *)
(* Meanwhile the provider posts webhooks, at least once and in any order:  *)
(* delivery events about a message, the recipient's STOP and START texts,  *)
(* and its own spend limit.                                                *)
(*                                                                         *)
(* A request makes at most one challenge, one reservation and one message, *)
(* so its name stands for the three ids.  All reservations are of the same *)
(* number of cents, and the cap is counted in reservations.                *)
(***************************************************************************)
EXTENDS Integers, FiniteSets, Sequences

CONSTANTS Sends,       \* the delivery requests
          Cap,         \* reservations the daily spend cap has room for
          MaxDay,      \* bound on the days (UTC) a run lasts
          MaxTexts,    \* bound on the recipient's STOP and START texts
          MaxReports,  \* bound on the delivery events the provider posts
          MaxMishaps   \* bound on lost calls, lost replies, crashes and spend limits

ASSUME SendAssumption == IsFiniteSet(Sends)
ASSUME BoundAssumption ==
  /\ Cap \in Nat /\ MaxDay \in Nat \ {0}
  /\ MaxTexts \in Nat /\ MaxReports \in Nat /\ MaxMishaps \in Nat

VARIABLES request,      \* where each delivery request is
          reservation,  \* the row of sms_spend_reservations of each request
          challenge,    \* the provider columns of each request's otp_challenges row
          breaker,      \* whether the provider's row of sms_provider_breakers is active
          suppressed,   \* whether an opted_out suppression of the destination is active
          recorded,     \* the texts in sms_inbound_control_events
          day,
          carrier,      \* what the provider did with each message, and the events it posts
          said,         \* the words the recipient texted, in order
          heard,        \* delivery events answered 200 whose message was found
          inOrder,      \* texts have first arrived in the order they were sent
          mishaps

rows == <<reservation, challenge, breaker, suppressed, recorded>>
outside == <<day, carrier, said>>
vars == <<request, rows, outside, heard, inOrder, mishaps>>

Days == 1..MaxDay
Words == {"stop", "start"}
Unbilled == {"provider_rejected", "transient_preacceptance", "misconfigured"}
Billed == {"accepted", "ambiguous_outcome"}
Final == {"delivered", "undelivered", "failed", "rejected"}
Event == [status : {"sent", "delivered", "undelivered"}, at : 1..2]

Idle == [pc |-> "idle", outcome |-> "none", status |-> "none"]
NoReservation == [day |-> 0, outcome |-> "none", released |-> FALSE]
NoChallenge == [requested |-> FALSE, bound |-> FALSE, status |-> "none", event |-> 0, at |-> 0]

Places == {"idle", "clear", "reserved", "issued", "requested", "awaiting", "answered", "settling",
           "done"}
Outcomes == Billed \cup Unbilled \cup {"none"}

RequestTypes == request \in [Sends -> [pc : Places, outcome : Outcomes,
                                       status : {"none", "queued", "sent"}]]
ReservationTypes ==
  /\ reservation \in [Sends -> [day : 0..MaxDay, outcome : Outcomes, released : BOOLEAN]]
  /\ \A s \in Sends : reservation[s].released <=> reservation[s].outcome \in Unbilled
ChallengeTypes ==
  challenge \in [Sends -> [requested : BOOLEAN, bound : BOOLEAN,
                           status : Final \cup {"none", "queued", "sent"},
                           event : 0..2, at : 0..2]]
CarrierTypes ==
  /\ carrier \in [Sends -> [took : {"nothing", "accepted", "refused"}, events : Seq(Event),
                            misreported : BOOLEAN]]
  /\ \A s \in Sends : Len(carrier[s].events) <= 2
TextTypes ==
  /\ suppressed \in BOOLEAN /\ inOrder \in BOOLEAN
  /\ said \in Seq(Words) /\ Len(said) <= MaxTexts
  /\ recorded \subseteq 1..Len(said)
OtherTypes ==
  /\ heard \in [Sends -> SUBSET (1..2)]
  /\ breaker \in BOOLEAN
  /\ day \in Days
  /\ mishaps \in 0..MaxMishaps
TypeOK ==
  RequestTypes /\ ReservationTypes /\ ChallengeTypes /\ CarrierTypes /\ TextTypes /\ OtherTypes

Init ==
  /\ request = [s \in Sends |-> Idle]
  /\ reservation = [s \in Sends |-> NoReservation]
  /\ challenge = [s \in Sends |-> NoChallenge]
  /\ breaker = FALSE /\ suppressed = FALSE /\ recorded = {}
  /\ day = 1
  /\ carrier = [s \in Sends |-> [took |-> "nothing", events |-> <<>>, misreported |-> FALSE]]
  /\ said = <<>>
  /\ heard = [s \in Sends |-> {}]
  /\ inOrder = TRUE
  /\ mishaps = 0

Mishap == mishaps < MaxMishaps /\ mishaps' = mishaps + 1
Smooth == UNCHANGED mishaps

At(s, pc) == request[s].pc = pc
Goes(s, pc) == request' = [request EXCEPT ![s].pc = pc]
Ends(s, pc, outcome) == request' = [request EXCEPT ![s].pc = pc, ![s].outcome = outcome]

-----------------------------------------------------------------------------
(* The request. *)

(* An unreadable suppression counts as one. *)
ChecksSuppression(s) ==
  /\ At(s, "idle")
  /\ \/ Goes(s, IF suppressed THEN "done" ELSE "clear") /\ Smooth
     \/ Goes(s, "done") /\ Mishap
  /\ UNCHANGED <<rows, outside, heard, inOrder>>

(* A rate limit, the line-type lookup. *)
IsTurnedAway(s) ==
  /\ At(s, "clear") /\ Goes(s, "done")
  /\ UNCHANGED <<rows, outside, heard, inOrder, mishaps>>

ReservedOn(d) == {s \in Sends : reservation[s].day = d /\ ~reservation[s].released}

AdmitsOneOver == ~breaker /\ Cardinality(ReservedOn(day)) <= Cap
Admits == ~breaker /\ Cardinality(ReservedOn(day)) + 1 <= Cap

(* A reply that is lost blocks the request and leaves the reservation.     *)
ReservesSpend(s) ==
  /\ At(s, "clear")
  /\ \/ ~Admits /\ Goes(s, "done") /\ UNCHANGED reservation /\ Smooth
     \/ /\ Admits /\ reservation' = [reservation EXCEPT ![s].day = day]
        /\ \/ Goes(s, "reserved") /\ Smooth
           \/ Goes(s, "done") /\ Mishap
  /\ UNCHANGED <<challenge, breaker, suppressed, recorded, outside, heard, inOrder>>

IssuesChallenge(s) ==
  /\ At(s, "reserved") /\ Goes(s, "issued") /\ Smooth
  /\ UNCHANGED <<rows, outside, heard, inOrder>>

RecordsRequested(s) ==
  /\ At(s, "issued") /\ Goes(s, "requested") /\ Smooth
  /\ challenge' = [challenge EXCEPT ![s].requested = TRUE]
  /\ UNCHANGED <<reservation, breaker, suppressed, recorded, outside, heard, inOrder>>

(* Either of the two calls fails, or commits and loses its reply.          *)
FailsBeforeSending(s) ==
  /\ At(s, "reserved") \/ At(s, "issued")
  /\ Ends(s, "settling", "misconfigured") /\ Mishap
  /\ \/ UNCHANGED challenge
     \/ At(s, "issued") /\ challenge' = [challenge EXCEPT ![s].requested = TRUE]
  /\ UNCHANGED <<reservation, breaker, suppressed, recorded, outside, heard, inOrder>>

(* The provider takes the message, refuses it, or is never reached.        *)
Dispatches(s) ==
  /\ At(s, "requested") /\ Goes(s, "awaiting") /\ Smooth
  /\ \E took \in {"accepted", "refused"} : carrier' = [carrier EXCEPT ![s].took = took]
  /\ UNCHANGED <<rows, day, said, heard, inOrder>>

(* What the adapter makes of the provider's answer.  A timeout or a        *)
(* malformed answer is ambiguous; a 5xx is taken for a message that was    *)
(* not accepted, which the provider does not promise.                      *)
HearsProvider(s) ==
  /\ At(s, "awaiting")
  /\ \/ /\ carrier[s].took = "accepted" /\ Smooth
        /\ \E status \in {"queued", "sent"} :
             request' = [request EXCEPT ![s] = [pc |-> "answered", outcome |-> "accepted",
                                                status |-> status]]
        /\ UNCHANGED carrier
     \/ /\ carrier[s].took = "refused" /\ Smooth
        /\ \E outcome \in Unbilled : Ends(s, "answered", outcome)
        /\ UNCHANGED carrier
     \/ Ends(s, "answered", "ambiguous_outcome") /\ Mishap /\ UNCHANGED carrier
     \/ /\ carrier[s].took = "accepted" /\ Mishap
        /\ Ends(s, "answered", "transient_preacceptance")
        /\ carrier' = [carrier EXCEPT ![s].misreported = TRUE]
  /\ UNCHANGED <<rows, day, said, heard, inOrder>>

(* The challenge row once the metadata call has committed.                 *)
WithOutcome(c, r) ==
  CASE r.outcome = "accepted" ->
         [c EXCEPT !.bound = TRUE, !.status = IF c.status = "none" THEN r.status ELSE c.status]
    [] r.outcome = "ambiguous_outcome" -> c
    [] r.outcome = "provider_rejected" -> [c EXCEPT !.status = "rejected"]
    [] OTHER -> [c EXCEPT !.status = "failed"]

(* A failed or lost metadata call makes any answer ambiguous.              *)
KeptAnyway(outcome) == outcome
AfterLostRecord(outcome) == "ambiguous_outcome"

RecordsOutcome(s) ==
  /\ At(s, "answered")
  /\ \/ /\ challenge' = [challenge EXCEPT ![s] = WithOutcome(challenge[s], request[s])]
        /\ Goes(s, "settling") /\ Smooth
     \/ /\ \/ UNCHANGED challenge
           \/ challenge' = [challenge EXCEPT ![s] = WithOutcome(challenge[s], request[s])]
        /\ Ends(s, "settling", AfterLostRecord(request[s].outcome)) /\ Mishap
  /\ UNCHANGED <<reservation, breaker, suppressed, recorded, outside, heard, inOrder>>

(* Finalized when the message may have been accepted, released when not.   *)
Settled(r, outcome) == [r EXCEPT !.outcome = outcome, !.released = outcome \in Unbilled]

Settles(s) ==
  /\ At(s, "settling") /\ Goes(s, "done")
  /\ \/ reservation' = [reservation EXCEPT ![s] = Settled(reservation[s], request[s].outcome)] /\ Smooth
     \/ UNCHANGED reservation /\ Mishap
  /\ UNCHANGED <<challenge, breaker, suppressed, recorded, outside, heard, inOrder>>

Dies(s) ==
  /\ request[s].pc \notin {"idle", "done"} /\ Ends(s, "done", "none") /\ Mishap
  /\ UNCHANGED <<rows, outside, heard, inOrder>>

-----------------------------------------------------------------------------
(* The provider and the recipient. *)

Reports == UNION {{<<s, k>> : k \in DOMAIN carrier[s].events} : s \in Sends}

(* A message is sent, then delivered or not; both events may bear the same *)
(* instant, and the first may be missing.                                  *)
ProviderReports(s) ==
  LET events == carrier[s].events
      sofar == Len(events)
      latest == IF sofar = 0 THEN 0 ELSE events[sofar].at
  IN  /\ carrier[s].took = "accepted" /\ Cardinality(Reports) < MaxReports
      /\ sofar = 0 \/ (sofar = 1 /\ events[1].status = "sent")
      /\ \E e \in Event :
           /\ sofar = 1 => e.status # "sent"
           /\ e.at \in {latest, latest + 1}
           /\ carrier' = [carrier EXCEPT ![s].events = Append(events, e)]
      /\ UNCHANGED <<request, rows, day, said, heard, inOrder, mishaps>>

Texts(word) ==
  /\ Len(said) < MaxTexts /\ said' = Append(said, word)
  /\ UNCHANGED <<request, rows, day, carrier, heard, inOrder, mishaps>>

NewDay ==
  /\ day < MaxDay /\ day' = day + 1
  /\ UNCHANGED <<request, rows, carrier, said, heard, inOrder, mishaps>>

-----------------------------------------------------------------------------
(* The webhook. *)

(* Whether a delivery event changes the row it was found for.              *)
Replays(c, k) == c.event = k
Older(c, e) == c.at # 0 /\ e.at <= c.at
FollowsIfDelivered(old, new) ==
  old \in {"none", "queued"} \/ old = new \/ (old = "sent" /\ new = "delivered")
Follows(old, new) ==
  \/ old \in {"none", "queued"} \/ old = new
  \/ old = "sent" /\ new \in {"delivered", "undelivered", "failed"}
AppliesAny(c, k, e) == ~Replays(c, k)
Applies(c, k, e) == ~Replays(c, k) /\ ~Older(c, e) /\ Follows(c.status, e.status)

(* An event about a message that no row is bound to is answered 200 and    *)
(* changes nothing.                                                        *)
RecordsDelivery(s, k) ==
  LET c == challenge[s]  e == carrier[s].events[k]
  IN  /\ c.bound
      /\ heard' = [heard EXCEPT ![s] = @ \cup {k}]
      /\ IF Applies(c, k, e)
           THEN challenge' = [challenge EXCEPT ![s].status = e.status, ![s].event = k, ![s].at = e.at]
           ELSE UNCHANGED challenge
      /\ UNCHANGED <<request, reservation, breaker, suppressed, recorded, outside, inOrder, mishaps>>

(* A text is recorded once; what it says is applied when it arrives.       *)
EveryTime(i) == TRUE
IsNew(i) == i \notin recorded
RecordsControl(i) ==
  /\ IF IsNew(i)
       THEN /\ recorded' = recorded \cup {i}
            /\ suppressed' = (said[i] = "stop")
       ELSE UNCHANGED <<recorded, suppressed>>
  /\ inOrder' = (inOrder /\ (i \in recorded \/ \A j \in recorded : j < i))
  /\ UNCHANGED <<request, reservation, challenge, breaker, outside, heard, mishaps>>

TripsBreaker ==
  /\ breaker' = TRUE /\ Mishap
  /\ UNCHANGED <<request, reservation, challenge, suppressed, recorded, outside, heard, inOrder>>

-----------------------------------------------------------------------------
Next ==
  \/ \E s \in Sends :
       \/ ChecksSuppression(s) \/ IsTurnedAway(s) \/ ReservesSpend(s) \/ IssuesChallenge(s)
       \/ RecordsRequested(s) \/ FailsBeforeSending(s) \/ Dispatches(s) \/ HearsProvider(s)
       \/ RecordsOutcome(s) \/ Settles(s) \/ Dies(s) \/ ProviderReports(s)
       \/ \E k \in DOMAIN carrier[s].events : RecordsDelivery(s, k)
  \/ \E word \in Words : Texts(word)
  \/ \E i \in DOMAIN said : RecordsControl(i)
  \/ TripsBreaker
  \/ NewDay

Spec == Init /\ [][Next]_vars

-----------------------------------------------------------------------------
(* Properties. *)

(* Of the messages whose money was reserved on a day, the provider took no *)
(* more than the cap has room for, whatever calls failed, lost their       *)
(* replies or were never made, except those it took while answering that   *)
(* it had not: a reservation is given back only where nothing was sent     *)
(* (smsDeliveryOrchestrator's finalize or release).                        *)
TakenOn(d) == {s \in Sends : reservation[s].day = d /\ carrier[s].took = "accepted"}
SentWithinCap ==
  \A d \in Days : Cardinality({s \in TakenOn(d) : ~carrier[s].misreported}) <= Cap

(* A request that answers "accepted" has a message the provider took, a    *)
(* row its webhooks will find, and money still reserved for it: a lost     *)
(* metadata call never lets the candidate be told more than is recorded.   *)
AcceptedIsTraceable ==
  \A s \in Sends :
    request[s].pc \in {"settling", "done"} /\ request[s].outcome = "accepted" =>
      /\ carrier[s].took = "accepted" /\ challenge[s].bound
      /\ reservation[s].day # 0 /\ ~reservation[s].released

(* Whatever the order and the repetition of webhooks and of the request's  *)
(* own metadata calls, a recorded delivery status never goes back, and a   *)
(* final one never changes (record_otp_sms_delivery_event).                *)
Rank(status) ==
  CASE status = "none" -> 0 [] status = "queued" -> 1 [] status = "sent" -> 2 [] OTHER -> 3
StatusNeverRegresses ==
  [][\A s \in Sends :
       LET old == challenge[s].status  new == challenge[s].status'
       IN  Rank(new) > Rank(old) \/ new = old]_vars

(* Once the newest event of a message has been handled with its row found, *)
(* in whatever order its events came, the row shows that event's status,   *)
(* unless the two events bear the same instant.                            *)
NewestEventShows ==
  \A s \in Sends :
    LET events == carrier[s].events
    IN  Len(events) \in heard[s] /\ (Len(events) = 2 => events[1].at # events[2].at) =>
          challenge[s].status = events[Len(events)].status

(* As long as texts first arrive in the order they were sent, however      *)
(* often each is redelivered, the destination is suppressed exactly when   *)
(* the latest recorded one says STOP (the unique provider_event_id of      *)
(* record_sms_inbound_control_event).                                      *)
RedeliveredTextsAreInert ==
  inOrder => \A i \in recorded :
    (\A j \in recorded : j <= i) => (suppressed <=> said[i] = "stop")

=============================================================================
