---------------------- MODULE TranscriptReconciliation ----------------------
(***************************************************************************)
(* The final transcript of one interview.  The video vendor delivers it in *)
(* application.transcription_ready webhooks, at least once, possibly in    *)
(* several versions and to several server processes at a time.  Each       *)
(* handler takes a leased, versioned claim in the database, scores the     *)
(* text, stores it, and finalizes: one transaction that checks the claim   *)
(* and replaces the interview's transcript, scores and evidence.  What     *)
(* follows is deferred: the completion stamp billing reads, the analysis   *)
(* (under a second claim, bound to the transcript's version) and the       *)
(* candidate's unanswered questions.  Two writers stand outside the        *)
(* claims: the live-utterance counter and the perception handler, which    *)
(* refreshes the analysis.                                                 *)
(*                                                                         *)
(* A claim token is unique and is issued with a new version, so the        *)
(* version stands for both.  A transcript is a model value whose snapshot  *)
(* strength is Known (substantive flag, substantive answers, utterances:   *)
(* the rank of those three) and, where they tie, Words.                    *)
(***************************************************************************)
EXTENDS Integers, FiniteSets

CONSTANTS Workers,       \* webhook handlers that can run at one time
          Transcripts,   \* the texts the vendor may deliver
          None,          \* SQL null
          Known, Words,  \* the strength of each text's evidence snapshot
          Substantive,   \* the texts with a substantive answer
          Faults,        \* the kinds of failure a run admits
          MaxVersion,    \* bound on transcript claims granted
          MaxMishaps,    \* bound on failures of any kind
          MaxEvidence,   \* bound on the live-utterance evidence
          PerceptionEvent \* whether a perception_analysis event arrives

FaultKinds == {"lost_claim", "prepare", "finalize", "lost_finalize", "lost_release",
               "stamp", "analysis", "slow", "crash"}

ASSUME TextAssumption ==
  /\ None \notin Transcripts
  /\ Known \in [Transcripts -> Nat \ {0}] /\ Words \in [Transcripts -> Nat]
  /\ Substantive \subseteq Transcripts
ASSUME BoundAssumption ==
  /\ MaxVersion \in Nat /\ MaxMishaps \in Nat /\ MaxEvidence \in Nat
  /\ Faults \subseteq FaultKinds /\ PerceptionEvent \in BOOLEAN

VARIABLES claim,       \* the interview's row of ..._reconciliation_claims
          interview,   \* the interviews row
          analysing,   \* the analysis columns of the claim row
          worker,      \* what each webhook handler is doing
          job,         \* the deferred analysis of each finalized version
          asks,        \* versions whose deferred question write is pending
          perception,  \* the perception handler's deferred refresh
          answered,    \* texts for which the vendor has got a 200
          mishaps      \* failures so far

vars == <<claim, interview, analysing, worker, job, asks, perception, answered, mishaps>>

Versions == 1..MaxVersion
TextOrNone == Transcripts \cup {None}
Idle == [pc |-> "idle", text |-> None, token |-> 0]
NoJob == [pc |-> "none", text |-> None, token |-> 0]

TypeOK ==
  /\ claim \in [state : {"available", "claimed", "completed"}, version : 0..MaxVersion,
                token : 0..MaxVersion, live : BOOLEAN, pending : TextOrNone,
                authority : TextOrNone]
  /\ interview \in [transcript : TextOrNone, evidence : Nat, stamped : BOOLEAN,
                    status : {"ending_requested", "ReadyForAnalysis", "Incomplete"},
                    failed : BOOLEAN, perceived : BOOLEAN, questions : TextOrNone,
                    analysis : [text : TextOrNone, perceived : BOOLEAN]]
  /\ analysing \in [state : {"available", "claimed", "completed"}, version : 0..MaxVersion,
                    token : 0..MaxVersion, live : BOOLEAN, expected : 0..MaxVersion,
                    done : 0..MaxVersion]
  /\ worker \in [Workers -> [pc : {"idle", "preparing", "finalizing", "releasing", "stamping"},
                             text : TextOrNone, token : 0..MaxVersion]]
  /\ job \in [Versions -> [pc : {"none", "queued", "reading", "generating", "releasing", "done"},
                           text : TextOrNone, token : 0..MaxVersion]]
  /\ asks \subseteq Versions
  /\ perception \in [pc : {"none", "queued", "generating", "done"}, text : TextOrNone]
  /\ answered \subseteq Transcripts
  /\ mishaps \in 0..MaxMishaps

Init ==
  /\ claim = [state |-> "available", version |-> 0, token |-> 0, live |-> FALSE,
              pending |-> None, authority |-> None]
  /\ \E failed \in BOOLEAN :
       interview = [transcript |-> None, evidence |-> 0, stamped |-> FALSE,
                    status |-> IF failed THEN "Incomplete" ELSE "ending_requested",
                    failed |-> failed, perceived |-> FALSE, questions |-> None,
                    analysis |-> [text |-> None, perceived |-> FALSE]]
  /\ analysing = [state |-> "available", version |-> 0, token |-> 0, live |-> FALSE,
                  expected |-> 0, done |-> 0]
  /\ worker = [w \in Workers |-> Idle]
  /\ job = [v \in Versions |-> NoJob]
  /\ asks = {}
  /\ perception = [pc |-> "none", text |-> None]
  /\ answered = {}
  /\ mishaps = 0

(* A failure of the given kind happens in this step. *)
Mishap(kind) == kind \in Faults /\ mishaps < MaxMishaps /\ mishaps' = mishaps + 1

-----------------------------------------------------------------------------
(* The strength order and the two refusals built on it. *)

AtLeastAsStrong(a, b) == Known[a] > Known[b] \/ (Known[a] = Known[b] /\ Words[a] >= Words[b])

IgnoresLiveEvidence(t) == FALSE
(* What the interview row already shows of the candidate is not weaker. *)
EvidenceOutweighs(t) == interview.evidence > 0 /\ interview.evidence >= Known[t]

Superseded(t) ==
  \/ claim.authority # None /\ AtLeastAsStrong(claim.authority, t)
  \/ EvidenceOutweighs(t)

(* A claim given up: the row keeps its version and falls back to what it   *)
(* last completed.                                                         *)
GivenUp(c) == [c EXCEPT !.state = IF c.authority = None THEN "available" ELSE "completed",
                        !.token = 0, !.live = FALSE, !.pending = None]

HeldForever == claim.state = "claimed"
Busy == claim.state = "claimed" /\ claim.live
(* An expired claim is recovered before anything is decided, and stays so  *)
(* when the delivery is then refused.                                      *)
Recovered == IF claim.state = "claimed" THEN GivenUp(claim) ELSE claim

ClaimOutcome(t) ==
  IF Busy THEN "busy"
  ELSE IF claim.authority = t THEN "already_reconciled"
  ELSE IF Superseded(t) THEN "superseded"
  ELSE "claimed"

AcknowledgesBusy(outcome) == outcome \in {"already_reconciled", "superseded", "busy"}
(* The refusals the handler answers with 200; busy is a 503. *)
Acknowledges(outcome) == outcome \in {"already_reconciled", "superseded"}

-----------------------------------------------------------------------------
(* The webhook handler. *)

RefuseClaim(w, t) ==
  /\ worker[w] = Idle
  /\ ClaimOutcome(t) # "claimed"
  /\ claim' = IF Busy THEN claim ELSE Recovered
  /\ answered' = IF Acknowledges(ClaimOutcome(t)) THEN answered \cup {t} ELSE answered
  /\ UNCHANGED <<interview, analysing, worker, job, asks, perception, mishaps>>

Grant(t) ==
  /\ ClaimOutcome(t) = "claimed"
  /\ claim.version < MaxVersion
  /\ claim' = [Recovered EXCEPT !.state = "claimed", !.version = @ + 1,
                                !.token = claim.version + 1, !.live = TRUE, !.pending = t]
  /\ UNCHANGED <<interview, analysing, job, asks, perception, answered>>

GrantClaim(w, t) ==
  /\ worker[w] = Idle
  /\ Grant(t)
  /\ worker' = [worker EXCEPT ![w] =
                  [pc |-> "preparing", text |-> t, token |-> claim.version + 1]]
  /\ UNCHANGED mishaps

(* The claim commits and its reply is lost: a 503, and nobody knows the token. *)
LoseClaimReply(w, t) ==
  /\ worker[w] = Idle
  /\ Mishap("lost_claim")
  /\ Grant(t)
  /\ UNCHANGED worker

MoveTo(w, pc) == worker' = [worker EXCEPT ![w].pc = pc]

(* The text is scored and stored under its hash; either can fail. *)
Prepare(w) ==
  /\ worker[w].pc = "preparing"
  /\ MoveTo(w, "finalizing")
  /\ UNCHANGED <<claim, interview, analysing, job, asks, perception, answered, mishaps>>

PrepareFails(w) ==
  /\ worker[w].pc = "preparing"
  /\ Mishap("prepare")
  /\ MoveTo(w, "releasing")
  /\ UNCHANGED <<claim, interview, analysing, job, asks, perception, answered>>

HoldsClaim(w) ==
  /\ claim.state = "claimed" /\ claim.live
  /\ claim.token = worker[w].token /\ claim.pending = worker[w].text

(* The finalizing transaction. *)
CommitTranscript(w) ==
  LET t == worker[w].text IN
  /\ worker[w].pc = "finalizing"
  /\ HoldsClaim(w)
  /\ ~EvidenceOutweighs(t)
  /\ claim' = [claim EXCEPT !.state = "completed", !.live = FALSE, !.pending = None,
                            !.authority = t]
  /\ interview' = [interview EXCEPT
                     !.transcript = t, !.evidence = Known[t],
                     !.status = IF interview.failed THEN @
                                ELSE IF t \in Substantive THEN "ReadyForAnalysis"
                                ELSE "Incomplete"]
  /\ UNCHANGED <<analysing, job, asks, perception, answered>>

Finalize(w) == CommitTranscript(w) /\ MoveTo(w, "stamping") /\ UNCHANGED mishaps

LoseFinalizeReply(w) == CommitTranscript(w) /\ MoveTo(w, "releasing") /\ Mishap("lost_finalize")

(* Live utterances have overtaken the text since it was claimed. *)
FinalizeSuperseded(w) ==
  /\ worker[w].pc = "finalizing"
  /\ HoldsClaim(w)
  /\ EvidenceOutweighs(worker[w].text)
  /\ claim' = GivenUp(claim)
  /\ answered' = answered \cup {worker[w].text}
  /\ worker' = [worker EXCEPT ![w] = Idle]
  /\ UNCHANGED <<interview, analysing, job, asks, perception, mishaps>>

(* final_transcript_claim_mismatch is raised, or the call fails outright. *)
FinalizeFails(w) ==
  /\ worker[w].pc = "finalizing"
  /\ \/ ~HoldsClaim(w) /\ UNCHANGED mishaps
     \/ HoldsClaim(w) /\ Mishap("finalize")
  /\ MoveTo(w, "releasing")
  /\ UNCHANGED <<claim, interview, analysing, job, asks, perception, answered>>

(* Best effort: whatever the release finds, the vendor gets a 503. *)
Release(w) ==
  /\ worker[w].pc = "releasing"
  /\ claim' = IF claim.state = "claimed" /\ claim.token = worker[w].token
              THEN GivenUp(claim) ELSE claim
  /\ worker' = [worker EXCEPT ![w] = Idle]
  /\ UNCHANGED <<interview, analysing, job, asks, perception, answered, mishaps>>

(* Not counted as a mishap: it only follows one. *)
ReleaseLost(w) ==
  /\ worker[w].pc = "releasing"
  /\ "lost_release" \in Faults
  /\ worker' = [worker EXCEPT ![w] = Idle]
  /\ UNCHANGED <<claim, interview, analysing, job, asks, perception, answered, mishaps>>

(* After a finalization the handler saw: stamp the completion, queue the   *)
(* analysis and the questions in memory, answer 200.                       *)
Conclude(w) ==
  LET t == worker[w].text
      v == worker[w].token IN
  /\ worker[w].pc = "stamping"
  /\ job' = IF t \in Substantive
            THEN [job EXCEPT ![v] = [pc |-> "queued", text |-> t, token |-> 0]]
            ELSE [job EXCEPT ![v].text = t]
  /\ asks' = asks \cup {v}
  /\ answered' = answered \cup {t}
  /\ worker' = [worker EXCEPT ![w] = Idle]
  /\ UNCHANGED <<claim, analysing, perception>>

StampAndAnswer(w) ==
  Conclude(w) /\ interview' = [interview EXCEPT !.stamped = TRUE] /\ UNCHANGED mishaps

StampFails(w) == Conclude(w) /\ UNCHANGED interview /\ Mishap("stamp")

(* The process dies; the vendor gets no answer. *)
WorkerDies(w) ==
  /\ worker[w] # Idle
  /\ Mishap("crash")
  /\ worker' = [worker EXCEPT ![w] = Idle]
  /\ UNCHANGED <<claim, interview, analysing, job, asks, perception, answered>>

ClaimantRuns == \E w \in Workers : worker[w] # Idle /\ worker[w].token = claim.token

(* The lease runs out: on a claimant that is gone, or on one that is slow. *)
LeaseExpires ==
  /\ Busy
  /\ \/ ~ClaimantRuns /\ UNCHANGED mishaps
     \/ ClaimantRuns /\ Mishap("slow")
  /\ claim' = [claim EXCEPT !.live = FALSE]
  /\ UNCHANGED <<interview, analysing, worker, job, asks, perception, answered>>

-----------------------------------------------------------------------------
(* The deferred work of a finalized version. *)

AuthoritativeOnce(v) == claim.version >= v
(* The version is still the completed authority: neither a newer text nor  *)
(* a newer claim stands in the row.                                        *)
Authoritative(v) ==
  /\ claim.state = "completed" /\ claim.version = v
  /\ claim.authority = job[v].text

(* claim_interview_analysis_v2_if_authoritative. *)
MayAnalyse(v) ==
  /\ Authoritative(v)
  /\ interview.analysis.text = None \/ analysing.done # 0
  /\ analysing.state = "completed" =>
       interview.analysis.text # None /\ analysing.done < v
  /\ analysing.state = "claimed" =>
       analysing.expected < v \/ (analysing.expected = v /\ ~analysing.live)

ClaimAnalysis(v) ==
  /\ job[v].pc = "queued"
  /\ IF MayAnalyse(v)
     THEN /\ analysing' = [analysing EXCEPT !.state = "claimed", !.version = @ + 1,
                             !.token = analysing.version + 1, !.live = TRUE, !.expected = v]
          /\ job' = [job EXCEPT ![v].pc = "reading", ![v].token = analysing.version + 1]
     ELSE /\ job' = [job EXCEPT ![v].pc = "done"]
          /\ UNCHANGED analysing
  /\ UNCHANGED <<claim, interview, worker, asks, perception, answered, mishaps>>

(* The job reads the row it will analyse, and gives up when the transcript *)
(* is no longer its own.                                                   *)
ReadRow(v) ==
  /\ job[v].pc = "reading"
  /\ job' = [job EXCEPT ![v].pc = IF interview.transcript = job[v].text
                                  THEN "generating" ELSE "releasing"]
  /\ UNCHANGED <<claim, interview, analysing, worker, asks, perception, answered, mishaps>>

GenerationFails(v) ==
  /\ job[v].pc = "generating"
  /\ Mishap("analysis")
  /\ job' = [job EXCEPT ![v].pc = "releasing"]
  /\ UNCHANGED <<claim, interview, analysing, worker, asks, perception, answered>>

HoldsAnalysis(v) ==
  /\ analysing.state = "claimed" /\ analysing.live
  /\ analysing.token = job[v].token /\ analysing.expected = v

StoresWhatItGenerated(v) == TRUE
MayStore(v) == HoldsAnalysis(v) /\ Authoritative(v)

AnalysisGivenUp(done) ==
  [analysing EXCEPT !.state = IF done = 0 THEN "available" ELSE "completed",
                    !.token = 0, !.live = FALSE, !.expected = 0, !.done = done]

(* finalize_interview_analysis_v2_if_authoritative: stored, superseded or  *)
(* stale_claim.  What was generated may or may not have seen the           *)
(* perception data that is now in the row.                                 *)
StoreAnalysis(v) ==
  /\ job[v].pc = "generating"
  /\ job' = [job EXCEPT ![v].pc = "done"]
  /\ \/ /\ MayStore(v)
        /\ \E perceived \in {interview.perceived, FALSE} :
             interview' = [interview EXCEPT !.analysis =
                             [text |-> job[v].text, perceived |-> perceived]]
        /\ analysing' = AnalysisGivenUp(v)
     \/ /\ HoldsAnalysis(v) /\ ~Authoritative(v)
        /\ analysing' = AnalysisGivenUp(analysing.done)
        /\ UNCHANGED interview
     \/ /\ ~HoldsAnalysis(v)
        /\ UNCHANGED <<interview, analysing>>
  /\ UNCHANGED <<claim, worker, asks, perception, answered, mishaps>>

ReleaseAnalysis(v) ==
  /\ job[v].pc = "releasing"
  /\ job' = [job EXCEPT ![v].pc = "done"]
  /\ analysing' = IF analysing.state = "claimed" /\ analysing.token = job[v].token
                  THEN AnalysisGivenUp(IF interview.analysis.text = None THEN 0
                                       ELSE analysing.done)
                  ELSE analysing
  /\ UNCHANGED <<claim, interview, worker, asks, perception, answered, mishaps>>

AnalysisLeaseExpires ==
  /\ analysing.state = "claimed" /\ analysing.live
  /\ Mishap("slow")
  /\ analysing' = [analysing EXCEPT !.live = FALSE]
  /\ UNCHANGED <<claim, interview, worker, job, asks, perception, answered>>

(* persist_interview_unanswered_questions_if_authoritative. *)
PersistQuestions(v) ==
  /\ v \in asks
  /\ asks' = asks \ {v}
  /\ interview' = IF Authoritative(v) /\ interview.questions = None
                  THEN [interview EXCEPT !.questions = job[v].text] ELSE interview
  /\ UNCHANGED <<claim, analysing, worker, job, perception, answered, mishaps>>

(* A restart forgets what was deferred. *)
DeferredWorkDies(v) ==
  /\ v \in asks \/ job[v].pc \notin {"none", "done"}
  /\ Mishap("crash")
  /\ asks' = asks \ {v}
  /\ job' = [job EXCEPT ![v].pc = IF @ = "none" THEN @ ELSE "done"]
  /\ UNCHANGED <<claim, interview, analysing, worker, perception, answered>>

-----------------------------------------------------------------------------
(* The writers outside the claims. *)

(* record_interview_lifecycle_event counts an utterance of the candidate. *)
Utterance ==
  /\ \E n \in (interview.evidence + 1)..MaxEvidence :
       interview' = [interview EXCEPT !.evidence = n]
  /\ UNCHANGED <<claim, analysing, worker, job, asks, perception, answered, mishaps>>

(* A perception_analysis event stores its scores and, for an interview     *)
(* with a substantive transcript, queues a refresh of the analysis.        *)
PerceptionArrives ==
  /\ PerceptionEvent /\ perception.pc = "none"
  /\ interview' = [interview EXCEPT !.perceived = TRUE]
  /\ perception' = [perception EXCEPT !.pc =
                      IF interview.transcript \in Substantive THEN "queued" ELSE "done"]
  /\ UNCHANGED <<claim, analysing, worker, job, asks, answered, mishaps>>

(* The refresh reads the row: it goes on without an analysis, or with one  *)
(* that says it had no perception data.                                    *)
PerceptionReads ==
  /\ perception.pc = "queued"
  /\ perception' = IF interview.analysis.text = None \/ ~interview.analysis.perceived
                   THEN [pc |-> "generating", text |-> interview.transcript]
                   ELSE [pc |-> "done", text |-> None]
  /\ UNCHANGED <<claim, interview, analysing, worker, job, asks, answered, mishaps>>

(* ... and writes what it generated, whatever the row has become. *)
PerceptionWrites ==
  /\ perception.pc = "generating"
  /\ interview' = [interview EXCEPT !.analysis = [text |-> perception.text, perceived |-> TRUE]]
  /\ perception' = [pc |-> "done", text |-> None]
  /\ UNCHANGED <<claim, analysing, worker, job, asks, answered, mishaps>>

-----------------------------------------------------------------------------
Delivery(w, t) == RefuseClaim(w, t) \/ GrantClaim(w, t) \/ LoseClaimReply(w, t)

Handling(w) ==
  \/ Prepare(w) \/ PrepareFails(w)
  \/ Finalize(w) \/ LoseFinalizeReply(w) \/ FinalizeSuperseded(w) \/ FinalizeFails(w)
  \/ Release(w) \/ ReleaseLost(w)
  \/ StampAndAnswer(w) \/ StampFails(w)

Deferred(v) ==
  \/ ClaimAnalysis(v) \/ ReadRow(v) \/ GenerationFails(v) \/ StoreAnalysis(v)
  \/ ReleaseAnalysis(v) \/ PersistQuestions(v)

Next ==
  \/ \E w \in Workers : \/ \E t \in Transcripts : Delivery(w, t)
                        \/ Handling(w)
                        \/ WorkerDies(w)
  \/ LeaseExpires
  \/ \E v \in Versions : Deferred(v) \/ DeferredWorkDies(v)
  \/ AnalysisLeaseExpires
  \/ Utterance
  \/ PerceptionArrives \/ PerceptionReads \/ PerceptionWrites

Spec == Init /\ [][Next]_vars

(* The event loop runs every handler on, the clock runs, and the vendor    *)
(* redelivers a text until it gets a 200.                                  *)
Redelivery(t) == t \notin answered /\ \E w \in Workers : Delivery(w, t)

Fairness ==
  /\ \A w \in Workers : WF_vars(Handling(w))
  /\ WF_vars(LeaseExpires)
  /\ \A t \in Transcripts : SF_vars(Redelivery(t))

FairSpec == Spec /\ Fairness

-----------------------------------------------------------------------------
(* Neither the evidence an interview shows nor its authoritative           *)
(* transcript is ever replaced by weaker, whatever the interleaving of     *)
(* claims, expired leases, late finalizers and live utterances.            *)
NothingWeakens ==
  [][/\ interview'.evidence >= interview.evidence
     /\ claim'.authority # claim.authority /\ claim.authority # None =>
          ~AtLeastAsStrong(claim.authority, claim'.authority)]_vars

(* A text the vendor was told it need not send again is covered: the       *)
(* interview shows at least the evidence that text would have brought.     *)
AcknowledgedIsCovered == \A t \in answered : interview.evidence >= Known[t]

(* Deferred work of a version whose text is no longer the authority writes *)
(* nothing: questions and versioned analyses come from the authority.      *)
DownstreamFollowsAuthority ==
  [][/\ interview'.questions # interview.questions => interview'.questions = claim.authority
     /\ analysing'.done > analysing.done => interview'.analysis.text = claim.authority]_vars

(* Leases expire and failed deliveries are sent again, so every text is    *)
(* answered with a 200 in the end.                                         *)
EveryTextIsAnswered == \A t \in Transcripts : <>(t \in answered)
=============================================================================
