------------------ MODULE TranscriptReconciliation_proofs ------------------
(***************************************************************************)
(* Proofs about TranscriptReconciliation, for any sets of handlers and of  *)
(* texts and any bounds.  A lease that runs out on a slow handler lets two *)
(* of them finalize at a time; what still orders them is that a token is   *)
(* issued once, that a claim is granted for a text the authority does not  *)
(* outweigh, and that the finalizing transaction looks at the evidence of  *)
(* the row it replaces.                                                    *)
(***************************************************************************)
EXTENDS TranscriptReconciliation, TLAPS

-----------------------------------------------------------------------------
(* The inductive invariant.                                                *)

Working(w) == worker[w].pc # "idle"

\* A handler at work has a text and the token of a claim that was granted.
WorkersSound ==
    \A w \in Workers : Working(w) =>
        worker[w].text \in Transcripts /\ worker[w].token \in 1..claim.version

\* No two handlers hold the same token.
TokensUnique ==
    \A w, u \in Workers :
        Working(w) /\ Working(u) /\ worker[w].token = worker[u].token => w = u

\* The deferred analysis of a version is queued by its handler's last step.
JobsSound ==
    \A v \in Versions : job[v].pc # "none" =>
        v <= claim.version /\ \A w \in Workers : Working(w) => worker[w].token # v

\* An analysis is claimed for the newest version only, once.
AnalysisBound ==
    /\ analysing.version <= claim.version
    /\ \A v \in Versions :
           v = claim.version /\ job[v].pc \in {"none", "queued"} => analysing.version < v

\* A pending text is one that the authority does not outweigh.
ClaimSound ==
    claim.state = "claimed" =>
        /\ claim.pending \in Transcripts
        /\ claim.authority # None => ~AtLeastAsStrong(claim.authority, claim.pending)

\* The row shows the evidence of the authority, and of every text that was
\* finalized and is about to be acknowledged.
Covered ==
    /\ claim.authority # None => interview.evidence >= Known[claim.authority]
    /\ \A w \in Workers : worker[w].pc = "stamping" => interview.evidence >= Known[worker[w].text]
    /\ AcknowledgedIsCovered

Tokens == WorkersSound /\ TokensUnique /\ JobsSound

IInv == TypeOK /\ Tokens /\ AnalysisBound /\ ClaimSound /\ Covered

-----------------------------------------------------------------------------
(* Types, one record at a time.                                            *)

ClaimRows ==
    [state : {"available", "claimed", "completed"}, version : 0..MaxVersion,
     token : 0..MaxVersion, live : BOOLEAN, pending : TextOrNone, authority : TextOrNone]

InterviewRows ==
    [transcript : TextOrNone, evidence : Nat, stamped : BOOLEAN,
     status : {"ending_requested", "ReadyForAnalysis", "Incomplete"},
     failed : BOOLEAN, perceived : BOOLEAN, questions : TextOrNone,
     analysis : [text : TextOrNone, perceived : BOOLEAN]]

AnalysisRows ==
    [state : {"available", "claimed", "completed"}, version : 0..MaxVersion,
     token : 0..MaxVersion, live : BOOLEAN, expected : 0..MaxVersion, done : 0..MaxVersion]

Handlers == [pc : {"idle", "preparing", "finalizing", "releasing", "stamping"},
             text : TextOrNone, token : 0..MaxVersion]

Jobs == [pc : {"none", "queued", "reading", "generating", "releasing", "done"},
         text : TextOrNone, token : 0..MaxVersion]

Perceptions == [pc : {"none", "queued", "generating", "done"}, text : TextOrNone]

LEMMA TypeParts ==
    TypeOK <=> /\ claim \in ClaimRows /\ interview \in InterviewRows
               /\ analysing \in AnalysisRows /\ worker \in [Workers -> Handlers]
               /\ job \in [Versions -> Jobs] /\ asks \subseteq Versions
               /\ perception \in Perceptions
               /\ answered \subseteq Transcripts /\ mishaps \in 0..MaxMishaps
BY DEF TypeOK, ClaimRows, InterviewRows, AnalysisRows, Handlers, Jobs, Perceptions

LEMMA ClaimFields ==
    ASSUME NEW c \in ClaimRows
    PROVE  /\ c.state \in {"available", "claimed", "completed"}
           /\ c.version \in 0..MaxVersion /\ c.token \in 0..MaxVersion
           /\ c.live \in BOOLEAN /\ c.pending \in TextOrNone /\ c.authority \in TextOrNone
BY DEF ClaimRows

LEMMA GivenUpType ==
    ASSUME NEW c \in ClaimRows
    PROVE  /\ GivenUp(c) \in ClaimRows
           /\ GivenUp(c).version = c.version /\ GivenUp(c).authority = c.authority
           /\ GivenUp(c).state # "claimed"
<1> DEFINE s == IF c.authority = None THEN "available" ELSE "completed"
<1>1. s \in {"available", "completed"} /\ None \in TextOrNone /\ 0 \in 0..MaxVersion
  BY BoundAssumption DEF TextOrNone
<1>2. GivenUp(c) = [c EXCEPT !.state = s, !.token = 0, !.live = FALSE, !.pending = None]
  BY DEF GivenUp
<1> HIDE DEF s
<1>3. GivenUp(c) \in ClaimRows
  BY <1>1, <1>2 DEF ClaimRows
<1>4. GivenUp(c).version = c.version /\ GivenUp(c).authority = c.authority /\ GivenUp(c).state = s
  BY <1>2 DEF ClaimRows
<1> QED
  BY <1>1, <1>3, <1>4

LEMMA RecoveredType ==
    ASSUME claim \in ClaimRows
    PROVE  /\ Recovered \in ClaimRows
           /\ Recovered.version = claim.version /\ Recovered.authority = claim.authority
           /\ Recovered.state # "claimed"
BY GivenUpType DEF Recovered

LEMMA GrantEffect ==
    ASSUME claim \in ClaimRows, NEW t \in Transcripts, Grant(t)
    PROVE  /\ claim' \in ClaimRows
           /\ claim'.version = claim.version + 1 /\ claim'.authority = claim.authority
           /\ claim'.pending = t
<1> DEFINE n == claim.version + 1
<1>1. Recovered \in ClaimRows /\ Recovered.version = claim.version /\ Recovered.authority = claim.authority
  BY RecoveredType
<1>2. claim.version \in Nat /\ claim.version < MaxVersion /\ n \in 0..MaxVersion
  BY BoundAssumption, ClaimFields DEF Grant
<1>3. claim' = [Recovered EXCEPT !.state = "claimed", !.version = @ + 1,
                                 !.token = n, !.live = TRUE, !.pending = t]
  BY DEF Grant
<1>4. t \in TextOrNone
  BY DEF TextOrNone
<1> HIDE DEF n
<1> QED
  BY <1>1, <1>2, <1>3, <1>4 DEF ClaimRows, n

LEMMA MoveToEffect ==
    ASSUME worker \in [Workers -> Handlers], NEW w \in Workers,
           NEW s \in {"idle", "preparing", "finalizing", "releasing", "stamping"}, MoveTo(w, s)
    PROVE  /\ worker' \in [Workers -> Handlers]
           /\ worker'[w].pc = s /\ worker'[w].text = worker[w].text
           /\ worker'[w].token = worker[w].token
           /\ \A u \in Workers \ {w} : worker'[u] = worker[u]
BY DEF MoveTo, Handlers

LEMMA IdleEffect ==
    ASSUME worker \in [Workers -> Handlers], NEW w \in Workers,
           worker' = [worker EXCEPT ![w] = Idle]
    PROVE  /\ worker' \in [Workers -> Handlers]
           /\ worker'[w].pc = "idle"
           /\ \A u \in Workers \ {w} : worker'[u] = worker[u]
BY BoundAssumption DEF Handlers, Idle, TextOrNone

-----------------------------------------------------------------------------
(* Steps that neither grant nor commit, and queue or claim no analysis.    *)

\* A handler goes on with its claim, or ends; only a commit brings it to the
\* stamping.
Keeps(w) ==
    \/ worker'[w].pc = "idle"
    \/ Working(w) /\ worker'[w].text = worker[w].text /\ worker'[w].token = worker[w].token

Stays(w) == Keeps(w) /\ (worker'[w].pc = "stamping" => worker[w].pc = "stamping")

ClaimCalm ==
    /\ claim'.version = claim.version /\ claim'.authority = claim.authority
    /\ claim'.state = "claimed" => claim.state = "claimed" /\ claim'.pending = claim.pending

JobStays(v) ==
    /\ job[v].pc = "none" => job'[v].pc = "none"
    /\ job'[v].pc \in {"none", "queued"} => job[v].pc \in {"none", "queued"}

EvidenceGrows ==
    /\ interview'.evidence >= interview.evidence
    /\ \A t \in answered' \ answered : interview.evidence >= Known[t]

Calm ==
    /\ ClaimCalm /\ EvidenceGrows /\ analysing'.version = analysing.version
    /\ \A w \in Workers : Stays(w)
    /\ \A v \in Versions : JobStays(v)

LEMMA VersionIsNat == TypeOK => claim.version \in 0..MaxVersion /\ claim.version \in Nat
BY BoundAssumption, TypeParts, ClaimFields

LEMMA TokensKept ==
    ASSUME TypeOK, TypeOK', Tokens, claim'.version >= claim.version,
           \A w \in Workers : Keeps(w), \A v \in Versions : JobStays(v)
    PROVE  Tokens'
<1>0. claim.version \in Nat /\ claim'.version \in Nat
  BY BoundAssumption DEF TypeOK
<1> USE DEF Tokens, Keeps, JobStays, Working
<1>1. ASSUME NEW w \in Workers, worker'[w].pc # "idle"
      PROVE  worker'[w].text \in Transcripts /\ worker'[w].token \in 1..claim'.version
  <2>1. worker[w].text \in Transcripts /\ worker[w].token \in 1..claim.version
    BY <1>1 DEF WorkersSound
  <2> QED
    BY <1>0, <1>1, <2>1
<1>2. WorkersSound'
  BY <1>1 DEF WorkersSound
<1>3. TokensUnique'
  BY DEF TokensUnique
<1>4. JobsSound'
  BY <1>0 DEF JobsSound, Versions
<1> QED
  BY <1>2, <1>3, <1>4

LEMMA CoveredKept ==
    ASSUME TypeOK, TypeOK', Tokens, Covered, claim'.authority = claim.authority,
           EvidenceGrows, \A w \in Workers : Stays(w)
    PROVE  Covered'
<1>1. interview.evidence \in Nat /\ interview'.evidence \in Nat /\ answered' \subseteq Transcripts
  BY DEF TypeOK
<1>2. claim.authority # None => claim.authority \in Transcripts
  BY TypeParts, ClaimFields DEF TextOrNone
<1>3. \A t \in Transcripts : Known[t] \in Nat
  BY TextAssumption
<1>4. claim'.authority # None => interview'.evidence >= Known[claim'.authority]
  BY <1>1, <1>2, <1>3 DEF Covered, EvidenceGrows
<1>5. ASSUME NEW w \in Workers, worker'[w].pc = "stamping"
      PROVE  interview'.evidence >= Known[worker'[w].text]
  <2>1. worker[w].pc = "stamping" /\ worker'[w].text = worker[w].text
    BY <1>5 DEF Stays, Keeps
  <2>2. worker[w].text \in Transcripts
    BY <2>1 DEF Tokens, WorkersSound, Working
  <2> QED
    BY <1>1, <1>3, <2>1, <2>2 DEF Covered, EvidenceGrows
<1>6. ASSUME NEW t \in answered' PROVE interview'.evidence >= Known[t]
  BY <1>1, <1>3 DEF Covered, AcknowledgedIsCovered, EvidenceGrows
<1> QED
  BY <1>4, <1>5, <1>6 DEF Covered, AcknowledgedIsCovered

LEMMA CalmSound ==
    ASSUME IInv, TypeOK', Calm
    PROVE  IInv'
<1> USE DEF IInv, Calm
<1>1. Tokens'
  BY VersionIsNat, TokensKept DEF ClaimCalm, Stays
<1>2. Covered'
  BY CoveredKept DEF ClaimCalm
<1>3. AnalysisBound'
  BY DEF AnalysisBound, ClaimCalm, JobStays
<1>4. ClaimSound'
  BY DEF ClaimSound, ClaimCalm, AtLeastAsStrong
<1> QED
  BY <1>1, <1>2, <1>3, <1>4

-----------------------------------------------------------------------------
(* The handler's calm steps.                                               *)

LEMMA RefuseSound ==
    ASSUME IInv, NEW w \in Workers, NEW t \in Transcripts, RefuseClaim(w, t)
    PROVE  IInv'
<1>1. claim \in ClaimRows /\ answered \subseteq Transcripts
  BY TypeParts DEF IInv
<1>2. claim' \in ClaimRows /\ ClaimCalm
  BY <1>1, RecoveredType DEF RefuseClaim, ClaimCalm, Recovered
<1>3. UNCHANGED <<interview, analysing, worker, job, asks, perception, mishaps>>
  BY DEF RefuseClaim
<1>4. answered' \subseteq Transcripts
  BY <1>1 DEF RefuseClaim
<1>5. TypeOK'
  BY <1>2, <1>3, <1>4, TypeParts DEF IInv, TypeOK, ClaimRows
<1>6. ASSUME NEW u \in answered' \ answered PROVE interview.evidence >= Known[u]
  <2>1. u = t /\ Acknowledges(ClaimOutcome(t))
    BY <1>6 DEF RefuseClaim
  <2>2. claim.authority = t \/ Superseded(t)
    BY <2>1 DEF ClaimOutcome, Acknowledges
  <2>3. CASE claim.authority = t
    BY <2>1, <2>3, TextAssumption DEF IInv, Covered
  <2>4. CASE EvidenceOutweighs(t)
    BY <2>1, <2>4 DEF EvidenceOutweighs
  <2>5. CASE claim.authority # None /\ AtLeastAsStrong(claim.authority, t)
    <3>1. claim.authority \in Transcripts /\ interview.evidence \in Nat
      BY <1>1, <2>5, ClaimFields DEF TextOrNone, IInv, TypeOK
    <3>2. Known[claim.authority] \in Nat /\ Known[t] \in Nat /\ Known[claim.authority] >= Known[t]
      BY <2>5, <3>1, TextAssumption DEF AtLeastAsStrong
    <3> QED
      BY <2>1, <2>5, <3>1, <3>2 DEF IInv, Covered
  <2> QED
    BY <2>2, <2>3, <2>4, <2>5 DEF Superseded
<1>7. interview.evidence \in Nat
  BY DEF IInv, TypeOK
<1>8. Calm
  BY <1>2, <1>3, <1>6, <1>7 DEF Calm, EvidenceGrows, Stays, Keeps, JobStays, Working
<1> QED
  BY <1>5, <1>8, CalmSound

\* Steps of a handler that write no row.
LEMMA MovesSound ==
    ASSUME IInv, NEW w \in Workers,
           \/ Working(w) /\ (MoveTo(w, "finalizing") \/ MoveTo(w, "releasing"))
           \/ worker' = [worker EXCEPT ![w] = Idle],
           mishaps' \in 0..MaxMishaps,
           claim' \in ClaimRows, ClaimCalm,
           answered' \subseteq Transcripts, \A t \in answered' \ answered : interview.evidence >= Known[t],
           UNCHANGED <<interview, analysing, job, asks, perception>>
    PROVE  IInv'
<1>1. worker \in [Workers -> Handlers]
  BY TypeParts DEF IInv
<1>2. worker' \in [Workers -> Handlers]
  BY <1>1, MoveToEffect, IdleEffect
<1>3. TypeOK'
  BY <1>2, TypeParts DEF IInv, TypeOK, ClaimRows, Handlers
<1>4. Stays(w) /\ \A u \in Workers \ {w} : worker'[u] = worker[u]
  BY <1>1, MoveToEffect, IdleEffect DEF Stays, Keeps
<1>5. \A u \in Workers : Stays(u)
  BY <1>4 DEF Stays, Keeps, Working
<1>6. interview.evidence \in Nat
  BY DEF IInv, TypeOK
<1>7. Calm
  BY <1>5, <1>6 DEF Calm, EvidenceGrows, JobStays
<1> QED
  BY <1>3, <1>7, CalmSound

LEMMA MishapType ==
    ASSUME TypeOK, NEW kind, Mishap(kind)
    PROVE  mishaps' \in 0..MaxMishaps
BY BoundAssumption DEF TypeOK, Mishap

LEMMA HandlerCalmSound ==
    ASSUME IInv, NEW w \in Workers,
           \/ Prepare(w) \/ PrepareFails(w) \/ FinalizeSuperseded(w) \/ FinalizeFails(w)
           \/ Release(w) \/ ReleaseLost(w) \/ WorkerDies(w)
    PROVE  IInv'
<1> USE DEF Working
<1>1. claim \in ClaimRows /\ answered \subseteq Transcripts /\ mishaps \in 0..MaxMishaps
  BY TypeParts DEF IInv
<1>2. UNCHANGED <<interview, analysing, job, asks, perception>>
  BY DEF Prepare, PrepareFails, FinalizeSuperseded, FinalizeFails, Release, ReleaseLost, WorkerDies
<1>3. mishaps' \in 0..MaxMishaps
  BY <1>1, MishapType DEF IInv, Prepare, PrepareFails, FinalizeSuperseded, FinalizeFails, Release,
      ReleaseLost, WorkerDies
<1>4. claim' \in ClaimRows /\ ClaimCalm
  BY <1>1, GivenUpType DEF ClaimCalm, Prepare, PrepareFails, FinalizeSuperseded, FinalizeFails, Release,
      ReleaseLost, WorkerDies
<1>5. \/ Working(w) /\ (MoveTo(w, "finalizing") \/ MoveTo(w, "releasing"))
      \/ worker' = [worker EXCEPT ![w] = Idle]
  BY DEF Prepare, PrepareFails, FinalizeSuperseded, FinalizeFails, Release, ReleaseLost, WorkerDies
<1>6. answered' \subseteq Transcripts /\ \A t \in answered' \ answered : interview.evidence >= Known[t]
  <2>1. CASE FinalizeSuperseded(w)
    <3>1. worker[w].text \in Transcripts /\ interview.evidence >= Known[worker[w].text]
      BY <2>1 DEF FinalizeSuperseded, IInv, Tokens, WorkersSound, EvidenceOutweighs
    <3> QED
      BY <1>1, <2>1, <3>1 DEF FinalizeSuperseded
  <2>2. CASE ~FinalizeSuperseded(w)
    BY <1>1, <2>2 DEF Prepare, PrepareFails, FinalizeFails, Release, ReleaseLost, WorkerDies
  <2> QED
    BY <2>1, <2>2
<1> QED
  BY <1>2, <1>3, <1>4, <1>5, <1>6, MovesSound

LEMMA LeaseExpiresSound ==
    ASSUME IInv, LeaseExpires
    PROVE  IInv'
<1>1. UNCHANGED <<interview, analysing, worker, job, asks, perception, answered>>
  BY DEF LeaseExpires
<1>2. mishaps' \in 0..MaxMishaps
  BY MishapType DEF LeaseExpires, IInv, TypeOK
<1>3. claim \in ClaimRows /\ claim' = [claim EXCEPT !.live = FALSE]
  BY TypeParts DEF LeaseExpires, IInv
<1>4. claim' \in ClaimRows /\ ClaimCalm
  BY <1>3 DEF ClaimRows, ClaimCalm
<1>5. TypeOK'
  BY <1>1, <1>2, <1>4, TypeParts DEF IInv, TypeOK, ClaimRows
<1>6. interview.evidence \in Nat
  BY DEF IInv, TypeOK
<1>7. Calm
  BY <1>1, <1>4, <1>6 DEF Calm, EvidenceGrows, Stays, Keeps, JobStays, Working
<1> QED
  BY <1>5, <1>7, CalmSound

-----------------------------------------------------------------------------
(* The deferred work and the writers outside the claims.                   *)

LEMMA AsideSound ==
    ASSUME IInv, UNCHANGED <<claim, worker, answered>>,
           interview' \in InterviewRows, interview'.evidence >= interview.evidence,
           analysing' \in AnalysisRows, analysing'.version = analysing.version,
           job' \in [Versions -> Jobs], \A v \in Versions : JobStays(v),
           asks' \subseteq Versions, perception' \in Perceptions, mishaps' \in 0..MaxMishaps
    PROVE  IInv'
<1>1. TypeOK'
  BY TypeParts DEF IInv, TypeOK, InterviewRows, AnalysisRows, Jobs, Perceptions
<1>2. Calm
  BY DEF Calm, ClaimCalm, EvidenceGrows, Stays, Keeps, Working
<1> QED
  BY <1>1, <1>2, CalmSound

LEMMA JobMoves ==
    ASSUME job \in [Versions -> Jobs], NEW v \in Versions, job[v].pc # "none",
           NEW s \in {"reading", "generating", "releasing", "done"},
           job' = [job EXCEPT ![v].pc = s]
    PROVE  /\ job' \in [Versions -> Jobs] /\ \A u \in Versions : JobStays(u)
BY DEF Jobs, JobStays

LEMMA GivenUpAnalysis ==
    ASSUME analysing \in AnalysisRows, NEW d \in 0..MaxVersion
    PROVE  /\ AnalysisGivenUp(d) \in AnalysisRows
           /\ AnalysisGivenUp(d).version = analysing.version
           /\ AnalysisGivenUp(d).done = d
<1> DEFINE s == IF d = 0 THEN "available" ELSE "completed"
<1>1. s \in {"available", "completed"} /\ 0 \in 0..MaxVersion
  BY BoundAssumption
<1>2. AnalysisGivenUp(d) = [analysing EXCEPT !.state = s, !.token = 0, !.live = FALSE,
                                             !.expected = 0, !.done = d]
  BY DEF AnalysisGivenUp
<1> HIDE DEF s
<1> QED
  BY <1>1, <1>2 DEF AnalysisRows

LEMMA JobStepsSound ==
    ASSUME IInv, NEW v \in Versions, ReadRow(v) \/ GenerationFails(v)
    PROVE  IInv'
<1>1. job \in [Versions -> Jobs] /\ interview.evidence \in Nat
  BY TypeParts DEF IInv, TypeOK
<1>2. PICK s \in {"generating", "releasing"} : job' = [job EXCEPT ![v].pc = s] /\ job[v].pc # "none"
  BY DEF ReadRow, GenerationFails
<1>3. job' \in [Versions -> Jobs] /\ \A u \in Versions : JobStays(u)
  BY <1>1, <1>2, JobMoves
<1>4. UNCHANGED <<claim, interview, analysing, worker, asks, perception, answered>>
  BY DEF ReadRow, GenerationFails
<1>5. mishaps' \in 0..MaxMishaps
  BY MishapType DEF ReadRow, GenerationFails, IInv, TypeOK
<1> QED
  BY <1>1, <1>3, <1>4, <1>5, TypeParts, AsideSound DEF IInv

LEMMA ReleaseAnalysisSound ==
    ASSUME IInv, NEW v \in Versions, ReleaseAnalysis(v)
    PROVE  IInv'
<1>1. job \in [Versions -> Jobs] /\ interview.evidence \in Nat /\ analysing \in AnalysisRows
  BY TypeParts DEF IInv, TypeOK
<1>2. job' \in [Versions -> Jobs] /\ \A u \in Versions : JobStays(u)
  BY <1>1, JobMoves DEF ReleaseAnalysis
<1>3. 0 \in 0..MaxVersion /\ analysing.done \in 0..MaxVersion
  BY <1>1, BoundAssumption DEF AnalysisRows
<1>4. analysing' \in AnalysisRows /\ analysing'.version = analysing.version
  <2> DEFINE d == IF interview.analysis.text = None THEN 0 ELSE analysing.done
  <2>1. d \in 0..MaxVersion
    BY <1>3
  <2>2. analysing' = AnalysisGivenUp(d) \/ analysing' = analysing
    BY DEF ReleaseAnalysis
  <2> HIDE DEF d
  <2> QED
    BY <1>1, <2>1, <2>2, GivenUpAnalysis
<1>5. UNCHANGED <<claim, interview, worker, asks, perception, answered, mishaps>>
  BY DEF ReleaseAnalysis
<1> QED
  BY <1>1, <1>2, <1>4, <1>5, TypeParts, AsideSound DEF IInv

LEMMA InterviewUpdates ==
    ASSUME interview \in InterviewRows
    PROVE  /\ \A t \in TextOrNone, p \in BOOLEAN :
                 LET r == [interview EXCEPT !.analysis = [text |-> t, perceived |-> p]]
                 IN  r \in InterviewRows /\ r.evidence = interview.evidence
           /\ \A t \in TextOrNone :
                 LET r == [interview EXCEPT !.questions = t]
                 IN  r \in InterviewRows /\ r.evidence = interview.evidence
           /\ LET r == [interview EXCEPT !.perceived = TRUE]
              IN  r \in InterviewRows /\ r.evidence = interview.evidence
           /\ LET r == [interview EXCEPT !.stamped = TRUE]
              IN  r \in InterviewRows /\ r.evidence = interview.evidence
           /\ \A n \in Nat :
                 LET r == [interview EXCEPT !.evidence = n]
                 IN  r \in InterviewRows /\ r.evidence = n
           /\ interview.evidence \in Nat /\ interview.perceived \in BOOLEAN
           /\ interview.transcript \in TextOrNone
BY DEF InterviewRows

LEMMA StoreAnalysisSound ==
    ASSUME IInv, NEW v \in Versions, StoreAnalysis(v)
    PROVE  IInv'
<1>1. job \in [Versions -> Jobs] /\ analysing \in AnalysisRows /\ interview \in InterviewRows
  BY TypeParts DEF IInv
<1>2. job' \in [Versions -> Jobs] /\ \A u \in Versions : JobStays(u)
  BY <1>1, JobMoves DEF StoreAnalysis
<1>3. analysing.done \in 0..MaxVersion /\ v \in 0..MaxVersion /\ job[v].text \in TextOrNone
  BY <1>1, BoundAssumption DEF AnalysisRows, Versions, Jobs
<1>4. analysing' \in AnalysisRows /\ analysing'.version = analysing.version
  BY <1>1, <1>3, GivenUpAnalysis DEF StoreAnalysis
<1>5. interview' \in InterviewRows /\ interview'.evidence >= interview.evidence
  <2>1. interview.evidence \in Nat /\ interview.perceived \in BOOLEAN
    BY <1>1, InterviewUpdates
  <2>2. CASE UNCHANGED interview
    BY <1>1, <2>1, <2>2
  <2>3. ASSUME NEW p \in {interview.perceived, FALSE},
               interview' = [interview EXCEPT !.analysis = [text |-> job[v].text, perceived |-> p]]
        PROVE  interview' \in InterviewRows /\ interview'.evidence = interview.evidence
    <3>1. p \in BOOLEAN
      BY <2>1
    <3> QED
      BY <1>1, <1>3, <2>3, <3>1, InterviewUpdates
  <2> QED
    BY <2>1, <2>2, <2>3 DEF StoreAnalysis
<1>6. UNCHANGED <<claim, worker, asks, perception, answered, mishaps>>
  BY DEF StoreAnalysis
<1> QED
  BY <1>1, <1>2, <1>4, <1>5, <1>6, TypeParts, AsideSound DEF IInv

LEMMA AnalysisLeaseSound ==
    ASSUME IInv, AnalysisLeaseExpires
    PROVE  IInv'
<1>1. analysing \in AnalysisRows /\ interview.evidence \in Nat /\ analysing' = [analysing EXCEPT !.live = FALSE]
  BY TypeParts DEF IInv, AnalysisLeaseExpires, TypeOK
<1>2. analysing' \in AnalysisRows /\ analysing'.version = analysing.version
  BY <1>1 DEF AnalysisRows
<1>3. UNCHANGED <<claim, interview, worker, job, asks, perception, answered>>
  BY DEF AnalysisLeaseExpires
<1>4. mishaps' \in 0..MaxMishaps
  BY MishapType DEF AnalysisLeaseExpires, IInv, TypeOK
<1>5. \A v \in Versions : JobStays(v)
  BY <1>3 DEF JobStays
<1> QED
  BY <1>1, <1>2, <1>3, <1>4, <1>5, TypeParts, AsideSound DEF IInv

LEMMA PersistQuestionsSound ==
    ASSUME IInv, NEW v \in Versions, PersistQuestions(v)
    PROVE  IInv'
<1>1. interview \in InterviewRows /\ job[v].text \in TextOrNone /\ asks \subseteq Versions
  BY TypeParts DEF IInv, Jobs
<1>2. interview' \in InterviewRows /\ interview'.evidence >= interview.evidence /\ asks' \subseteq Versions
  BY <1>1, InterviewUpdates DEF PersistQuestions
<1>3. UNCHANGED <<claim, analysing, worker, job, perception, answered, mishaps>>
  BY DEF PersistQuestions
<1>4. \A u \in Versions : JobStays(u)
  BY <1>3 DEF JobStays
<1> QED
  BY <1>2, <1>3, <1>4, TypeParts, AsideSound DEF IInv

LEMMA DeferredWorkDiesSound ==
    ASSUME IInv, NEW v \in Versions, DeferredWorkDies(v)
    PROVE  IInv'
<1>1. job \in [Versions -> Jobs] /\ interview.evidence \in Nat
  BY TypeParts DEF IInv, TypeOK
<1>2. job' \in [Versions -> Jobs] /\ \A u \in Versions : JobStays(u)
  <2>1. job' = [job EXCEPT ![v].pc = IF @ = "none" THEN @ ELSE "done"]
    BY DEF DeferredWorkDies
  <2>2. CASE job[v].pc = "none"
    <3>1. job' = job
      BY <1>1, <2>1, <2>2 DEF Jobs
    <3> QED
      BY <1>1, <3>1 DEF JobStays
  <2>3. CASE job[v].pc # "none"
    <3>1. job' = [job EXCEPT ![v].pc = "done"]
      BY <2>1, <2>3
    <3> QED
      BY <1>1, <2>3, <3>1, JobMoves
  <2> QED
    BY <2>2, <2>3
<1>3. UNCHANGED <<claim, interview, analysing, worker, perception, answered>> /\ asks' \subseteq Versions
  BY TypeParts DEF DeferredWorkDies, IInv
<1>4. mishaps' \in 0..MaxMishaps
  BY MishapType DEF DeferredWorkDies, IInv
<1> QED
  BY <1>1, <1>2, <1>3, <1>4, TypeParts, AsideSound DEF IInv

LEMMA OutsideSound ==
    ASSUME IInv, Utterance \/ PerceptionArrives \/ PerceptionReads \/ PerceptionWrites
    PROVE  IInv'
<1>1. interview \in InterviewRows /\ perception \in Perceptions
  BY TypeParts DEF IInv
<1>2. UNCHANGED <<claim, analysing, worker, job, asks, answered, mishaps>>
  BY DEF Utterance, PerceptionArrives, PerceptionReads, PerceptionWrites
<1>3. interview' \in InterviewRows /\ interview'.evidence >= interview.evidence
  <2>1. CASE Utterance
    <3>1. PICK n \in (interview.evidence + 1)..MaxEvidence : interview' = [interview EXCEPT !.evidence = n]
      BY <2>1 DEF Utterance
    <3>2. n \in Nat /\ n >= interview.evidence
      BY <1>1, <3>1, InterviewUpdates, BoundAssumption
    <3> QED
      BY <1>1, <3>1, <3>2, InterviewUpdates
  <2> USE <1>1
  <2>0. interview.evidence \in Nat
    BY InterviewUpdates
  <2>2. CASE PerceptionArrives
    <3>1. interview' = [interview EXCEPT !.perceived = TRUE]
      BY <2>2 DEF PerceptionArrives
    <3>2. interview' \in InterviewRows /\ interview'.evidence = interview.evidence
      BY <3>1, InterviewUpdates
    <3> QED
      BY <2>0, <3>2
  <2>4. CASE PerceptionReads
    BY <2>0, <2>4 DEF PerceptionReads
  <2>3. CASE PerceptionWrites
    <3>1. perception.text \in TextOrNone /\ TRUE \in BOOLEAN
      BY DEF Perceptions
    <3>2. interview' = [interview EXCEPT !.analysis = [text |-> perception.text, perceived |-> TRUE]]
      BY <2>3 DEF PerceptionWrites
    <3>3. interview' \in InterviewRows /\ interview'.evidence = interview.evidence
      BY <3>1, <3>2, InterviewUpdates
    <3> QED
      BY <2>0, <3>3
  <2> QED
    BY <2>1, <2>2, <2>3, <2>4
<1>4. perception' \in Perceptions
  <2>1. interview.transcript \in TextOrNone /\ None \in TextOrNone
    BY <1>1, InterviewUpdates DEF TextOrNone
  <2> QED
    BY <1>1, <2>1 DEF Utterance, PerceptionArrives, PerceptionReads, PerceptionWrites, Perceptions
<1>5. \A v \in Versions : JobStays(v)
  BY <1>2 DEF JobStays
<1> QED
  BY <1>2, <1>3, <1>4, <1>5, TypeParts, AsideSound DEF IInv

-----------------------------------------------------------------------------
(* The steps that change hands: grant, commit, conclude, claim an analysis. *)

\* What a grant does to everything but the handlers.
LEMMA GrantRest ==
    ASSUME IInv, NEW t \in Transcripts, Grant(t)
    PROVE  /\ claim' \in ClaimRows /\ claim.version \in Nat
           /\ claim'.version = claim.version + 1 /\ claim'.authority = claim.authority
           /\ AnalysisBound' /\ ClaimSound'
           /\ UNCHANGED <<interview, analysing, job, asks, perception, answered>>
<1>1. claim \in ClaimRows /\ claim.version \in Nat
  BY TypeParts, VersionIsNat DEF IInv
<1>2. /\ claim' \in ClaimRows /\ claim'.version = claim.version + 1
      /\ claim'.authority = claim.authority /\ claim'.pending = t
  BY <1>1, GrantEffect
<1>3. UNCHANGED <<interview, analysing, job, asks, perception, answered>>
  BY DEF Grant
<1>4. analysing.version <= claim.version /\ analysing.version \in Int
  BY TypeParts DEF IInv, AnalysisBound, AnalysisRows
<1>5. AnalysisBound'
  BY <1>1, <1>2, <1>3, <1>4 DEF AnalysisBound
<1>6. claim.authority # None => ~AtLeastAsStrong(claim.authority, t)
  BY DEF Grant, ClaimOutcome, Superseded
<1>7. ClaimSound'
  BY <1>2, <1>6 DEF ClaimSound, AtLeastAsStrong
<1> QED
  BY <1>1, <1>2, <1>3, <1>5, <1>7

LEMMA GrantClaimSound ==
    ASSUME IInv, NEW w \in Workers, NEW t \in Transcripts, GrantClaim(w, t)
    PROVE  IInv'
<1> DEFINE n == claim.version + 1
<1> USE DEF Working
<1>1. /\ claim' \in ClaimRows /\ claim.version \in Nat
      /\ claim'.version = n /\ claim'.authority = claim.authority
      /\ AnalysisBound' /\ ClaimSound'
      /\ UNCHANGED <<interview, analysing, job, asks, perception, answered, mishaps>>
  BY GrantRest DEF GrantClaim
<1>2. worker' = [worker EXCEPT ![w] = [pc |-> "preparing", text |-> t, token |-> n]]
  BY DEF GrantClaim
<1>3. n \in Nat /\ n \in 0..MaxVersion /\ t \in TextOrNone
  BY <1>1, ClaimFields DEF TextOrNone
<1> HIDE DEF n
<1>4. worker \in [Workers -> Handlers] /\ worker' \in [Workers -> Handlers]
  BY <1>2, <1>3, TypeParts DEF IInv, Handlers
<1>5. TypeOK'
  BY <1>1, <1>4, TypeParts DEF IInv, TypeOK, ClaimRows, Handlers
<1>6. /\ worker'[w].pc = "preparing" /\ worker'[w].text = t /\ worker'[w].token = n
      /\ \A u \in Workers \ {w} : worker'[u] = worker[u]
  BY <1>2, <1>4
<1>7. \A u \in Workers \ {w} : Working(u) =>
          worker[u].text \in Transcripts /\ worker[u].token \in 1..claim.version
  BY DEF IInv, Tokens, WorkersSound
<1>8. \A u \in Workers \ {w} : Working(u) => worker[u].token \in 1..n /\ worker[u].token # n
  BY <1>1, <1>7 DEF n
<1>9. WorkersSound'
  <2>1. n \in 1..n
    BY <1>1 DEF n
  <2>2. ASSUME NEW u \in Workers, worker'[u].pc # "idle"
        PROVE  worker'[u].text \in Transcripts /\ worker'[u].token \in 1..n
    BY <1>6, <1>7, <1>8, <2>1, <2>2
  <2> QED
    BY <1>1, <2>2 DEF WorkersSound
<1>10. TokensUnique'
  BY <1>6, <1>8 DEF TokensUnique, IInv, Tokens
<1>11. JobsSound'
  <2>1. \A v \in Versions : job[v].pc # "none" => v <= claim.version /\ v \in Int
    BY DEF IInv, Tokens, JobsSound, Versions
  <2>2. \A v \in Versions : job[v].pc # "none" => v <= n /\ v # n
    BY <1>1, <2>1 DEF n
  <2> QED
    BY <1>1, <1>6, <2>2 DEF JobsSound, IInv, Tokens
<1>12. Covered'
  BY <1>1, <1>6 DEF Covered, AcknowledgedIsCovered, IInv
<1> QED
  BY <1>1, <1>5, <1>9, <1>10, <1>11, <1>12 DEF IInv, Tokens

LEMMA LoseClaimReplySound ==
    ASSUME IInv, NEW w \in Workers, NEW t \in Transcripts, LoseClaimReply(w, t)
    PROVE  IInv'
<1>1. /\ claim' \in ClaimRows /\ claim.version \in Nat
      /\ claim'.version = claim.version + 1 /\ claim'.authority = claim.authority
      /\ AnalysisBound' /\ ClaimSound'
      /\ UNCHANGED <<interview, analysing, job, asks, perception, answered, worker>>
  BY GrantRest DEF LoseClaimReply
<1>2. mishaps' \in 0..MaxMishaps
  BY MishapType DEF LoseClaimReply, IInv
<1>3. TypeOK'
  BY <1>1, <1>2, TypeParts DEF IInv, TypeOK, ClaimRows
<1>4. Tokens'
  BY <1>1, <1>3, TokensKept DEF IInv, Keeps, JobStays, Working
<1>5. Covered'
  BY <1>1 DEF Covered, AcknowledgedIsCovered, IInv
<1> QED
  BY <1>1, <1>3, <1>4, <1>5 DEF IInv

\* The finalizing transaction: a text that neither the authority nor the row
\* outweighs becomes both.
LEMMA CommitEffect ==
    ASSUME IInv, NEW w \in Workers, CommitTranscript(w)
    PROVE  LET t == worker[w].text IN
           /\ t \in Transcripts /\ Known[t] \in Nat
           /\ claim' \in ClaimRows /\ claim'.state = "completed"
           /\ claim'.version = claim.version /\ claim'.authority = t
           /\ claim.authority # None => ~AtLeastAsStrong(claim.authority, t)
           /\ interview' \in InterviewRows /\ interview'.evidence = Known[t]
           /\ interview'.transcript = t /\ interview'.questions = interview.questions
           /\ interview.evidence \in Nat /\ Known[t] >= interview.evidence
<1> DEFINE t == worker[w].text
<1>1. t \in Transcripts /\ Known[t] \in Nat /\ t \in TextOrNone /\ None \in TextOrNone
  BY TextAssumption DEF CommitTranscript, IInv, Tokens, WorkersSound, Working, TextOrNone
<1>2. claim \in ClaimRows /\ interview \in InterviewRows /\ interview.evidence \in Nat
  BY TypeParts DEF IInv, TypeOK
<1>3. claim' = [claim EXCEPT !.state = "completed", !.live = FALSE, !.pending = None, !.authority = t]
  BY DEF CommitTranscript
<1>4. PICK s \in {interview.status, "ReadyForAnalysis", "Incomplete"} :
          interview' = [interview EXCEPT !.transcript = t, !.evidence = Known[t], !.status = s]
  BY DEF CommitTranscript
<1>5. claim.authority # None => ~AtLeastAsStrong(claim.authority, t)
  BY DEF CommitTranscript, HoldsClaim, IInv, ClaimSound
<1>6. Known[t] >= interview.evidence
  BY <1>1, <1>2 DEF CommitTranscript, EvidenceOutweighs
<1> HIDE DEF t
<1>7. /\ claim' \in ClaimRows /\ claim'.state = "completed"
      /\ claim'.version = claim.version /\ claim'.authority = t
  BY <1>1, <1>2, <1>3 DEF ClaimRows
<1>8. /\ interview' \in InterviewRows /\ interview'.evidence = Known[t]
      /\ interview'.transcript = t /\ interview'.questions = interview.questions
  BY <1>1, <1>2, <1>4 DEF InterviewRows
<1> QED
  BY <1>1, <1>2, <1>5, <1>6, <1>7, <1>8 DEF t

LEMMA CommitSound ==
    ASSUME IInv, NEW w \in Workers, Finalize(w) \/ LoseFinalizeReply(w)
    PROVE  IInv'
<1> DEFINE t == worker[w].text
<1> USE DEF Working
<1>1. CommitTranscript(w) /\ worker[w].pc = "finalizing"
  BY DEF Finalize, LoseFinalizeReply, CommitTranscript
<1>2. /\ t \in Transcripts /\ Known[t] \in Nat
      /\ claim' \in ClaimRows /\ claim'.state = "completed"
      /\ claim'.version = claim.version /\ claim'.authority = t
      /\ interview' \in InterviewRows /\ interview'.evidence = Known[t]
      /\ interview.evidence \in Nat /\ Known[t] >= interview.evidence
  BY <1>1, CommitEffect
<1>3. UNCHANGED <<analysing, job, asks, perception, answered>>
  BY <1>1 DEF CommitTranscript
<1>4. mishaps' \in 0..MaxMishaps
  BY MishapType DEF Finalize, LoseFinalizeReply, IInv, TypeOK
<1>5. worker \in [Workers -> Handlers] /\ (MoveTo(w, "stamping") \/ MoveTo(w, "releasing"))
  BY TypeParts DEF IInv, Finalize, LoseFinalizeReply
<1>6. /\ worker' \in [Workers -> Handlers]
      /\ worker'[w].text = t /\ worker'[w].token = worker[w].token
      /\ \A u \in Workers \ {w} : worker'[u] = worker[u]
  BY <1>5, MoveToEffect
<1>7. TypeOK'
  BY <1>2, <1>3, <1>4, <1>6, TypeParts DEF IInv, TypeOK, ClaimRows, InterviewRows, Handlers
<1>8. Tokens'
  <2>1. claim'.version >= claim.version
    BY <1>2, VersionIsNat DEF IInv
  <2>2. \A u \in Workers : Keeps(u)
    BY <1>1, <1>6 DEF Keeps
  <2> QED
    BY <1>3, <1>7, <2>1, <2>2, TokensKept DEF IInv, JobStays
<1>9. AnalysisBound' /\ ClaimSound'
  BY <1>2, <1>3 DEF AnalysisBound, ClaimSound, IInv
<1>10. Covered'
  <2>1. ASSUME NEW u \in Workers, worker'[u].pc = "stamping"
        PROVE  interview'.evidence >= Known[worker'[u].text]
    <3>1. CASE u = w
      BY <1>2, <1>6, <3>1
    <3>2. CASE u # w
      <4>1. worker[u].pc = "stamping" /\ worker'[u].text = worker[u].text
        BY <1>6, <2>1, <3>2
      <4>2. worker[u].text \in Transcripts /\ interview.evidence >= Known[worker[u].text]
        BY <4>1 DEF IInv, Tokens, WorkersSound, Covered
      <4> QED
        BY <1>2, <4>1, <4>2, TextAssumption
    <3> QED
      BY <3>1, <3>2
  <2>2. ASSUME NEW u \in answered PROVE interview'.evidence >= Known[u]
    <3>1. u \in Transcripts /\ interview.evidence >= Known[u]
      BY DEF IInv, TypeOK, Covered, AcknowledgedIsCovered
    <3> QED
      BY <1>2, <3>1, TextAssumption
  <2>3. interview'.evidence >= Known[claim'.authority]
    BY <1>2
  <2> QED
    BY <1>3, <2>1, <2>2, <2>3 DEF Covered, AcknowledgedIsCovered
<1> QED
  BY <1>7, <1>8, <1>9, <1>10 DEF IInv

LEMMA ConcludeSound ==
    ASSUME IInv, NEW w \in Workers, StampAndAnswer(w) \/ StampFails(w)
    PROVE  IInv'
<1> DEFINE t == worker[w].text
           v == worker[w].token
<1> USE DEF Working
<1>1. Conclude(w) /\ worker[w].pc = "stamping"
  BY DEF StampAndAnswer, StampFails, Conclude
<1>2. t \in Transcripts /\ t \in TextOrNone /\ v \in Versions /\ v <= claim.version
  BY <1>1, VersionIsNat, BoundAssumption DEF IInv, Tokens, WorkersSound, TextOrNone, Versions
<1>3. job[v].pc = "none"
  BY <1>1, <1>2 DEF IInv, Tokens, JobsSound
<1>4. interview.evidence >= Known[t]
  BY <1>1 DEF IInv, Covered
<1>5. UNCHANGED <<claim, analysing, perception>> /\ asks' = asks \cup {v} /\ answered' = answered \cup {t}
  BY <1>1 DEF Conclude
<1>6. /\ worker \in [Workers -> Handlers] /\ worker' \in [Workers -> Handlers]
      /\ worker'[w].pc = "idle" /\ \A u \in Workers \ {w} : worker'[u] = worker[u]
  BY <1>1, TypeParts, IdleEffect DEF IInv, Conclude
<1>7. job \in [Versions -> Jobs] /\ 0 \in 0..MaxVersion
  BY TypeParts, BoundAssumption DEF IInv
<1>8. \/ job' = [job EXCEPT ![v] = [pc |-> "queued", text |-> t, token |-> 0]]
      \/ job' = [job EXCEPT ![v].text = t]
  BY <1>1 DEF Conclude
<1>9. interview \in InterviewRows /\ interview.evidence \in Nat
  BY TypeParts DEF IInv, TypeOK
<1>10. interview' \in InterviewRows /\ interview'.evidence = interview.evidence
  BY <1>9, InterviewUpdates DEF StampAndAnswer, StampFails
<1>11. mishaps' \in 0..MaxMishaps
  BY MishapType DEF StampAndAnswer, StampFails, IInv, TypeOK
<1> HIDE DEF t, v
<1>12. /\ job' \in [Versions -> Jobs] /\ job'[v].pc \in {"none", "queued"}
       /\ \A u \in Versions \ {v} : job'[u] = job[u]
  BY <1>2, <1>3, <1>7, <1>8 DEF Jobs
<1>13. TypeOK'
  BY <1>2, <1>5, <1>6, <1>10, <1>11, <1>12, TypeParts
     DEF IInv, TypeOK, InterviewRows, Handlers, Jobs
<1>14. Tokens'
  <2>1. WorkersSound' /\ TokensUnique'
    BY <1>5, <1>6 DEF WorkersSound, TokensUnique, IInv, Tokens
  <2>2. \A u \in Workers \ {w} : Working(u) => worker[u].token # v
    BY <1>1 DEF TokensUnique, IInv, Tokens, v
  <2>3. JobsSound'
    BY <1>2, <1>5, <1>6, <1>12, <2>2 DEF JobsSound, IInv, Tokens
  <2> QED
    BY <2>1, <2>3 DEF Tokens
<1>15. AnalysisBound' /\ ClaimSound'
  BY <1>2, <1>3, <1>5, <1>12 DEF AnalysisBound, ClaimSound, AtLeastAsStrong, IInv
<1>16. Covered'
  BY <1>4, <1>5, <1>6, <1>10 DEF Covered, AcknowledgedIsCovered, IInv
<1> QED
  BY <1>13, <1>14, <1>15, <1>16 DEF IInv

LEMMA ClaimAnalysisSound ==
    ASSUME IInv, NEW v \in Versions, ClaimAnalysis(v)
    PROVE  IInv'
<1> DEFINE n == analysing.version + 1
<1>1. UNCHANGED <<claim, interview, worker, asks, perception, answered, mishaps>> /\ job[v].pc = "queued"
  BY DEF ClaimAnalysis
<1>2. job \in [Versions -> Jobs] /\ analysing \in AnalysisRows
  BY TypeParts DEF IInv
<1>3. CASE ~MayAnalyse(v)
  <2>1. job' = [job EXCEPT ![v].pc = "done"] /\ analysing' = analysing
    BY <1>3 DEF ClaimAnalysis
  <2>2. job' \in [Versions -> Jobs] /\ \A u \in Versions : JobStays(u)
    BY <1>1, <1>2, <2>1, JobMoves
  <2>3. interview.evidence \in Nat
    BY DEF IInv, TypeOK
  <2> QED
    BY <1>1, <2>1, <2>2, <2>3, TypeParts, AsideSound DEF IInv
<1>4. CASE MayAnalyse(v)
  <2>1. /\ analysing' = [analysing EXCEPT !.state = "claimed", !.version = n,
                                          !.token = n, !.live = TRUE, !.expected = v]
        /\ job' = [job EXCEPT ![v].pc = "reading", ![v].token = n]
    BY <1>4 DEF ClaimAnalysis
  <2>2. claim.version = v /\ v \in 1..MaxVersion
    BY <1>4 DEF MayAnalyse, Authoritative, Versions
  <2>3. analysing.version \in 0..MaxVersion /\ analysing.version < v
    BY <1>1, <1>2, <2>2 DEF IInv, AnalysisBound, AnalysisRows
  <2>4. n \in 0..MaxVersion /\ n <= claim.version /\ v \in 0..MaxVersion
    BY <2>2, <2>3, BoundAssumption
  <2> HIDE DEF n
  <2>5. analysing' \in AnalysisRows /\ analysing'.version = n
    BY <1>2, <2>1, <2>4 DEF AnalysisRows
  <2>6. /\ job' \in [Versions -> Jobs] /\ job'[v].pc = "reading"
        /\ \A u \in Versions \ {v} : job'[u] = job[u]
    BY <1>2, <2>1, <2>4 DEF Jobs
  <2>7. TypeOK'
    BY <1>1, <2>5, <2>6, TypeParts DEF IInv, TypeOK, AnalysisRows, Jobs
  <2>8. Tokens'
    BY <1>1, <2>6 DEF Tokens, WorkersSound, TokensUnique, JobsSound, Working, IInv
  <2>9. AnalysisBound'
    BY <1>1, <2>2, <2>4, <2>5, <2>6 DEF AnalysisBound
  <2>10. ClaimSound' /\ Covered'
    BY <1>1 DEF ClaimSound, AtLeastAsStrong, Covered, AcknowledgedIsCovered, IInv
  <2> QED
    BY <2>7, <2>8, <2>9, <2>10 DEF IInv
<1> QED
  BY <1>3, <1>4

-----------------------------------------------------------------------------
(* The invariant.                                                          *)

LEMMA InitSound == Init => IInv
<1> SUFFICES ASSUME Init PROVE IInv
  OBVIOUS
<1>1. None \in TextOrNone /\ 0 \in 0..MaxVersion /\ 0 \in 0..MaxMishaps
  BY BoundAssumption DEF TextOrNone
<1>2. claim \in ClaimRows /\ analysing \in AnalysisRows /\ perception \in Perceptions
  BY <1>1 DEF Init, ClaimRows, AnalysisRows, Perceptions
<1>3. interview \in InterviewRows
  <2>1. PICK failed \in BOOLEAN :
          interview = [transcript |-> None, evidence |-> 0, stamped |-> FALSE,
                       status |-> IF failed THEN "Incomplete" ELSE "ending_requested",
                       failed |-> failed, perceived |-> FALSE, questions |-> None,
                       analysis |-> [text |-> None, perceived |-> FALSE]]
    BY DEF Init
  <2> QED
    BY <1>1, <2>1 DEF InterviewRows
<1>4. worker \in [Workers -> Handlers] /\ job \in [Versions -> Jobs]
  BY <1>1 DEF Init, Handlers, Idle, Jobs, NoJob
<1>5. TypeOK
  BY <1>1, <1>2, <1>3, <1>4, TypeParts DEF Init
<1>6. Tokens /\ AnalysisBound /\ ClaimSound /\ Covered
  BY DEF Init, Idle, NoJob, Tokens, WorkersSound, TokensUnique, JobsSound, Working, Versions,
     AnalysisBound, ClaimSound, Covered, AcknowledgedIsCovered
<1> QED
  BY <1>5, <1>6 DEF IInv

LEMMA HandlingSound ==
    ASSUME IInv, NEW w \in Workers, Handling(w)
    PROVE  IInv'
BY HandlerCalmSound, CommitSound, ConcludeSound DEF Handling

LEMMA DeferredSound ==
    ASSUME IInv, NEW v \in Versions, Deferred(v)
    PROVE  IInv'
BY ClaimAnalysisSound, JobStepsSound, StoreAnalysisSound, ReleaseAnalysisSound, PersistQuestionsSound
   DEF Deferred

LEMMA StutterSound ==
    ASSUME IInv, UNCHANGED vars
    PROVE  IInv'
<1>1. UNCHANGED <<claim, interview, analysing, worker, job, asks, perception, answered, mishaps>>
  BY DEF vars
<1>2. interview.evidence \in Nat
  BY DEF IInv, TypeOK
<1> QED
  BY <1>1, <1>2, TypeParts, AsideSound DEF IInv, JobStays

LEMMA StepSound == IInv /\ [Next]_vars => IInv'
<1> SUFFICES ASSUME IInv, [Next]_vars PROVE IInv'
  OBVIOUS
<1>1. CASE UNCHANGED vars
  BY <1>1, StutterSound
<1>2. ASSUME NEW w \in Workers, NEW t \in Transcripts, Delivery(w, t) PROVE IInv'
  BY <1>2, RefuseSound, GrantClaimSound, LoseClaimReplySound DEF Delivery
<1>3. ASSUME NEW w \in Workers, Handling(w) \/ WorkerDies(w) PROVE IInv'
  BY <1>3, HandlingSound, HandlerCalmSound
<1>4. ASSUME NEW v \in Versions, Deferred(v) \/ DeferredWorkDies(v) PROVE IInv'
  BY <1>4, DeferredSound, DeferredWorkDiesSound
<1>5. CASE LeaseExpires
  BY <1>5, LeaseExpiresSound
<1>6. CASE AnalysisLeaseExpires
  BY <1>6, AnalysisLeaseSound
<1>7. CASE Utterance \/ PerceptionArrives \/ PerceptionReads \/ PerceptionWrites
  BY <1>7, OutsideSound
<1> QED
  BY <1>1, <1>2, <1>3, <1>4, <1>5, <1>6, <1>7 DEF Next

\* Every reachable state satisfies the inductive invariant.
THEOREM Invariance == Spec => []IInv
<1>1. Init => IInv
  BY InitSound
<1>2. IInv /\ [Next]_vars => IInv'
  BY StepSound
<1> QED
  BY <1>1, <1>2, PTL DEF Spec

\* Every variable stays in its type; no analysis version overtakes the claims.
THEOREM TypesHold == Spec => []TypeOK
<1>1. IInv => TypeOK
  BY DEF IInv
<1> QED
  BY <1>1, Invariance, PTL

\* A text the vendor was answered for is covered by the evidence shown.
THEOREM AcknowledgedStaysCovered == Spec => []AcknowledgedIsCovered
<1>1. IInv => AcknowledgedIsCovered
  BY DEF IInv, Covered
<1> QED
  BY <1>1, Invariance, PTL

\* Two handlers never both hold the claim, so at most one of those running at
\* a time can commit its transcript.
OneFinalizer == \A w, u \in Workers : Working(w) /\ Working(u) /\ HoldsClaim(w) /\ HoldsClaim(u) => w = u

\* However leases expire, at most one handler at work holds the claim.
THEOREM FinalizersExclude == Spec => []OneFinalizer
<1>1. IInv => OneFinalizer
  BY DEF IInv, Tokens, TokensUnique, OneFinalizer, HoldsClaim
<1> QED
  BY <1>1, Invariance, PTL

-----------------------------------------------------------------------------
(* What a step may never do.                                               *)

\* The evidence and the questions of a row are kept by every other update.
LEMMA RowKeeps ==
    ASSUME interview \in InterviewRows
    PROVE  /\ interview.evidence \in Nat
           /\ \A t, p :
                 LET r == [interview EXCEPT !.analysis = [text |-> t, perceived |-> p]]
                 IN  /\ r.evidence = interview.evidence /\ r.questions = interview.questions
                     /\ r.analysis.text = t
           /\ \A t : [interview EXCEPT !.questions = t].evidence = interview.evidence
           /\ \A t : [interview EXCEPT !.questions = t].questions = t
           /\ LET r == [interview EXCEPT !.perceived = TRUE]
              IN  r.evidence = interview.evidence /\ r.questions = interview.questions
           /\ LET r == [interview EXCEPT !.stamped = TRUE]
              IN  r.evidence = interview.evidence /\ r.questions = interview.questions
           /\ \A n :
                 LET r == [interview EXCEPT !.evidence = n]
                 IN  r.evidence = n /\ r.questions = interview.questions
BY DEF InterviewRows

\* The two clauses of NothingWeakens and of DownstreamFollowsAuthority.
StrengthGrows ==
    /\ interview'.evidence >= interview.evidence
    /\ claim'.authority # claim.authority /\ claim.authority # None =>
         ~AtLeastAsStrong(claim.authority, claim'.authority)

AuthorityWrites ==
    /\ interview'.questions # interview.questions => interview'.questions = claim.authority
    /\ analysing'.done > analysing.done => interview'.analysis.text = claim.authority

LEMMA DoneIsInt == IInv => analysing.done \in Int /\ analysing.done >= 0
BY TypeParts DEF IInv, AnalysisRows

LEMMA DeliveryEffect ==
    ASSUME IInv, NEW w \in Workers, NEW t \in Transcripts, Delivery(w, t)
    PROVE  StrengthGrows /\ AuthorityWrites
<1>1. claim \in ClaimRows /\ interview.evidence \in Nat
  BY TypeParts DEF IInv, TypeOK
<1>2. UNCHANGED <<interview, analysing>>
  BY DEF Delivery, RefuseClaim, GrantClaim, LoseClaimReply, Grant
<1>3. claim'.authority = claim.authority
  BY <1>1, RecoveredType, GrantEffect DEF Delivery, RefuseClaim, GrantClaim, LoseClaimReply
<1> QED
  BY <1>1, <1>2, <1>3, DoneIsInt DEF StrengthGrows, AuthorityWrites

LEMMA HandlingEffect ==
    ASSUME IInv, NEW w \in Workers, Handling(w) \/ WorkerDies(w)
    PROVE  StrengthGrows /\ AuthorityWrites
<1>1. claim \in ClaimRows /\ interview \in InterviewRows /\ interview.evidence \in Nat
  BY TypeParts DEF IInv, TypeOK
<1>2. analysing'.done = analysing.done
  BY DEF Handling, WorkerDies, Prepare, PrepareFails, Finalize, LoseFinalizeReply, CommitTranscript,
     FinalizeSuperseded, FinalizeFails, Release, ReleaseLost, StampAndAnswer, StampFails, Conclude
<1>3. CASE Prepare(w) \/ PrepareFails(w) \/ FinalizeSuperseded(w) \/ FinalizeFails(w)
           \/ Release(w) \/ ReleaseLost(w) \/ WorkerDies(w)
  <2>1. UNCHANGED interview
    BY <1>3 DEF Prepare, PrepareFails, FinalizeSuperseded, FinalizeFails, Release, ReleaseLost, WorkerDies
  <2>2. claim'.authority = claim.authority
    BY <1>1, <1>3, GivenUpType DEF Prepare, PrepareFails, FinalizeSuperseded, FinalizeFails, Release,
       ReleaseLost, WorkerDies
  <2> QED
    BY <1>1, <1>2, <2>1, <2>2, DoneIsInt DEF StrengthGrows, AuthorityWrites
<1>4. CASE Finalize(w) \/ LoseFinalizeReply(w)
  <2>1. CommitTranscript(w)
    BY <1>4 DEF Finalize, LoseFinalizeReply
  <2> QED
    BY <1>1, <1>2, <2>1, CommitEffect, DoneIsInt DEF StrengthGrows, AuthorityWrites
<1>5. CASE StampAndAnswer(w) \/ StampFails(w)
  <2>1. UNCHANGED claim /\ (UNCHANGED interview \/ interview' = [interview EXCEPT !.stamped = TRUE])
    BY <1>5 DEF StampAndAnswer, StampFails, Conclude
  <2>2. interview'.evidence = interview.evidence /\ interview'.questions = interview.questions
    BY <1>1, <2>1, RowKeeps
  <2> QED
    BY <1>1, <1>2, <2>1, <2>2, DoneIsInt DEF StrengthGrows, AuthorityWrites
<1> QED
  BY <1>3, <1>4, <1>5 DEF Handling

LEMMA DeferredEffect ==
    ASSUME IInv, NEW v \in Versions, Deferred(v) \/ DeferredWorkDies(v)
    PROVE  StrengthGrows /\ AuthorityWrites
<1>1. interview \in InterviewRows /\ analysing \in AnalysisRows /\ interview.evidence \in Nat
  BY TypeParts DEF IInv, TypeOK
<1>2. UNCHANGED claim
  BY DEF Deferred, DeferredWorkDies, ClaimAnalysis, ReadRow, GenerationFails, StoreAnalysis,
     ReleaseAnalysis, PersistQuestions
<1>3. 0 \in 0..MaxVersion /\ v \in 0..MaxVersion /\ analysing.done \in 0..MaxVersion /\ analysing.done \in Int
  BY <1>1, BoundAssumption DEF AnalysisRows, Versions
<1>4. CASE ReadRow(v) \/ GenerationFails(v) \/ DeferredWorkDies(v)
  BY <1>1, <1>2, <1>3, <1>4 DEF ReadRow, GenerationFails, DeferredWorkDies, StrengthGrows, AuthorityWrites
<1>5. CASE ClaimAnalysis(v)
  <2>1. UNCHANGED interview
    BY <1>5 DEF ClaimAnalysis
  <2>2. analysing'.done = analysing.done
    BY <1>1, <1>5 DEF ClaimAnalysis, AnalysisRows
  <2> QED
    BY <1>1, <1>2, <1>3, <2>1, <2>2 DEF StrengthGrows, AuthorityWrites
<1>6. CASE StoreAnalysis(v)
  <2>1. CASE MayStore(v) /\ interview' # interview
    <3>1. PICK p \in {interview.perceived, FALSE} :
            interview' = [interview EXCEPT !.analysis = [text |-> job[v].text, perceived |-> p]]
      BY <1>6, <2>1 DEF StoreAnalysis
    <3>2. /\ interview'.evidence = interview.evidence /\ interview'.questions = interview.questions
          /\ interview'.analysis.text = job[v].text
      BY <1>1, <3>1, RowKeeps
    <3>3. job[v].text = claim.authority
      BY <2>1 DEF MayStore, Authoritative
    <3> QED
      BY <1>1, <1>2, <3>2, <3>3 DEF StrengthGrows, AuthorityWrites
  <2>2. CASE interview' = interview
    <3>1. CASE analysing' = AnalysisGivenUp(v) /\ MayStore(v)
      <4>1. PICK p \in {interview.perceived, FALSE} :
              interview' = [interview EXCEPT !.analysis = [text |-> job[v].text, perceived |-> p]]
        BY <1>6, <3>1 DEF StoreAnalysis, MayStore
      <4>2. interview'.analysis.text = job[v].text
        BY <1>1, <4>1, RowKeeps
      <4> QED
        BY <1>1, <1>2, <2>2, <3>1, <4>2 DEF StrengthGrows, AuthorityWrites, MayStore, Authoritative
    <3>2. CASE analysing' = AnalysisGivenUp(analysing.done) \/ analysing' = analysing
      <4>1. analysing'.done = analysing.done
        BY <1>1, <1>3, <3>2, GivenUpAnalysis
      <4> QED
        BY <1>1, <1>2, <1>3, <2>2, <4>1 DEF StrengthGrows, AuthorityWrites
    <3> QED
      BY <1>6, <3>1, <3>2 DEF StoreAnalysis
  <2> QED
    BY <1>6, <2>1, <2>2 DEF StoreAnalysis
<1>7. CASE ReleaseAnalysis(v)
  <2>1. \/ analysing' = AnalysisGivenUp(0) \/ analysing' = AnalysisGivenUp(analysing.done)
        \/ analysing' = analysing
    BY <1>7 DEF ReleaseAnalysis
  <2>2. analysing'.done = 0 \/ analysing'.done = analysing.done
    BY <1>1, <1>3, <2>1, GivenUpAnalysis
  <2>3. UNCHANGED interview
    BY <1>7 DEF ReleaseAnalysis
  <2> QED
    BY <1>1, <1>2, <1>3, <2>2, <2>3 DEF StrengthGrows, AuthorityWrites
<1>8. CASE PersistQuestions(v)
  <2>1. UNCHANGED analysing
    BY <1>8 DEF PersistQuestions
  <2>2. CASE UNCHANGED interview
    BY <1>1, <1>2, <1>3, <2>1, <2>2 DEF StrengthGrows, AuthorityWrites
  <2>3. CASE Authoritative(v) /\ interview' = [interview EXCEPT !.questions = job[v].text]
    <3>1. interview'.evidence = interview.evidence /\ interview'.questions = job[v].text
      BY <1>1, <2>3, RowKeeps
    <3> QED
      BY <1>1, <1>2, <1>3, <2>1, <2>3, <3>1 DEF StrengthGrows, AuthorityWrites, Authoritative
  <2> QED
    BY <1>8, <2>2, <2>3 DEF PersistQuestions
<1> QED
  BY <1>4, <1>5, <1>6, <1>7, <1>8 DEF Deferred

LEMMA OutsideEffect ==
    ASSUME IInv, Utterance \/ PerceptionArrives \/ PerceptionReads \/ PerceptionWrites
    PROVE  StrengthGrows /\ AuthorityWrites
<1>1. interview \in InterviewRows /\ interview.evidence \in Nat
  BY TypeParts DEF IInv, TypeOK
<1>2. UNCHANGED <<claim, analysing>>
  BY DEF Utterance, PerceptionArrives, PerceptionReads, PerceptionWrites
<1>3. interview'.evidence >= interview.evidence /\ interview'.questions = interview.questions
  <2>1. CASE Utterance
    <3>1. PICK n \in (interview.evidence + 1)..MaxEvidence : interview' = [interview EXCEPT !.evidence = n]
      BY <2>1 DEF Utterance
    <3>2. interview'.evidence = n /\ interview'.questions = interview.questions
      BY <1>1, <3>1, RowKeeps
    <3> QED
      BY <1>1, <3>1, <3>2, BoundAssumption
  <2>2. CASE PerceptionReads
    BY <1>1, <2>2 DEF PerceptionReads
  <2>3. CASE PerceptionArrives
    <3>1. interview' = [interview EXCEPT !.perceived = TRUE]
      BY <2>3 DEF PerceptionArrives
    <3>2. interview'.evidence = interview.evidence /\ interview'.questions = interview.questions
      BY <1>1, <3>1, RowKeeps
    <3> QED
      BY <1>1, <3>2
  <2>4. CASE PerceptionWrites
    <3>1. interview' = [interview EXCEPT !.analysis = [text |-> perception.text, perceived |-> TRUE]]
      BY <2>4 DEF PerceptionWrites
    <3>2. interview'.evidence = interview.evidence /\ interview'.questions = interview.questions
      BY <1>1, <3>1, RowKeeps
    <3> QED
      BY <1>1, <3>2
  <2> QED
    BY <2>1, <2>2, <2>3, <2>4
<1> QED
  BY <1>2, <1>3, DoneIsInt DEF StrengthGrows, AuthorityWrites

LEMMA LeaseEffect ==
    ASSUME IInv, LeaseExpires \/ AnalysisLeaseExpires
    PROVE  StrengthGrows /\ AuthorityWrites
<1>1. claim \in ClaimRows /\ analysing \in AnalysisRows /\ interview.evidence \in Nat
  BY TypeParts DEF IInv, TypeOK
<1>2. UNCHANGED interview
  BY DEF LeaseExpires, AnalysisLeaseExpires
<1>3. claim'.authority = claim.authority /\ analysing'.done = analysing.done
  BY <1>1 DEF LeaseExpires, AnalysisLeaseExpires, ClaimRows, AnalysisRows
<1> QED
  BY <1>1, <1>2, <1>3, DoneIsInt DEF StrengthGrows, AuthorityWrites

LEMMA StepEffect == IInv /\ [Next]_vars => StrengthGrows /\ AuthorityWrites
<1> SUFFICES ASSUME IInv, [Next]_vars PROVE StrengthGrows /\ AuthorityWrites
  OBVIOUS
<1>1. CASE UNCHANGED vars
  <2>1. interview.evidence \in Nat
    BY DEF IInv, TypeOK
  <2> QED
    BY <1>1, <2>1, DoneIsInt DEF vars, StrengthGrows, AuthorityWrites
<1> QED
  BY <1>1, DeliveryEffect, HandlingEffect, DeferredEffect, OutsideEffect, LeaseEffect DEF Next

\* Neither evidence nor authority is replaced by weaker.
THEOREM StrengthNeverFalls == Spec => NothingWeakens
<1>1. IInv /\ [Next]_vars =>
        /\ interview'.evidence >= interview.evidence
        /\ claim'.authority # claim.authority /\ claim.authority # None =>
             ~AtLeastAsStrong(claim.authority, claim'.authority)
  BY StepEffect DEF StrengthGrows
<1> QED
  BY <1>1, Invariance, PTL DEF Spec, NothingWeakens

\* Questions and versioned analyses are written from the authority only.
THEOREM OnlyTheAuthorityWrites == Spec => DownstreamFollowsAuthority
<1>1. IInv /\ [Next]_vars =>
        /\ interview'.questions # interview.questions => interview'.questions = claim.authority
        /\ analysing'.done > analysing.done => interview'.analysis.text = claim.authority
  BY StepEffect DEF AuthorityWrites
<1> QED
  BY <1>1, Invariance, PTL DEF Spec, DownstreamFollowsAuthority
=============================================================================
