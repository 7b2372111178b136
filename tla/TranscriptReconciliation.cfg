SPECIFICATION FairSpec
CONSTANTS
  Workers = {w1, w2}
  Transcripts = {sparse, full, longer}
  None = None
  sparse = sparse  full = full  longer = longer
  Known <- MCKnown
  Words <- MCWords
  Substantive = {full, longer}
  Faults = {"lost_claim", "prepare", "finalize", "lost_finalize", "lost_release", "stamp", "analysis", "slow", "crash"}
  MaxVersion = 4
  MaxMishaps = 1
  MaxEvidence = 3
  PerceptionEvent = TRUE
INVARIANT AcknowledgedIsCovered
PROPERTIES EveryTextIsAnswered NothingWeakens DownstreamFollowsAuthority
CHECK_DEADLOCK FALSE
