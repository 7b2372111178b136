---------------------- MODULE MCCandidateAutomation ----------------------
(* CandidateAutomation with interchangeable requests, links and digests.   *)
EXTENDS CandidateAutomation, TLC

Symmetry == Permutations(Candidates) \cup Permutations(Requests) \cup Permutations(Links) \cup Permutations(Digests)
=============================================================================
