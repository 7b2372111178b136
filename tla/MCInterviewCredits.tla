------------------------ MODULE MCInterviewCredits -------------------------
(* InterviewCredits with interchangeable roles, interviews and requests. *)
EXTENDS InterviewCredits, TLC

Symmetry == Permutations(Roles) \cup Permutations(Interviews) \cup Permutations(Requests)
=============================================================================
