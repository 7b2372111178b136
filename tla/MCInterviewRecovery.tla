------------------------ MODULE MCInterviewRecovery ------------------------
(* InterviewRecovery on a small instance: one request for the first attempt *)
(* and one for each of the three starts a replacement may have.             *)
EXTENDS InterviewRecovery, TLC
=============================================================================
