--------------------- MODULE MCTranscriptReconciliation ---------------------
(* Three texts: a sparse one, and two with the same counts of answers of   *)
(* which one has more words.                                               *)
EXTENDS TranscriptReconciliation, TLC
CONSTANTS sparse, full, longer
MCKnown == sparse :> 1 @@ full :> 3 @@ longer :> 3
MCWords == sparse :> 1 @@ full :> 5 @@ longer :> 6
=============================================================================
