--------------------------- MODULE MCSmsDelivery ----------------------------
EXTENDS SmsDelivery, TLC
(* Requests are interchangeable. *)
SendSymmetry == Permutations(Sends)
=============================================================================
