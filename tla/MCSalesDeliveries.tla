------------------------ MODULE MCSalesDeliveries ------------------------
(* SalesDeliveries for the sale of a representative whose Slack id is      *)
(* known, with the team's channel switched off; jobs are interchangeable.  *)
EXTENDS SalesDeliveries, TLC

Announcements == {"dm", "ghl"}
Symmetry == Permutations(Jobs)
=============================================================================
