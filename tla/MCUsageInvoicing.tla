-------------------------- MODULE MCUsageInvoicing --------------------------
(* UsageInvoicing on a small instance: two interviews, of one role or of    *)
(* two.                                                                     *)
EXTENDS UsageInvoicing, TLC

CONSTANTS i1, i2, r1, r2

OneRoleOrTwo == {i1 :> r1 @@ i2 :> r1, i1 :> r1 @@ i2 :> r2}
=============================================================================
