---------------------------- MODULE BilledClient ----------------------------
(* The client whose interviews UsageInvoicing bills and InterviewCredits    *)
(* pays for: what both are parameterised by.                                *)

CONSTANTS
    Interviews,   \* in UsageInvoicing, the metered ones
    Roles,
    None          \* a null reference
=============================================================================
