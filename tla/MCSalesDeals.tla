--------------------------- MODULE MCSalesDeals ---------------------------
(* SalesDeals with interchangeable requests, keys and deals.     *)
EXTENDS SalesDeals, TLC

Symmetry ==
    Permutations(Requests) \cup Permutations(Reps) \cup Permutations(Keys)
        \cup Permutations(Previews) \cup Permutations(Deals)
=============================================================================
