---------------------- MODULE MCPurchaseActivation ----------------------
(* The instances of PurchaseActivation that TLC checks. *)
EXTENDS PurchaseActivation, TLC

(* For the run without a liveness property: requests of a kind are alike. *)
Alike == Permutations(Checkouts) \cup Permutations(Requests)

=============================================================================
