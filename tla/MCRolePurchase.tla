-------------------------- MODULE MCRolePurchase --------------------------
(* RolePurchase with interchangeable orders and sessions.                  *)
EXTENDS RolePurchase, TLC

Symmetry == Permutations(Orders) \cup Permutations(Sessions)
=============================================================================
