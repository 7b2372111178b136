---------------------------- MODULE ChargeLedger ----------------------------
(***************************************************************************)
(* What usage billing promises about a client's interviews, whatever       *)
(* happens to the requests and processes that carry it out: an interview   *)
(* is reserved by one invoice, for good, and charged at most once, on the  *)
(* invoice that reserved it.                                               *)
(***************************************************************************)
CONSTANTS Interviews, Invoices, Charges, None

VARIABLES
    owner,     \* the invoice an interview is reserved on, or None
    charged    \* the charges an interview appears on

vars == <<owner, charged>>

Init ==
    /\ owner = [i \in Interviews |-> None]
    /\ charged = [i \in Interviews |-> {}]

\* Invoice v reserves the interviews S.
Reserve(v, S) ==
    /\ \A i \in S : owner[i] = None
    /\ owner' = [i \in Interviews |-> IF i \in S THEN v ELSE owner[i]]
    /\ UNCHANGED charged

\* A fresh charge c on invoice v for interviews it reserved and never charged.
Charge(v, S, c) ==
    /\ \A i \in S : owner[i] = v /\ charged[i] = {}
    /\ charged' = [i \in Interviews |-> IF i \in S THEN {c} ELSE charged[i]]
    /\ UNCHANGED owner

Next ==
    \E v \in Invoices, S \in SUBSET Interviews :
        \/ Reserve(v, S)
        \/ \E c \in Charges : Charge(v, S, c)

Spec == Init /\ [][Next]_vars
=============================================================================
