----------------------------- MODULE MCBilling -----------------------------
(* Small instances of Billing. *)
EXTENDS Billing, TLC

CONSTANTS t1, t2, oA, oB, s1, s2, plan1, plan2

\* The second type is one the status map does not know.
TwoTypes == {"BILLING.SUBSCRIPTION.SUSPENDED", "BILLING.SUBSCRIPTION.RE-ACTIVATED"}
OwnPlans == s1 :> plan1 @@ s2 :> plan2
Symmetry == Permutations(Threads) \cup Permutations(Orgs)
=============================================================================
