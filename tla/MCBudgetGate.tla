---------------------------- MODULE MCBudgetGate ----------------------------
EXTENDS BudgetGate, TLC

CONSTANTS r1, r2, a1, a2

\* The third day opens a new month.
Calendar == 0 :> 0 @@ 1 :> 0 @@ 2 :> 1

SentPatches == {{"daily"}, {"hard"}}

Symmetry == Permutations(Runs) \cup Permutations(Admins)
=============================================================================
