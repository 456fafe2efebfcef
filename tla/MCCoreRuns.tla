----------------------------- MODULE MCCoreRuns -----------------------------
EXTENDS CoreRuns, TLC

CONSTANTS w1, w2, r1, r2, x1

Symmetry == Permutations({w1, w2}) \cup Permutations({r1, r2})
=============================================================================
