----------------------------- MODULE MCAccounts -----------------------------
EXTENDS Accounts, TLC

CONSTANTS r1, r2, u0, u1, u2, admin, bob, p0, p1, w0, w1, t1, t2, t3

SomeLists == {<<w1>>, <<w0, w1>>}

Symmetry == Permutations({r1, r2}) \cup Permutations({u1, u2}) \cup Permutations({t1, t2, t3})
=============================================================================
