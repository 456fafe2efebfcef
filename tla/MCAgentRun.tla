----------------------------- MODULE MCAgentRun -----------------------------
EXTENDS AgentRun, TLC

CONSTANTS c1, c2, s1, s2, r1, r2, m1

\* Every session is used from one connection, its home.
HomeRoutes == {<<c1, s1>>, <<c2, s2>>}
OneRoute == {<<c1, s1>>}

Symmetry == Permutations({r1, r2})
=============================================================================
