----------------------------- MODULE MCToolGate -----------------------------
EXTENDS ToolGate, TLC

CONSTANTS loc, t1, x, y, a1, a2, r1

Row(h, d, e) == [home |-> h, default |-> d, enabled |-> e]
SomeSettings ==
    {Row("workspace", TRUE, TRUE), Row("workspace", TRUE, FALSE), Row("workspace", FALSE, TRUE),
     Row("tenant", TRUE, TRUE)}

\* x is a high-risk tool with no entry of its own, y has one.
DefaultPolicy == [f \in Fields |-> IF f = x THEN None ELSE IF f = "toolDefault" THEN "deny" ELSE "allow"]
Nothing == [f \in Fields |-> None]
SomePatches ==
    {[Nothing EXCEPT ![x] = "deny"], [Nothing EXCEPT !["highRisk"] = "deny"],
     [Nothing EXCEPT ![x] = "allow"]}

Symmetry == Permutations(Admins)
=============================================================================
