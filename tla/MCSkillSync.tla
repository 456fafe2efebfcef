---------------------------- MODULE MCSkillSync -----------------------------
EXTENDS SkillSync, TLC

CONSTANTS tn, us, a, b

\* A tenant and one of its users; the workspace between them is not configured.
TwoLayers == tn :> <<tn>> @@ us :> <<tn, us>>

SomePatches ==
    {[None EXCEPT !.auto = FALSE], [None EXCEPT !.time = 0], [None EXCEPT !.zone = 1],
     [None EXCEPT !.auto = TRUE, !.sources = {}], [None EXCEPT !.sources = {b}]}
=============================================================================
