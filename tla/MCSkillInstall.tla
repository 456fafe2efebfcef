--------------------------- MODULE MCSkillInstall ---------------------------
EXTENDS SkillInstall, TLC

CONSTANTS us, tn, v1, v2, b1, b2

NearestFirst == <<us, tn>>

Symmetry == Permutations({v1, v2}) \cup Permutations({b1, b2})
=============================================================================
