--------------------------- MODULE MCIdempotency ----------------------------
EXTENDS Idempotency, TLC

CONSTANTS c1, c2, n1, n2, k1, k2, x1, x2

TwoNames == c1 :> n1 @@ c2 :> n2

\* Two callers meet under k1 and take turns, one of them sometimes with the
\* other's name; c2 has k2 for itself.
MeetingRoutes ==
    {<<c1, k1, Unnamed>>, <<c2, k1, Unnamed>>, <<c2, k1, n1>>, <<c2, k2, Unnamed>>}

Symmetry == Permutations({x1, x2})
=============================================================================
