CONSTANTS
    us = us
    tn = tn
    v1 = v1
    v2 = v2
    b1 = b1
    b2 = b2
    Scopes = {us, tn}
    Chain <- NearestFirst
    Versions = {v1, v2}
    Bodies = {b1, b2}
    MaxFaults = 2
    Absent = Absent
SPECIFICATION Spec
SYMMETRY Symmetry
INVARIANTS
    AcknowledgedSurvives
    RunGetsAcknowledged
