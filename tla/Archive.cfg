CONSTANTS
    n1 = n1
    n2 = n2
    x1 = x1
    x2 = x2
    NoFile = NoFile
    Notes = {n1, n2}
    Archives = {x1, x2}
    MaxArchives = 3
    MaxFaults = 2
SPECIFICATION Spec
SYMMETRY Symmetry
CHECK_DEADLOCK FALSE
INVARIANTS
    LossNeedsOverlap
    ArchiveMoves
