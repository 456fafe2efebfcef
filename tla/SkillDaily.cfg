CONSTANTS
    tn = tn
    us = us
    a = a
    b = b
    Scopes = {tn, us}
    Layers <- TwoLayers
    Patches <- SomePatches
    Sources = {a, b}
    DefaultSources = {a}
    Unset = Unset
    DefaultTime = 1
    DayLength = 2
    Night = 1
    Zones = {0, 1}
    MaxTime = 5
    MaxUpserts = 2
    MaxFaults = 2
SPECIFICATION FairSpec
CHECK_DEADLOCK FALSE
INVARIANTS
    RunsAreEarned
    AcknowledgedSurvives
    SourcesWithinParent
PROPERTY DueIsServed
