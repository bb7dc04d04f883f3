\* Two jobs that may overlap, beta is not built, a failure of any kind.
SPECIFICATION FairSpec
CONSTANTS
    Jobs = {j1, j2}
    NChannels = 2
    Ignored = {2}
    Chan <- MCChan
    Minor <- MCMinor
    MaxRelease = 2
    MaxMinor = 2
    MaxRev = 2
    Faults = {"error", "torn", "push", "short", "missing"}
    MaxFaults = 1
INVARIANTS
    TypeOK
    SumsTested
PROPERTIES
    NeverBack
    PanicsForAReason
    NewestIsBuilt
