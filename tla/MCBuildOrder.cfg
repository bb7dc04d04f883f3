\* The scheduled job, which ignores beta: three releases, three failures, a new alpine.
SPECIFICATION FairSpec
CONSTANTS
    stable = stable
    beta = beta
    First = 48
    Current = 49
    Last = 53
    BootSys <- MCBootSys
    Ignore <- MCIgnoreBeta
    Lag = 0
    Faults = {"missing", "error", "push"}
    MaxFaults = 3
    MaxBumps = 1
INVARIANTS
    TypeOK
    BootReady
    PatchesReady
    PatchesExist
PROPERTIES
    Published
