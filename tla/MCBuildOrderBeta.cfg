\* Nothing fails and nothing is ignored: beta is built before its compiler.
SPECIFICATION Spec
CONSTANTS
    stable = stable
    beta = beta
    First = 48
    Current = 49
    Last = 52
    BootSys <- MCBootSys
    Ignore <- MCIgnoreNothing
    Lag = 0
    Faults = {"missing", "error", "push"}
    MaxFaults = 0
    MaxBumps = 0
INVARIANTS
    BootReady
