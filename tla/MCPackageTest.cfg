\* Three concurrent tests, up to two failures of docker.
\* test_package returns: that is where a behaviour may stop.
SPECIFICATION FairSpec
CONSTANTS
    N = 3
    Faults = {"error", "early", "nocode", "panic"}
    MaxFaults = 2
CHECK_DEADLOCK FALSE
INVARIANTS
    TypeOK
    AcceptedMeansPassed
    RejectedForAReason
    NothingRunsOn
PROPERTIES
    Returns
    ImplementsVerdict
