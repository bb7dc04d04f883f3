\* Two packages and the index; a buffer of two events, a queue of three.
\* Builds may come to an end: that is where a behaviour may stop.
SPECIFICATION FairSpec
CONSTANTS
    llvm = llvm
    rust = rust
    index = index
    Files <- MCFiles
    Batch = 2
    QueueMax = 3
    MaxWrites = 4
    MaxFaults = 1
CHECK_DEADLOCK FALSE
INVARIANTS
    TypeOK
    WritesArePublished
PROPERTIES
    LoopShrinks
    Terminates
