\* Nothing fails, and a file is renamed into place.
\* Builds may come to an end: that is where a behaviour may stop.
SPECIFICATION Spec
CONSTANTS
    llvm = llvm
    rust = rust
    index = index
    Files <- MCFiles
    Batch = 2
    QueueMax = 3
    MaxWrites = 4
    MaxFaults = 0
CHECK_DEADLOCK FALSE
INVARIANTS
    ChangesArePublished
