\* The scheduled job on upcloud, every kind of failure that is noticed, a repodir stored after success.
SPECIFICATION FairSpec
CONSTANTS
    llvm11 = llvm11
    stable = stable
    readme = readme
    Pkgs <- MCPkgs
    Kind <- MCKind
    Rank <- MCRank
    Servers = {s1, s2, s3}
    ArgSet <- CIArgs
    Keep = "onSuccess"
    Faults = {"error", "create", "delete", "refused", "panic", "kill", "stop"}
    MaxFaults = 2
    MaxBumps = 1
INVARIANTS
    TypeOK
    CleanExitLeavesNoServer
    EnvironmentUp
    OnlyGoodPublished
    ImageFromPublished
    NoRebuildOfPublished
    UpToDateMeansPublished
PROPERTIES
    Converges
    ImplementsRepository
    FailsForAReason
