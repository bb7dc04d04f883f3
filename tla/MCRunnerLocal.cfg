\* Operators on a local daemon with various command lines.
SPECIFICATION Spec
CONSTANTS
    llvm11 = llvm11
    stable = stable
    readme = readme
    Pkgs <- MCPkgs
    Kind <- MCKind
    Rank <- MCRank
    Servers = {s1}
    ArgSet <- LocalArgs
    Keep = "temp"
    Faults = {"error", "kill", "stop", "rejected"}
    MaxFaults = 3
    MaxBumps = 0
INVARIANTS
    OnlyGoodPublished
    EnvironmentUp
    PortFree
