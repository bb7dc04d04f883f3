\* Only calls that return Err: a machine survives the run.
SPECIFICATION Spec
CONSTANTS
    llvm11 = llvm11
    stable = stable
    readme = readme
    Pkgs <- MCPkgs
    Kind <- MCKind
    Rank <- MCRank
    Servers = {s1, s2}
    ArgSet <- DroneArgs
    Keep = "onSuccess"
    Faults = {"error"}
    MaxFaults = 1
    MaxBumps = 0
INVARIANTS
    NoServerSurvivesRun
