\* Two jobs that may overlap, a failure of any kind.
SPECIFICATION Spec
CONSTANTS
    stable = stable
    readme = readme
    rust = rust
    cargo = cargo
    crate = crate
    Pkgs <- MCPkgs
    Old <- MCOld
    Files <- TwoFiles
    Owner <- MCOwner
    Main <- MCMain
    Index <- MCIndex
    Rank <- MCRank
    Jobs = {j1, j2}
    Faults = {"error", "kill", "short", "rejected", "etag"}
    MaxFaults = 1
    MaxBuilds = 2
SYMMETRY Symmetry
INVARIANTS
    TypeOK
    IndexClosed
    SkippedIsPublished
PROPERTIES
    StaysInstallable
