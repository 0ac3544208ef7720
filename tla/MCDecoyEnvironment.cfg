CONSTANTS
    h1 = h1
    h2 = h2
    Hosts = {h1}
    Dims = {"memory_mb", "max_duration_seconds"}
    Unbounded = Unbounded
    Secrets = {secret}
    Keys = {secret, number}
    NoKey = NoKey
    Zeros = Zeros
    Missing = Missing
    None = None
    Baseline = "base"
    MaxSteps = 2
    Packages <- MCPackages
    Catalogs <- MCCatalogs
    Decisions <- MCDecisions
SPECIFICATION Spec
INVARIANTS
    TypeOK
    DigestFixesTheStep
    RunsWithinItsPackage
PROPERTY EveryMoveWasDecided
