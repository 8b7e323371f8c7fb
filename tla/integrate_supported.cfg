SPECIFICATION Spec
CONSTANTS
    Manifests <- MCManifests
    ScannerTests <- MCScannerTests
    MatrixTests <- MCMatrixTests
    PlanTests <- MCPlanTests
    Paths <- MCPaths
    Python <- MCPython
    Tomls <- MCTomls
    LookAlikes <- MCLookAlikes
    Names <- MCNames
    Repos <- MCRegular
    Planners = {"fake", "openrouter"}
    MaxCites = 2
    MaxTexts = 2
    MaxEdits = 1
INVARIANTS
    TypeOK
    HonestExit
    SupportedIsIntegrated
    TracedAtMostOnce
    NothingWrittenWithoutReport
    VerifyAgrees
    VerifySound
