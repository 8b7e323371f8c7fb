SPECIFICATION Spec
CONSTANTS
    Manifests <- MCManifests
    ScannerTests <- MCScannerTests
    MatrixTests <- MCMatrixTests
    PlanTests <- MCPlanTests
    Paths <- MCPaths
    Python <- MCPython
    Tomls <- MCTomls
    LookAlikes <- MCLookAlikes
    Names <- MCNames
    Repos <- MCInline
    Planners = {"fake"}
    MaxCites = 0
    MaxTexts = 1
    MaxEdits = 0
INVARIANT
    NothingWrittenWithoutReport
