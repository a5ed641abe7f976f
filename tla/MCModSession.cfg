CONSTANTS
    Ids = {1, 2, 3, 4}
    Paths = {"menu", "rules"}
    NoMod = 0
    MaxLoads = 2
    Problems <- MCProblems
CHECK_DEADLOCK FALSE
SPECIFICATION Spec
INVARIANTS
    ResolutionExact
    DependenciesFirst
    OverlayFollowsDependencies
    NeedsRun
    NothingLost
