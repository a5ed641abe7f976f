CONSTANTS
    Input <- MCInput
    LocalInputs <- MCLocalInputs
    NoInput <- MCNoInput
    SimState <- MCSimState
    InitState <- MCInitState
    Step <- MCStep
    HashText <- MCHashText
    Hash <- MCHash
    ReportedText <- MCReportedText
    ReportedFrames = {0, 1}
    PartialState <- MCPartialState
    MaxRollback = 2
    MaxFrame = 3
SPECIFICATION CallsSpec
INVARIANTS
    TypeOK
    WindowExact
    MatchesAuthoritativeRun
    HashesAuthoritative
    DesyncIsEarliest
PROPERTIES
    CallsAreWhole
    SettledHashesFixed
