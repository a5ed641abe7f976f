CONSTANTS
    Answered <- MCAnswered
    Window <- MCWindow
    Unmapped <- MCUnmapped
    Counters = {0, 1}
    Explorations <- MCExplorations
CHECK_DEADLOCK FALSE
SPECIFICATION FairSpec
INVARIANTS
    WorkBounded
    NodesReplay
    HonestTermination
PROPERTIES
    EndsOrSpins
    EvidenceKept
