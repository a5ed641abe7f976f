CONSTANTS
    Controllers = {c1, c2}
    Ports = {p1, p2}
SPECIFICATION Spec
INVARIANTS
    TypeOK
    ViewTracksSession
PROPERTIES
    SessionNotReplaced
