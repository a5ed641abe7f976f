CONSTANTS
    Converters = {app}
    Worker = app
    Roots = {here, there}
    DefaultRoot = here
    Sources = {s1, s2}
    MaxGeneration = 3
SPECIFICATION AppSpec
INVARIANTS
    ActiveIsWhole
    ReaderNeverFails
    WindowIsTruthful
    NextNumberFree
PROPERTIES
    ConversionIsAtomic
