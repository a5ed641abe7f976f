CONSTANTS
    Converters = {c1, c2}
    Sources = {s1, s2}
    MaxGeneration = 1
SPECIFICATION Spec
INVARIANTS
    UniqueGenerations
