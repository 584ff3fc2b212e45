SPECIFICATION Spec
CONSTANTS
    Sources <- MCSources
    Class <- MCClass
    GarbageValues <- MCGarbage
INVARIANTS
    TypeOK
    PassesBounded
    VerdictRight
    ConvergedIsConsistent
PROPERTY
    ParseEnds
