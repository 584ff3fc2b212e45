SPECIFICATION Spec
CONSTANTS
    Sources <- MCSources
    Class <- MCClass
    GarbageValues <- MCGarbage
INVARIANT BranchesReachLabels
