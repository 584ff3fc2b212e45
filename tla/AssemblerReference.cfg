SPECIFICATION Spec
CONSTANTS
    Values = {0, 1, 127, 128, 255, 256, 4096, 4098, 4223, 4224, 4225, 4226, 3970, 3971, 3969, 32768, 65535}
    Origins = {0, 4096, 65408}
INVARIANTS
    EncodesTheLine
    BranchLands
    ListingReassembles
CHECK_DEADLOCK FALSE
