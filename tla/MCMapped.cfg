SPECIFICATION Spec
CONSTANTS
    Opcodes <- MCOpcodes
    Sheet <- MCSheet
    ExitOnStackWrap = TRUE
    CyclesMax = 100
    GarbagePC <- MCGarbagePC
    Images <- MCImages
    EntryPoints = {4096}
    Budgets = {16}
    Banks = {1, 254, 255}
    MaxWrites = 1
    MaxRuns = 2
    Roms <- MCRoms
    Watched <- MCWatched
    DeviceBytes = {128}
    PC_AccessMode = "BANKED"
    Read_AccessMode = "CALLBACK"
    Write_AccessMode = "CALLBACK"
PROPERTY
    MemoryIsFlat
CHECK_DEADLOCK FALSE
