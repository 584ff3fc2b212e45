SPECIFICATION Spec
CONSTANTS
    Opcodes <- MCOpcodes
    Sheet <- MCSheet
    ExitOnStackWrap = TRUE
    CyclesMax = 200
    GarbagePC <- MCGarbagePC
    Images <- MCImages
    EntryPoints = {4096}
    Budgets = {40}
    Banks = {}
    MaxWrites = 1
    MaxRuns = 1
    Roms <- MCRoms
    Watched <- MCWatched
    DeviceBytes = {0}
    PC_AccessMode = "BANKED"
    Read_AccessMode = "CALLBACK"
    Write_AccessMode = "CALLBACK"
INVARIANTS
    TypeOK
    DecimalCoherent
    StatusShape
    BudgetKept
PROPERTIES
    ImplementsCpu6502
    RunStops
CHECK_DEADLOCK FALSE
