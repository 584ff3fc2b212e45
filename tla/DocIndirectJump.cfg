SPECIFICATION Spec
CONSTANTS
    Opcodes <- MCOpcodes
    ExitOnStackWrap = TRUE
    CyclesMax = 100
    GarbagePC <- MCGarbagePC
    Images <- MCImages
    EntryPoints = {4096}
    Budgets = {30}
    Banks = {}
    MaxWrites = 1
    MaxRuns = 1
    Roms <- MCRoms
    DeviceBytes = {0}
    PC_AccessMode = "BANKED"
    Read_AccessMode = "CALLBACK"
    Write_AccessMode = "CALLBACK"
PROPERTY
    IndirectJumpStaysInPage
CHECK_DEADLOCK FALSE
