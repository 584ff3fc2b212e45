SPECIFICATION ProgramsSpec
CONSTANTS
    Opcodes <- MCOpcodes
    ExitOnStackWrap = TRUE
    CyclesMax = 4000
    GarbagePC <- MCGarbagePC
    Images <- MCImages
    EntryPoints = {4096}
    Budgets = {90, 3000}
    Banks = {}
    MaxWrites = 1
    MaxRuns = 1
    Roms <- MCRoms
    DeviceBytes = {0}
    PC_AccessMode = "DIRECT"
    Read_AccessMode = "DIRECT"
    Write_AccessMode = "DIRECT"
INVARIANTS
    ListSorted
    WeekdayFound
PROPERTY
    ReturnsToCaller
CHECK_DEADLOCK FALSE
