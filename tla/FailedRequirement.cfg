SPECIFICATION MonitorSpec
CONSTANTS
    Opcodes <- MCOpcodes
    ExitOnStackWrap = TRUE
    CyclesMax = 2147483646
    GarbagePC = {0}
    Images = {}
    EntryPoints = {}
    Budgets = {}
    Banks = {}
    MaxWrites = 0
    MaxRuns = 4
    Roms <- MCRoms
    DeviceBytes = {0}
    PC_AccessMode = "BANKED"
    Read_AccessMode = "CALLBACK"
    Write_AccessMode = "CALLBACK"
    Sources <- SubOnly
    Class <- MCClass
    GarbageValues <- MCGarbage
    Commands = {}
    MainBudget = 100000
    TestBudget = 1000000000
    DefaultBudget = 24
    TestImage <- MCTestImage
    MaxCommands = 0
CHECK_DEADLOCK FALSE
PROPERTY
    RequirementsEnforced
