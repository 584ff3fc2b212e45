------------------------- MODULE MachineRefinement -------------------------
(***************************************************************************)
(* Machine implements the 6502 of src/opcodes.txt but for the departures   *)
(* that Departures names: the flags a program can see are those of         *)
(* get_SR(), the low 16 bits of the pc are the program counter, and a run  *)
(* whose cycles have reached the budget is leaving.  Its banks implement   *)
(* FlatMemory, as far as code fetches show them.                           *)
(***************************************************************************)
EXTENDS Machine

CONSTANTS
    Sheet,   \* the instructions of src/opcodes.txt by code
    Watched  \* the addresses at which the memory is compared

ASSUME WatchedAssumption == Watched \subseteq Adr

Cpu == INSTANCE Departures WITH
    EmptyStackExit <- ExitOnStackWrap,
    pc             <- pc % 65536,
    P              <- get_SR \ {"BRK", "xXx"},
    phase          <- IF phase = "running" /\ cycles >= toCycles
                         THEN "leaving" ELSE phase

\* The functions that stand for one mnemonic.
Alone == [Nop |-> "NOP", Bit |-> "BIT", Adc |-> "ADC", Sbc |-> "SBC",
          And |-> "AND", Ora |-> "ORA", Eor |-> "EOR",
          Asl |-> "ASL", Lsr |-> "LSR", Rol |-> "ROL", Ror |-> "ROR",
          Pha |-> "PHA", Pla |-> "PLA", Php |-> "PHP", Plp |-> "PLP",
          Brk |-> "BRK", Rti |-> "RTI", Rts |-> "RTS", Jsr |-> "JSR", Jmp |-> "JMP"]

\* SEI and CLI have each other's code.
Exchanged(n) == IF n = "SEI" THEN "CLI" ELSE IF n = "CLI" THEN "SEI" ELSE n

\* A row calls the function of the mnemonic that the sheet has at its code.
Matches(r, entry) ==
    LET n == entry.name
    IN  /\ r.mode = entry.mode
        /\ r.op.fn \in DOMAIN Alone => n = Alone[r.op.fn]
        /\ n = "BRK" => r.op.fn = "Brk"
        /\ r.op.fn = "Load" => n \in DOMAIN Cpu!Loads /\ r.op.reg = Cpu!Loads[n]
        /\ r.op.fn = "Store" => n \in DOMAIN Cpu!Stores /\ r.op.reg = Cpu!Stores[n]
        /\ r.op.fn = "Cmp" => n \in DOMAIN Cpu!Comparisons /\ r.op.reg = Cpu!Comparisons[n]
        /\ r.op.fn = "Transfer" =>
              n \in DOMAIN Cpu!Transfers /\ <<r.op.from, r.op.to>> = Cpu!Transfers[n]
        /\ r.op.fn = "Inc" /\ r.mode = "NONE" =>
              n \in DOMAIN Cpu!RegisterSteps /\ <<r.op.reg, r.op.inc>> = Cpu!RegisterSteps[n]
        /\ r.op.fn = "Inc" /\ r.mode # "NONE" =>
              n \in DOMAIN Cpu!MemorySteps /\ r.op.inc = Cpu!MemorySteps[n]
        /\ r.op.fn = "Branch" =>
              n \in DOMAIN Cpu!Branches /\ <<r.op.flag, r.op.on>> = Cpu!Branches[n]
        /\ r.op.fn = "Set" =>
              /\ n \in DOMAIN Cpu!FlagChanges
              /\ <<r.op.flag, r.op.on>> = Cpu!FlagChanges[Exchanged(n)]

\* getInstructions() lists the codes and modes of the sheet.
ASSUME TablesAssumption ==
    \A t \in DOMAIN Opcodes :
        /\ DOMAIN Opcodes[t] = DOMAIN Sheet
        /\ \A c \in DOMAIN Sheet : Matches(Opcodes[t][c], Sheet[c])

\* opcodes.txt:327-339: addresses wrap.  The code indexes its arrays with ints:
\* at the end of memory, or with a pc that setPC or a branch made negative, it
\* accesses what lies beyond them.
BytesRead(entry) == IF entry.name = "BRK" THEN 2 ELSE Cpu!Length(entry.mode)

LeavesMemory ==
    /\ InLoop
    /\ pc \in Adr =>
          /\ Fetch(ram, pc) \in DOMAIN Sheet
          /\ LET entry == Sheet[Fetch(ram, pc)]
             IN  \/ pc + BytesRead(entry) > 65536
                 \/ entry.mode = "IND" /\ PC16(pc + 1) = 65535
                 \/ \E ea \in ReadEA(entry.mode) : ea > 65535
    /\ phase' = "undefined"
    /\ UNCHANGED <<reg, pc, memory, status>>

\* The lazily evaluated flags, the swapped jump tables and the run loop of
\* emulator.h behave, to the program they run, as the sheet's processor, or in
\* one of the ways that Departures and LeavesMemory spell out.
ImplementsCpu6502 == Cpu!Init /\ [][Cpu!Next \/ Cpu!Departs \/ LeavesMemory]_(Cpu!vars)

Flat == INSTANCE FlatMemory WITH
    Places  <- {256 * bank : bank \in Banks},
    Images  <- Roms,
    shown   <- [a \in Watched |-> Fetch(ram, a)],
    covered <- {a \in Watched : hi(a) \in DOMAIN rbank}

\* Banks that wrap, overlap, and are covered again between two runs show, byte
\* by byte, the ROMs last mapped over them; whatever the program stores to or
\* under them, they keep showing it (emulator.h mapRom, read_bank, write_bank).
MemoryIsFlat == Flat!Spec

=============================================================================
