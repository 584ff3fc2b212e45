------------------------------- MODULE Modes -------------------------------
(***************************************************************************)
(* The addressing modes of src/emulator.h and the size of an instruction   *)
(* of each, which the machine, the assembler and the disassembler share.   *)
(***************************************************************************)

OperandModes == {"IMM", "ZP", "ZPX", "ZPY", "INDX", "INDY", "ABS", "ABSX", "ABSY"}
MemoryModes == OperandModes \ {"IMM"}
Modes == OperandModes \cup {"NONE", "ACC", "REL", "IND"}

opSize(mode) == CASE mode \in {"NONE", "ACC"}                -> 1
                  [] mode \in {"IND", "ABS", "ABSX", "ABSY"} -> 3
                  [] OTHER                                   -> 2

=============================================================================
