------------------------------ MODULE MCTable ------------------------------
(***************************************************************************)
(* The tables of OpcodeTable as the value of Machine's Opcodes, and those  *)
(* of OpcodeSheet as the value of Sheet.  TLC evaluates an operator that a *)
(* .cfg gives to a constant at every use, but one that it stands for only  *)
(* once, and tabulates a function under @@.                                *)
(***************************************************************************)
EXTENDS OpcodeTable, TLC

Reference == INSTANCE OpcodeSheet

Tabulated == [t \in {"normal"} |-> JumpTables.normal @@ <<>>]
             @@ [t \in {"bcd"} |-> JumpTables.bcd @@ <<>>]
MCOpcodes == Tabulated

TabulatedSheet == Reference!OpcodeSheet @@ <<>>
MCSheet == TabulatedSheet

=============================================================================
