---------------------------- MODULE OpcodeSheet ----------------------------
(***************************************************************************)
(* The opcodes of the 6502 as src/opcodes.txt lists them: the HEX column   *)
(* of its tables, by mnemonic and addressing mode.  Nothing here is taken  *)
(* from the instruction table of src/emulator.h (that is OpcodeTable).     *)
(***************************************************************************)
EXTENDS Integers

\* The instructions with operands, of their modes.
OperandCodes == [
    ADC |-> [IMM |-> \h69, ZP |-> \h65, ZPX |-> \h75, ABS |-> \h6d, ABSX |-> \h7d,
            ABSY |-> \h79, INDX |-> \h61, INDY |-> \h71],
    AND |-> [IMM |-> \h29, ZP |-> \h25, ZPX |-> \h35, ABS |-> \h2d, ABSX |-> \h3d,
            ABSY |-> \h39, INDX |-> \h21, INDY |-> \h31],
    ASL |-> [ACC |-> \h0a, ZP |-> \h06, ZPX |-> \h16, ABS |-> \h0e, ABSX |-> \h1e],
    BIT |-> [ZP |-> \h24, ABS |-> \h2c],
    CMP |-> [IMM |-> \hc9, ZP |-> \hc5, ZPX |-> \hd5, ABS |-> \hcd, ABSX |-> \hdd,
            ABSY |-> \hd9, INDX |-> \hc1, INDY |-> \hd1],
    CPX |-> [IMM |-> \he0, ZP |-> \he4, ABS |-> \hec],
    CPY |-> [IMM |-> \hc0, ZP |-> \hc4, ABS |-> \hcc],
    DEC |-> [ZP |-> \hc6, ZPX |-> \hd6, ABS |-> \hce, ABSX |-> \hde],
    EOR |-> [IMM |-> \h49, ZP |-> \h45, ZPX |-> \h55, ABS |-> \h4d, ABSX |-> \h5d,
            ABSY |-> \h59, INDX |-> \h41, INDY |-> \h51],
    INC |-> [ZP |-> \he6, ZPX |-> \hf6, ABS |-> \hee, ABSX |-> \hfe],
    JMP |-> [ABS |-> \h4c, IND |-> \h6c],
    JSR |-> [ABS |-> \h20],
    LDA |-> [IMM |-> \ha9, ZP |-> \ha5, ZPX |-> \hb5, ABS |-> \had, ABSX |-> \hbd,
            ABSY |-> \hb9, INDX |-> \ha1, INDY |-> \hb1],
    LDX |-> [IMM |-> \ha2, ZP |-> \ha6, ZPY |-> \hb6, ABS |-> \hae, ABSY |-> \hbe],
    LDY |-> [IMM |-> \ha0, ZP |-> \ha4, ZPX |-> \hb4, ABS |-> \hac, ABSX |-> \hbc],
    LSR |-> [ACC |-> \h4a, ZP |-> \h46, ZPX |-> \h56, ABS |-> \h4e, ABSX |-> \h5e],
    ORA |-> [IMM |-> \h09, ZP |-> \h05, ZPX |-> \h15, ABS |-> \h0d, ABSX |-> \h1d,
            ABSY |-> \h19, INDX |-> \h01, INDY |-> \h11],
    ROL |-> [ACC |-> \h2a, ZP |-> \h26, ZPX |-> \h36, ABS |-> \h2e, ABSX |-> \h3e],
    ROR |-> [ACC |-> \h6a, ZP |-> \h66, ZPX |-> \h76, ABS |-> \h6e, ABSX |-> \h7e],
    SBC |-> [IMM |-> \he9, ZP |-> \he5, ZPX |-> \hf5, ABS |-> \hed, ABSX |-> \hfd,
            ABSY |-> \hf9, INDX |-> \he1, INDY |-> \hf1],
    STA |-> [ZP |-> \h85, ZPX |-> \h95, ABS |-> \h8d, ABSX |-> \h9d,
            ABSY |-> \h99, INDX |-> \h81, INDY |-> \h91],
    STX |-> [ZP |-> \h86, ZPY |-> \h96, ABS |-> \h8e],
    STY |-> [ZP |-> \h84, ZPX |-> \h94, ABS |-> \h8c]]

\* The implied instructions.
ImpliedCodes == [
    BRK |-> \h00, CLC |-> \h18, SEC |-> \h38, CLI |-> \h58, SEI |-> \h78,
    CLV |-> \hb8, CLD |-> \hd8, SED |-> \hf8, NOP |-> \hea, TAX |-> \haa,
    TXA |-> \h8a, DEX |-> \hca, INX |-> \he8, TAY |-> \ha8, TYA |-> \h98,
    DEY |-> \h88, INY |-> \hc8, RTI |-> \h40, RTS |-> \h60, TXS |-> \h9a,
    TSX |-> \hba, PHA |-> \h48, PLA |-> \h68, PHP |-> \h08, PLP |-> \h28]

\* The branches.
BranchCodes == [
    BPL |-> \h10, BMI |-> \h30, BVC |-> \h50, BVS |-> \h70, BCC |-> \h90,
    BCS |-> \hb0, BNE |-> \hd0, BEQ |-> \hf0]

Entries ==
    UNION {{[name |-> n, mode |-> m, code |-> OperandCodes[n][m]] :
               m \in DOMAIN OperandCodes[n]} : n \in DOMAIN OperandCodes}
    \cup {[name |-> n, mode |-> "NONE", code |-> ImpliedCodes[n]] : n \in DOMAIN ImpliedCodes}
    \cup {[name |-> n, mode |-> "REL", code |-> BranchCodes[n]] : n \in DOMAIN BranchCodes}

\* Mnemonic and mode of each opcode; no opcode is listed twice.
OpcodeSheet ==
    [c \in {e.code : e \in Entries} |->
        LET e == CHOOSE entry \in Entries : entry.code = c
        IN  [name |-> e.name, mode |-> e.mode]]

=============================================================================
