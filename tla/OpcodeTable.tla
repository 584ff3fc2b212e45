---------------------------- MODULE OpcodeTable ----------------------------
(***************************************************************************)
(* The instruction table of src/emulator.h, in the order the code lists    *)
(* it (the assembler and the disassembler take the first row that fits),   *)
(* and the two jump tables the constructor fills from it.                  *)
(*                                                                         *)
(* A row is [code, cycles, mode, op]; op names the C++ template and its    *)
(* arguments: [fn |-> "Load", reg |-> "A"] is Load<A, mode>.               *)
(***************************************************************************)
EXTENDS Integers, Sequences

\* {code, cycles, mode} with the operation they share in a table entry.
Entry(name, does, codes) ==
    [name |-> name,
     opcodes |-> [i \in DOMAIN codes |->
        [code |-> codes[i][1], cycles |-> codes[i][2], mode |-> codes[i][3],
         op |-> does]]]

Implied(name, code, time, does) == Entry(name, does, <<<<code, time, "NONE">>>>)

\* The eight modes of the accumulator operations.
Operand8(base) ==
    << <<base + \h09, 2, "IMM">>,  <<base + \h05, 3, "ZP">>,
       <<base + \h15, 4, "ZPX">>,  <<base + \h0d, 4, "ABS">>,
       <<base + \h1d, 4, "ABSX">>, <<base + \h19, 4, "ABSY">>,
       <<base + \h01, 6, "INDX">>, <<base + \h11, 5, "INDY">> >>

\* The four modes of the operations that read, modify and write memory.
Modify4(base) ==
    << <<base + \h06, 5, "ZP">>,  <<base + \h16, 6, "ZPX">>,
       <<base + \h0e, 6, "ABS">>, <<base + \h1e, 7, "ABSX">> >>

Shift6(base) == << <<base + \h0a, 2, "NONE">>, <<base + \h0a, 2, "ACC">> >>
                \o Modify4(base)

LoadRows == <<
    Entry("lda", [fn |-> "Load", reg |-> "A"],
        << <<\ha9, 2, "IMM">>, <<\ha5, 2, "ZP">>, <<\hb5, 4, "ZPX">>,
           <<\had, 4, "ABS">>, <<\hbd, 4, "ABSX">>, <<\hb9, 4, "ABSY">>,
           <<\ha1, 6, "INDX">>, <<\hb1, 5, "INDY">> >>),
    Entry("ldx", [fn |-> "Load", reg |-> "X"],
        << <<\ha2, 2, "IMM">>, <<\ha6, 3, "ZP">>, <<\hb6, 4, "ZPY">>,
           <<\hae, 4, "ABS">>, <<\hbe, 4, "ABSY">> >>),
    Entry("ldy", [fn |-> "Load", reg |-> "Y"],
        << <<\ha0, 2, "IMM">>, <<\ha4, 3, "ZP">>, <<\hb4, 4, "ZPX">>,
           <<\hac, 4, "ABS">>, <<\hbc, 4, "ABSX">> >>) >>

StoreRows == <<
    Entry("sta", [fn |-> "Store", reg |-> "A"],
        << <<\h85, 3, "ZP">>, <<\h95, 4, "ZPX">>, <<\h8d, 4, "ABS">>,
           <<\h9d, 4, "ABSX">>, <<\h99, 4, "ABSY">>, <<\h81, 6, "INDX">>,
           <<\h91, 5, "INDY">> >>),
    Entry("stx", [fn |-> "Store", reg |-> "X"],
        << <<\h86, 3, "ZP">>, <<\h96, 4, "ZPY">>, <<\h8e, 4, "ABS">> >>),
    Entry("sty", [fn |-> "Store", reg |-> "Y"],
        << <<\h84, 3, "ZP">>, <<\h94, 4, "ZPX">>, <<\h8c, 4, "ABS">> >>) >>

IncRows == <<
    Entry("dec", [fn |-> "Inc", inc |-> -1], Modify4(\hc0)),
    Entry("inc", [fn |-> "Inc", inc |-> 1], Modify4(\he0)) >>

RegisterRows ==
    LET Transfer(from, to) == [fn |-> "Transfer", from |-> from, to |-> to]
        Inc(r, by) == [fn |-> "Inc", reg |-> r, inc |-> by]
    IN  << Implied("tax", \haa, 2, Transfer("A", "X")),
           Implied("txa", \h8a, 2, Transfer("X", "A")),
           Implied("tay", \ha8, 2, Transfer("A", "Y")),
           Implied("tya", \h98, 2, Transfer("Y", "A")),
           Implied("txs", \h9a, 2, Transfer("X", "SP")),
           Implied("tsx", \hba, 2, Transfer("SP", "X")),
           Implied("dex", \hca, 2, Inc("X", -1)),
           Implied("inx", \he8, 2, Inc("X", 1)),
           Implied("dey", \h88, 2, Inc("Y", -1)),
           Implied("iny", \hc8, 2, Inc("Y", 1)) >>

StackRows == <<
    Implied("pha", \h48, 3, [fn |-> "Pha"]),
    Implied("pla", \h68, 4, [fn |-> "Pla"]),
    Implied("php", \h08, 3, [fn |-> "Php"]),
    Implied("plp", \h28, 4, [fn |-> "Plp"]) >>

BranchRows ==
    LET Branch(name, code, flag, on) ==
            Entry(name, [fn |-> "Branch", flag |-> flag, on |-> on],
                  <<<<code, 2, "REL">>>>)
    IN  << Branch("bcc", \h90, "CARRY", FALSE), Branch("bcs", \hb0, "CARRY", TRUE),
           Branch("bne", \hd0, "ZERO", FALSE),  Branch("beq", \hf0, "ZERO", TRUE),
           Branch("bpl", \h10, "SIGN", FALSE),  Branch("bmi", \h30, "SIGN", TRUE),
           Branch("bvc", \h50, "OVER", FALSE),  Branch("bvs", \h70, "OVER", TRUE) >>

ArithmeticRows(USE_BCD) == <<
    Entry("adc", [fn |-> "Adc", dec |-> USE_BCD], Operand8(\h60)),
    Entry("sbc", [fn |-> "Sbc", dec |-> USE_BCD], Operand8(\he0)),
    Entry("cmp", [fn |-> "Cmp", reg |-> "A"], Operand8(\hc0)),
    Entry("cpx", [fn |-> "Cmp", reg |-> "X"],
        << <<\he0, 2, "IMM">>, <<\he4, 3, "ZP">>, <<\hec, 4, "ABS">> >>),
    Entry("cpy", [fn |-> "Cmp", reg |-> "Y"],
        << <<\hc0, 2, "IMM">>, <<\hc4, 3, "ZP">>, <<\hcc, 4, "ABS">> >>) >>

LogicRows == <<
    Entry("and", [fn |-> "And"], Operand8(\h20)),
    Entry("eor", [fn |-> "Eor"], Operand8(\h40)),
    Entry("ora", [fn |-> "Ora"], Operand8(\h00)) >>

FlagRows ==
    LET Set(name, code, flag, on) ==
            Implied(name, code, 2, [fn |-> "Set", flag |-> flag, on |-> on])
    IN  << Set("sec", \h38, "CARRY", TRUE),   Set("clc", \h18, "CARRY", FALSE),
           Set("sei", \h58, "IRQ", TRUE),     Set("cli", \h78, "IRQ", FALSE),
           Set("sed", \hf8, "DECIMAL", TRUE), Set("cld", \hd8, "DECIMAL", FALSE),
           Set("clv", \hb8, "OVER", FALSE) >>

ShiftRows == <<
    Entry("lsr", [fn |-> "Lsr"], Shift6(\h40)),
    Entry("asl", [fn |-> "Asl"], Shift6(\h00)),
    Entry("ror", [fn |-> "Ror"], Shift6(\h60)),
    Entry("rol", [fn |-> "Rol"], Shift6(\h20)) >>

BitRows == << Entry("bit", [fn |-> "Bit"],
                    << <<\h24, 3, "ZP">>, <<\h2c, 4, "ABS">> >>) >>

ControlRows == <<
    Implied("rti", \h40, 6, [fn |-> "Rti"]),
    Implied("brk", \h00, 7, [fn |-> "Brk"]),
    Implied("rts", \h60, 6, [fn |-> "Rts"]),
    Entry("jmp", [fn |-> "Jmp"], << <<\h4c, 3, "ABS">>, <<\h6c, 5, "IND">> >>),
    Entry("jsr", [fn |-> "Jsr"], << <<\h20, 6, "ABS">> >>) >>

getInstructions(USE_BCD) ==
    << Implied("nop", \hea, 2, [fn |-> "Nop"]) >>
    \o LoadRows \o StoreRows \o IncRows \o RegisterRows \o StackRows
    \o BranchRows \o ArithmeticRows(USE_BCD) \o LogicRows \o FlagRows
    \o ShiftRows \o BitRows \o ControlRows

\* jumpTable[o.code] = o for every row in turn: the last row of a code stays.
jumpTableOf(instructions) ==
    LET CodesOf(ins) == {ins.opcodes[k].code : k \in DOMAIN ins.opcodes}
        Last(S) == CHOOSE i \in S : \A j \in S : j <= i
        LastRow(c, ins) == ins.opcodes[Last({k \in DOMAIN ins.opcodes : ins.opcodes[k].code = c})]
    IN  [c \in UNION {CodesOf(instructions[i]) : i \in DOMAIN instructions} |->
            LastRow(c, instructions[Last({i \in DOMAIN instructions :
                                             c \in CodesOf(instructions[i])})])]

\* jumpTable_normal and jumpTable_bcd, on the 151 codes that have a row.
JumpTables == [normal |-> jumpTableOf(getInstructions(FALSE)),
               bcd    |-> jumpTableOf(getInstructions(TRUE))]

=============================================================================
