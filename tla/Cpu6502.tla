------------------------------ MODULE Cpu6502 ------------------------------
(***************************************************************************)
(* The 6502 of src/opcodes.txt, the instruction reference kept with the    *)
(* emulator: one instruction set keyed by the sheet's mnemonics, a status  *)
(* with all its flags in one place, addresses and a program counter of 16  *)
(* bits, a stack that is always on page one.  It shares with the emulator  *)
(* the bus (Memory), which the sheet says nothing of, and the layout of a  *)
(* pushed status byte (StatusFlags); no table, no addressing mode, no      *)
(* stack and no instruction.                                               *)
(*                                                                         *)
(* Where the sheet is silent nothing is asked for: the result of decimal   *)
(* arithmetic on digits above 9 and its N, V and Z; the flags after PLA    *)
(* and TSX; whether a zero page pointer at $ff continues at $00 or $0100;  *)
(* the registers at power-up; what an opcode that is not listed does.  The *)
(* vector of BRK ($fffe) is the one fact taken from elsewhere.             *)
(*                                                                         *)
(* A processor does not stop, a run of the emulator does: after any        *)
(* instruction the run may be "leaving", and between runs, "idle", memory  *)
(* and the program counter are the client's to change.                     *)
(***************************************************************************)
EXTENDS Memory, StatusFlags

CONSTANT Sheet  \* the instructions by opcode: [name, mode]

VARIABLES
    reg,   \* A, X, Y and SP
    pc,    \* the program counter
    P,     \* the flags that are set
    phase  \* "idle", "running", "leaving" or "undefined"

Registers == {"A", "X", "Y", "SP"}
Unused    == {"BRK", "xXx"}  \* no flags of the processor, but bits of a pushed status

-----------------------------------------------------------------------------
(* What the mnemonics of a group differ in *)

Loads       == [LDA |-> "A", LDX |-> "X", LDY |-> "Y"]
Stores      == [STA |-> "A", STX |-> "X", STY |-> "Y"]
Comparisons == [CMP |-> "A", CPX |-> "X", CPY |-> "Y"]

Transfers == [TAX |-> <<"A", "X">>, TXA |-> <<"X", "A">>, TAY |-> <<"A", "Y">>,
              TYA |-> <<"Y", "A">>, TXS |-> <<"X", "SP">>, TSX |-> <<"SP", "X">>]

RegisterSteps == [INX |-> <<"X", 1>>, DEX |-> <<"X", -1>>,
                  INY |-> <<"Y", 1>>, DEY |-> <<"Y", -1>>]
MemorySteps   == [INC |-> 1, DEC |-> -1]

Branches == [BPL |-> <<"SIGN", FALSE>>,  BMI |-> <<"SIGN", TRUE>>,
             BVC |-> <<"OVER", FALSE>>,  BVS |-> <<"OVER", TRUE>>,
             BCC |-> <<"CARRY", FALSE>>, BCS |-> <<"CARRY", TRUE>>,
             BNE |-> <<"ZERO", FALSE>>,  BEQ |-> <<"ZERO", TRUE>>]

FlagChanges == [CLC |-> <<"CARRY", FALSE>>,   SEC |-> <<"CARRY", TRUE>>,
                CLI |-> <<"IRQ", FALSE>>,     SEI |-> <<"IRQ", TRUE>>,
                CLD |-> <<"DECIMAL", FALSE>>, SED |-> <<"DECIMAL", TRUE>>,
                CLV |-> <<"OVER", FALSE>>]

-----------------------------------------------------------------------------
(* The instruction at pc, and its operand (opcodes.txt:327-349) *)

name == Sheet[Fetch(ram, pc)].name
mode == Sheet[Fetch(ram, pc)].mode

Following(n) == (pc + n) % 65536
CodeByte(n)  == Fetch(ram, Following(n))
CodeWord     == to_adr(CodeByte(1), CodeByte(2))

Length(m) == CASE m \in {"NONE", "ACC"}                -> 1
               [] m \in {"ABS", "ABSX", "ABSY", "IND"} -> 3
               [] OTHER                                -> 2

GoesOn == phase' \in {"running", "leaving"}
Proceeds == GoesOn /\ pc' = Following(Length(mode))

\* The words a pointer in the zero page may hold.
Pointers(z) == {to_adr(l, h) : l \in Read(z), h \in Read(z + 1) \cup Read((z + 1) % 256)}

Indexed(base, index) == (base + reg[index]) % 65536
Wrapped(index)       == (CodeByte(1) + reg[index]) % 256

\* Where the operand may be: indexes wrap within the zero page, and sums
\* within 16 bits.
Addresses ==
    CASE mode = "IMM"  -> {Following(1)}
      [] mode = "ZP"   -> {CodeByte(1)}
      [] mode = "ZPX"  -> {Wrapped("X")}
      [] mode = "ZPY"  -> {Wrapped("Y")}
      [] mode = "ABS"  -> {CodeWord}
      [] mode = "ABSX" -> {Indexed(CodeWord, "X")}
      [] mode = "ABSY" -> {Indexed(CodeWord, "Y")}
      [] mode = "INDX" -> Pointers(Wrapped("X"))
      [] mode = "INDY" -> {Indexed(p, "Y") : p \in Pointers(CodeByte(1))}

Operand == UNION {Read(ea) : ea \in Addresses}

-----------------------------------------------------------------------------
(* Loads, stores, branches and flags (opcodes.txt:85-97, :200-210, :390-400) *)

With(F, flag, on) == IF on THEN F \cup {flag} ELSE F \ {flag}
NZ(F, v) == With(With(F, "SIGN", v >= 128), "ZERO", v = 0)
C == IF "CARRY" \in P THEN 1 ELSE 0

Nop == name = "NOP" /\ Proceeds /\ UNCHANGED <<reg, ram, P>>

Load == /\ name \in DOMAIN Loads /\ Proceeds
        /\ \E v \in Operand :
              reg' = [reg EXCEPT ![Loads[name]] = v] /\ P' = NZ(P, v)
        /\ UNCHANGED ram

Store == /\ name \in DOMAIN Stores /\ Proceeds
         /\ \E ea \in Addresses : ram' \in Write(ea, reg[Stores[name]])
         /\ UNCHANGED <<reg, P>>

Branch == /\ name \in DOMAIN Branches /\ GoesOn
          /\ LET flag  == Branches[name][1]
                 taken == (flag \in P) = Branches[name][2]
             IN  pc' = Following(2 + (IF taken THEN Signed8(CodeByte(1)) ELSE 0))
          /\ UNCHANGED <<reg, ram, P>>

Transfer == /\ name \in DOMAIN Transfers /\ Proceeds
            /\ LET v == reg[Transfers[name][1]]
               IN  /\ reg' = [reg EXCEPT ![Transfers[name][2]] = v]
                   /\ P' \in CASE name = "TXS" -> {P}
                               [] name = "TSX" -> {P, NZ(P, v)}
                               [] OTHER        -> {NZ(P, v)}
            /\ UNCHANGED ram

StepRegister ==
    /\ name \in DOMAIN RegisterSteps /\ Proceeds
    /\ LET r == RegisterSteps[name][1]
           v == (reg[r] + RegisterSteps[name][2]) % 256
       IN  reg' = [reg EXCEPT ![r] = v] /\ P' = NZ(P, v)
    /\ UNCHANGED ram

SetFlag == /\ name \in DOMAIN FlagChanges /\ Proceeds
           /\ P' = With(P, FlagChanges[name][1], FlagChanges[name][2])
           /\ UNCHANGED <<reg, ram>>

-----------------------------------------------------------------------------
(* Arithmetic and logic (opcodes.txt:24-25, :57, :68, :138, :214-223, :324,
   :414, :428, :489-490) *)

BitTest == /\ name = "BIT" /\ Proceeds
           /\ \E m \in Operand :
                 P' = With(With(With(P, "ZERO", BitAnd(m, reg["A"]) = 0),
                                "SIGN", m >= 128),
                           "OVER", m % 128 >= 64)
           /\ UNCHANGED <<reg, ram>>

Compare == /\ name \in DOMAIN Comparisons /\ Proceeds
           /\ \E m \in Operand :
                 LET r == reg[Comparisons[name]]
                 IN  P' = With(NZ(P, (r - m) % 256), "CARRY", r >= m)
           /\ UNCHANGED <<reg, ram>>

Logical == /\ name \in {"AND", "ORA", "EOR"} /\ Proceeds
           /\ \E m \in Operand :
                 LET v == CASE name = "AND" -> BitAnd(reg["A"], m)
                            [] name = "ORA" -> BitOr(reg["A"], m)
                            [] name = "EOR" -> BitXor(reg["A"], m)
                 IN  reg' = [reg EXCEPT !["A"] = v] /\ P' = NZ(P, v)
           /\ UNCHANGED ram

\* The sum or difference, wrapped to a byte; the carry, and the overflow of
\* the same operation on two's complement numbers.
Result(total, carries, signed) ==
    /\ reg' = [reg EXCEPT !["A"] = total % 256]
    /\ P' = With(With(NZ(P, total % 256), "CARRY", carries),
                 "OVER", signed \notin -128 .. 127)

AddBinary ==
    /\ name = "ADC" /\ Proceeds /\ "DECIMAL" \notin P
    /\ \E m \in Operand :
          Result(reg["A"] + m + C, reg["A"] + m + C > 255,
                 Signed8(reg["A"]) + Signed8(m) + C)
    /\ UNCHANGED ram

SubtractBinary ==
    /\ name = "SBC" /\ Proceeds /\ "DECIMAL" \notin P
    /\ \E m \in Operand :
          Result(reg["A"] - m - (1 - C), reg["A"] - m - (1 - C) >= 0,
                 Signed8(reg["A"]) - Signed8(m) - (1 - C))
    /\ UNCHANGED ram

IsBcd(b)   == b % 16 < 10 /\ b \div 16 < 10
Value(b)   == 10 * (b \div 16) + (b % 16)
ToBcd(n)   == 16 * (n \div 10) + (n % 10)
Open == {"SIGN", "OVER", "ZERO"}

DecimalResult(m, total, carries) ==
    /\ \E v \in Byte :
          /\ IsBcd(reg["A"]) /\ IsBcd(m) => v = ToBcd(total % 100)
          /\ reg' = [reg EXCEPT !["A"] = v]
    /\ P' \ (Open \cup {"CARRY"}) = P \ (Open \cup {"CARRY"})
    /\ IsBcd(reg["A"]) /\ IsBcd(m) => ("CARRY" \in P') = carries

AddDecimal ==
    /\ name = "ADC" /\ Proceeds /\ "DECIMAL" \in P
    /\ \E m \in Operand :
          LET total == Value(reg["A"]) + Value(m) + C
          IN  DecimalResult(m, total, total > 99)
    /\ UNCHANGED ram

SubtractDecimal ==
    /\ name = "SBC" /\ Proceeds /\ "DECIMAL" \in P
    /\ \E m \in Operand :
          LET total == Value(reg["A"]) - Value(m) - (1 - C)
          IN  DecimalResult(m, total, total >= 0)
    /\ UNCHANGED ram

\* The operations that change one byte in place: what they leave, and the
\* carry.  INC and DEC keep the carry.
Modified(v) ==
    CASE name \in DOMAIN MemorySteps -> (v + MemorySteps[name]) % 256
      [] name = "ASL" -> (2 * v) % 256
      [] name = "LSR" -> v \div 2
      [] name = "ROL" -> ((2 * v) % 256) + C
      [] name = "ROR" -> v \div 2 + 128 * C

CarryOf(v) ==
    CASE name \in DOMAIN MemorySteps -> "CARRY" \in P
      [] name \in {"ASL", "ROL"}     -> v >= 128
      [] name \in {"LSR", "ROR"}     -> v % 2 = 1

Modifies == name \in DOMAIN MemorySteps \cup {"ASL", "LSR", "ROL", "ROR"}

ModifyAccumulator ==
    /\ Modifies /\ Proceeds /\ mode = "ACC"
    /\ reg' = [reg EXCEPT !["A"] = Modified(reg["A"])]
    /\ P' = With(NZ(P, Modified(reg["A"])), "CARRY", CarryOf(reg["A"]))
    /\ UNCHANGED ram

ModifyMemory ==
    /\ Modifies /\ Proceeds /\ mode # "ACC"
    /\ \E ea \in Addresses : \E v \in Read(ea) :
          /\ ram' \in Write(ea, Modified(v))
          /\ P' = With(NZ(P, Modified(v)), "CARRY", CarryOf(v))
    /\ UNCHANGED reg

-----------------------------------------------------------------------------
(* Stack and control (opcodes.txt:119, :245-255, :265, :438-450, :510-518) *)

\* The cells of the stack around SP, on page one.
Cell(i) == 256 + ((reg["SP"] + i) % 256)
Top(i)  == At(ram, Cell(i))

SP(n) == (reg["SP"] + n) % 256

Pulled(b) == SrFlags(b) \ Unused
StatusByte == SrByte(P \cup Unused)

PushedWord(w) == Stored(Stored(ram, Cell(0), w \div 256), Cell(-1), w % 256)

PushA == /\ name = "PHA" /\ Proceeds
         /\ ram' = Stored(ram, Cell(0), reg["A"])
         /\ reg' = [reg EXCEPT !["SP"] = SP(-1)]
         /\ UNCHANGED P

PullA == /\ name = "PLA" /\ Proceeds
         /\ reg' = [reg EXCEPT !["SP"] = SP(1), !["A"] = Top(1)]
         /\ P' \in {P, NZ(P, Top(1))}
         /\ UNCHANGED ram

PushP == /\ name = "PHP" /\ Proceeds
         /\ ram' = Stored(ram, Cell(0), StatusByte)
         /\ reg' = [reg EXCEPT !["SP"] = SP(-1)]
         /\ UNCHANGED P

PullP == /\ name = "PLP" /\ Proceeds
         /\ P' = Pulled(Top(1))
         /\ reg' = [reg EXCEPT !["SP"] = SP(1)]
         /\ UNCHANGED ram

\* An interrupt sets the I flag.
Break == /\ name = "BRK" /\ GoesOn
         /\ ram' = Stored(PushedWord(Following(2)), Cell(-2), StatusByte)
         /\ reg' = [reg EXCEPT !["SP"] = SP(-3)]
         /\ pc' \in {to_adr(l, h) : l \in Read(65534), h \in Read(65535)}
         /\ P' = P \cup {"IRQ"}

ReturnFromInterrupt ==
    /\ name = "RTI" /\ GoesOn
    /\ P' = Pulled(Top(1))
    /\ pc' = to_adr(Top(2), Top(3))
    /\ reg' = [reg EXCEPT !["SP"] = SP(3)]
    /\ UNCHANGED ram

\* Pushes the address of the next instruction less one.
Call == /\ name = "JSR" /\ GoesOn
        /\ ram' = PushedWord(Following(2))
        /\ pc' = CodeWord
        /\ reg' = [reg EXCEPT !["SP"] = SP(-2)]
        /\ UNCHANGED P

Return ==
    /\ name = "RTS" /\ GoesOn
    /\ pc' = (to_adr(Top(1), Top(2)) + 1) % 65536
    /\ reg' = [reg EXCEPT !["SP"] = SP(2)]
    /\ UNCHANGED <<ram, P>>

\* The high byte of an indirect jump comes from the page of the low byte.
SamePage(a) == 256 * (a \div 256) + ((a + 1) % 256)

Jump == /\ name = "JMP" /\ GoesOn
        /\ pc' \in IF mode = "IND"
                      THEN {to_adr(l, h) : l \in Read(CodeWord), h \in Read(SamePage(CodeWord))}
                      ELSE {CodeWord}
        /\ UNCHANGED <<reg, ram, P>>

-----------------------------------------------------------------------------

Execute ==
    \/ Nop \/ Load \/ Store \/ Branch \/ Transfer \/ StepRegister \/ SetFlag
    \/ BitTest \/ Compare \/ Logical \/ AddBinary \/ SubtractBinary
    \/ AddDecimal \/ SubtractDecimal \/ ModifyAccumulator \/ ModifyMemory
    \/ PushA \/ PullA \/ PushP \/ PullP
    \/ Break \/ ReturnFromInterrupt \/ Call \/ Return \/ Jump

Instruction ==
    /\ phase = "running"
    /\ Fetch(ram, pc) \in DOMAIN Sheet
    /\ Execute
    /\ UNCHANGED mapping

\* An opcode that the sheet does not list.
Strays ==
    /\ phase = "running"
    /\ Fetch(ram, pc) \notin DOMAIN Sheet
    /\ phase' = "undefined"
    /\ UNCHANGED <<reg, pc, memory, P>>

Leaves ==
    /\ phase = "leaving"
    /\ phase' = "idle"
    /\ UNCHANGED <<reg, pc, memory, P>>

Idles ==
    /\ phase = "idle"
    /\ phase' \in {"idle", "running", "leaving"}
    /\ UNCHANGED <<reg, P>>

Init ==
    /\ phase = "idle"
    /\ reg \in [Registers -> Byte]
    /\ P \subseteq Flags \ Unused

Next == Instruction \/ Strays \/ Leaves \/ Idles

vars == <<reg, pc, ram, rbank, rcallbacks, wcallbacks, P, phase>>
Spec == Init /\ [][Next]_vars

=============================================================================
