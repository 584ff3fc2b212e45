--------------------------- MODULE MachineProofs ---------------------------
(***************************************************************************)
(* What holds of Machine for every opcode table, program, ROM, client and  *)
(* policy that its assumptions allow.                                      *)
(*                                                                         *)
(* The argument: IInv, the type invariant with the two invariants of the   *)
(* status register, is inductive.  It needs both: PLP and RTI swap the     *)
(* jump table only when the D bit they pull differs from the one in sr, so *)
(* the table is right afterwards only if it was right before; and set<SZ>  *)
(* leaves sr alone, so S and Z stay out of it only if they were out.  Each *)
(* opcode function has a lemma that it leaves the status (StatusOK) and    *)
(* the rest of the processor (CpuOK) well formed, built from lemmas on the *)
(* types of words, memory accesses and the arithmetic.  The cycle count    *)
(* rests on IInv and on an invariant of its own, BudgetInv.                *)
(***************************************************************************)
EXTENDS Machine, TLAPS

\* The status register and its lazily kept parts.
StatusOK ==
    /\ sr \subseteq Flags
    /\ result \in 0 .. ResultBits - 1
    /\ jumpTable \in {"normal", "bcd"}
    /\ DecimalCoherent
    /\ StatusShape

\* The rest of what an instruction changes.
CpuOK == RamOK(ram) /\ reg \in [Registers -> Byte] /\ pc \in Int /\ cycles \in 0 .. CyclesMax

IInv == TypeOK /\ DecimalCoherent /\ StatusShape

-----------------------------------------------------------------------------
(* Words *)

LEMMA ModByte == ASSUME NEW n \in Int PROVE n % 256 \in Byte
BY DEF Byte

LEMMA LoByte == ASSUME NEW n \in Int PROVE lo(n) \in Byte
BY DEF Byte, lo

LEMMA KeptType == ASSUME NEW n \in Int PROVE Kept(n) \in 0 .. ResultBits - 1
BY DEF Kept, ResultBits

LEMMA ModType == ASSUME NEW n \in Nat, NEW m \in Nat, m > 0 PROVE n % m \in 0 .. m - 1
OBVIOUS

LEMMA ComposeType == ASSUME NEW P(_) PROVE Compose(P) \in Byte
BY DEF Compose, Byte

LEMMA LogicType ==
    ASSUME NEW a \in Byte, NEW b \in Byte
    PROVE  BitAnd(a, b) \in Byte /\ BitOr(a, b) \in Byte /\ BitXor(a, b) \in Byte
BY ComposeType DEF BitAnd, BitOr, BitXor

LEMMA SrByteType == ASSUME NEW F PROVE SrByte(F) \in Byte
BY ComposeType DEF SrByte

LEMMA FlagsAre == Flags = {"CARRY", "ZERO", "IRQ", "DECIMAL", "BRK", "xXx", "OVER", "SIGN"}
BY DEF Flags, Weight

LEMMA AluType ==
    ASSUME NEW a \in Byte, NEW z \in Byte, NEW c \in {0, 1}
    PROVE  /\ Complement(z) \in Byte
           /\ AdcBinary(a, z, c) \in Int
           /\ AdcDecimalSum(a, z, c) \in Int
           /\ SbcDecimalRc(a, z, c) \in Int
<1>1. Complement(z) \in Byte BY DEF Complement, Byte
<1>2. AdcBinary(a, z, c) \in Int BY DEF AdcBinary, Byte
<1>3. AdcDecimalSum(a, z, c) \in Int BY DEF AdcDecimalSum, Byte
<1>4. SbcDecimalRc(a, z, c) \in Int BY DEF SbcDecimalRc, Byte
<1> QED BY <1>1, <1>2, <1>3, <1>4

LEMMA SbcDigitsType ==
    ASSUME NEW a \in Byte, NEW z \in Byte, NEW c \in {0, 1}
    PROVE  SbcDecimalDigits(a, z, c) \in Byte
BY DEF SbcDecimalDigits, Byte, BitOf

LEMMA ShiftedType ==
    ASSUME NEW fn \in Shifts, NEW v \in Byte, NEW c \in {0, 1}
    PROVE  Shifted(fn, v, c).rc \in 0 .. 511
BY DEF Shifted, Byte, Shifts

-----------------------------------------------------------------------------
(* Memory *)

LEMMA StoredType ==
    ASSUME NEW data, RamOK(data), NEW adr \in Adr, NEW v \in Byte
    PROVE  RamOK(Stored(data, adr, v))
BY DEF RamOK, Block, Stored

LEMMA PushType ==
    ASSUME NEW data, RamOK(data), NEW i \in -2 .. 255, NEW v \in Int
    PROVE  RamOK(Push(data, i, v))
<1>1. 256 + i \in Adr BY DEF Adr
<1> QED BY <1>1, ModByte, StoredType DEF Push

LEMMA AtType ==
    ASSUME NEW data, NEW S, Block(data, S), NEW adr
    PROVE  At(data, adr) \in Byte
<1>1. 0 \in Byte BY DEF Byte
<1> QED BY <1>1 DEF At, Block

LEMMA AtRam == ASSUME NEW data, RamOK(data), NEW adr PROVE At(data, adr) \in Byte
BY AtType DEF RamOK

LEMMA StackType == ASSUME TypeOK, NEW i PROVE Stack(i) \in Byte
BY AtRam DEF Stack, TypeOK

LEMMA BankType ==
    ASSUME TypeOK, NEW data, RamOK(data), NEW adr
    PROVE  read_bank(data, adr) \in Byte
<1>1. CASE hi(adr) \in DOMAIN rbank
    <2> DEFINE r == rbank[hi(adr)].rom
    <2>1. r \in DOMAIN Roms BY <1>1 DEF TypeOK
    <2>2. Block(Roms[r].data, 0 .. Roms[r].len - 1)
        BY <2>1, MemoryAssumption DEF RomOK
    <2> QED BY <1>1, <2>2, AtType DEF read_bank
<1>2. CASE hi(adr) \notin DOMAIN rbank
    BY <1>2, AtRam DEF read_bank
<1> QED BY <1>1, <1>2

LEMMA FetchType ==
    ASSUME TypeOK, NEW data, RamOK(data), NEW adr
    PROVE  Fetch(data, adr) \in Byte
BY AtRam, BankType DEF Fetch

LEMMA ReadType ==
    ASSUME TypeOK, NEW adr, NEW v \in Read(adr)
    PROVE  v \in Byte
<1>1. RamOK(ram) BY DEF TypeOK
<1>2. At(ram, adr) \in Byte /\ read_bank(ram, adr) \in Byte
    BY <1>1, AtRam, BankType
<1>3. Read_AccessMode \in AccessModes BY MemoryAssumption
<1> QED BY <1>2, <1>3, MemoryAssumption DEF Read, AccessModes

LEMMA OperandType ==
    ASSUME TypeOK, NEW mode, NEW v \in Operands(mode)
    PROVE  v \in Byte
BY ReadType DEF Operands

LEMMA WriteType ==
    ASSUME TypeOK, NEW mode, NEW adr \in EA(mode), NEW v \in Int, NEW d \in Write(adr, v)
    PROVE  RamOK(d)
<1>1. adr \in Adr /\ RamOK(ram) BY DEF EA, TypeOK
<1>2. RamOK(Stored(ram, adr, v % 256)) BY <1>1, ModByte, StoredType
<1> QED BY <1>1, <1>2 DEF Write

LEMMA Read16Type ==
    ASSUME TypeOK, NEW adr, NEW w \in Read16(adr)
    PROVE  w \in Int
<1>1. PICK l \in Read(adr), h \in Read(adr + 1) : w = to_adr(l, h)
    BY DEF Read16
<1>2. l \in Byte /\ h \in Byte BY ReadType
<1> QED BY <1>1, <1>2 DEF to_adr, Byte

-----------------------------------------------------------------------------
(* The status register *)

LEMMA SetKeepsStatus ==
    ASSUME StatusOK, NEW BITS \in SUBSET SZCV, NEW a, NEW res \in Int, NEW arg,
           set(BITS, a, res, arg), UNCHANGED jumpTable
    PROVE  StatusOK'
<1>1. result' \in 0 .. ResultBits - 1 BY KeptType DEF set
<1>2. sr' \subseteq Flags BY FlagsAre DEF set, StatusOK
<1>3. "DECIMAL" \in sr' <=> "DECIMAL" \in sr BY DEF set, SZCV, SZC, SZ
<1>4. sr' \cap SZ = {} BY DEF set, StatusOK, StatusShape, SZ
<1>5. {"BRK", "xXx"} \subseteq sr' BY DEF set, StatusOK, StatusShape, SZCV, SZC, SZ
<1> QED BY <1>1, <1>2, <1>3, <1>4, <1>5 DEF StatusOK, DecimalCoherent, StatusShape

LEMMA CarryKeepsStatus ==
    ASSUME StatusOK, NEW bit, sr' = WithCarry(sr, bit),
           result' \in 0 .. ResultBits - 1, UNCHANGED jumpTable
    PROVE  StatusOK'
BY FlagsAre DEF WithCarry, StatusOK, DecimalCoherent, StatusShape, SZ

LEMMA PulledKeepsStatus ==
    ASSUME StatusOK, NEW b, set_SR(SrFlags(b))
    PROVE  StatusOK'
<1> DEFINE s == SrFlags(b)
<1>1. s \subseteq Flags BY DEF SrFlags
<1>2. result' \in 0 .. ResultBits - 1 BY DEF set_SR, ResultBits
<1>3. sr' = (s \ SZ) \cup {"BRK", "xXx"} BY DEF set_SR
<1>4. jumpTable' = IF "DECIMAL" \in s THEN "bcd" ELSE "normal"
    BY DEF set_SR, setDec, StatusOK, DecimalCoherent
<1> QED BY <1>1, <1>2, <1>3, <1>4, FlagsAre
        DEF StatusOK, DecimalCoherent, StatusShape, SZ

LEMMA SameStatus == ASSUME StatusOK, UNCHANGED status PROVE StatusOK'
BY DEF StatusOK, DecimalCoherent, StatusShape, status

-----------------------------------------------------------------------------
(* The status a program sees *)

\* The bits 0 .. 9 of a result from which S and Z are read.
SignOf(res) == BitOf(res, 128) = 1 \/ BitOf(res, 512) = 1
ZeroOf(res) == lo(res) = 0

\* A flag of the status is S or Z of the result, or in sr.
Seen(f, flags, res) ==
    CASE f = "SIGN" -> SignOf(res)
      [] f = "ZERO" -> ZeroOf(res)
      [] OTHER      -> f \in flags

LEMMA FlagsSeen ==
    ASSUME StatusOK
    PROVE  \A f : f \in get_SR <=> Seen(f, sr, result)
BY DEF get_SR, SZ, StatusOK, StatusShape, Seen, SignOf, ZeroOf, ResultSign, ResultZero

LEMMA FlagsSeenAfter ==
    ASSUME StatusOK'
    PROVE  \A f : f \in get_SR' <=> Seen(f, sr', result')
BY DEF get_SR, SZ, StatusOK, StatusShape, Seen, SignOf, ZeroOf, ResultSign, ResultZero

LEMMA SameStatusSeen == ASSUME UNCHANGED status PROVE get_SR' = get_SR
BY DEF status, get_SR, ResultSign, ResultZero

LEMMA SameMembers == ASSUME NEW S, NEW T, \A f : f \in S <=> f \in T PROVE S = T
OBVIOUS

\* Plp and Rti.
LEMMA PulledSeen ==
    ASSUME StatusOK, StatusOK', NEW b, set_SR(SrFlags(b))
    PROVE  get_SR' = SrFlags(b) \cup {"BRK", "xXx"}
<1> DEFINE s == SrFlags(b)
           seen == get_SR'
<1>1. \A f : f \in get_SR' <=> Seen(f, sr', result') BY FlagsSeenAfter
<1>2. /\ result' = (IF "SIGN" \in s THEN 512 ELSE 0) + (IF "ZERO" \in s THEN 0 ELSE 1)
      /\ sr' = (s \ SZ) \cup {"BRK", "xXx"}
    BY DEF set_SR
<1> HIDE DEF s
<1>4. SignOf(result') <=> "SIGN" \in s BY <1>2 DEF SignOf, BitOf
<1>5. ZeroOf(result') <=> "ZERO" \in s BY <1>2 DEF ZeroOf, lo
<1>6. \A f : f \in seen <=> f \in s \cup {"BRK", "xXx"}
    BY <1>1, <1>2, <1>4, <1>5 DEF Seen, SZ
<1> HIDE DEF seen
<1>7. seen = s \cup {"BRK", "xXx"} BY <1>6, SameMembers
<1> QED BY <1>7 DEF seen, s

-----------------------------------------------------------------------------
(* Decoding and the step to the next instruction *)

LEMMA Parts == ASSUME IInv PROVE StatusOK /\ CpuOK
BY DEF IInv, TypeOK, StatusOK, CpuOK

LEMMA CarryBit == carry \in {0, 1}
BY DEF carry

LEMMA RowLemma ==
    ASSUME IInv, Decodes(Opcodes[jumpTable])
    PROVE  RowOK(row, jumpTable)
<1>1. jumpTable \in DOMAIN Opcodes BY OpcodesAssumption DEF IInv, TypeOK
<1>2. Fetch(ram, pc) \in DOMAIN Opcodes[jumpTable] BY DEF Decodes
<1> QED BY <1>1, <1>2, OpcodesAssumption DEF row

LEMMA TickLemma ==
    ASSUME IInv, RowOK(row, jumpTable), NEW n \in 0 .. 1, Tick(n)
    PROVE  cycles' \in 0 .. CyclesMax
<1>1. row.cycles \in Nat BY DEF RowOK
<1>2. CyclesMax \in Nat /\ CyclesMax + 1 \in Nat /\ CyclesMax + 1 > 0 BY ClientAssumption
<1>3. cycles + row.cycles + n \in Nat BY <1>1 DEF IInv, TypeOK
<1>4. cycles' \in 0 .. (CyclesMax + 1) - 1 BY <1>2, <1>3, ModType DEF Tick
<1> QED BY <1>2, <1>4

LEMMA ProceedLemma ==
    ASSUME IInv, RowOK(row, jumpTable), Proceed
    PROVE  pc' \in Int /\ cycles' \in 0 .. CyclesMax
<1>1. opSize(row.mode) \in Int BY DEF opSize
<1>2. pc' \in Int BY <1>1 DEF Proceed, IInv, TypeOK
<1> QED BY <1>2, TickLemma DEF Proceed

LEMMA AssignLemma ==
    ASSUME IInv, NEW r, NEW v \in Byte, Assign(r, v)
    PROVE  reg' \in [Registers -> Byte]
BY DEF Assign, IInv, TypeOK

LEMMA RegType ==
    ASSUME IInv
    PROVE  /\ \A r \in {"A", "X", "Y", "SP"} : reg[r] \in Byte
           /\ \A r \in {"A", "X", "Y", "SP"} : reg[r] \in Int
BY DEF IInv, TypeOK, Registers, Byte

-----------------------------------------------------------------------------
(* One lemma per group of opcode functions *)

LEMMA NopKeeps ==
    ASSUME IInv, RowOK(row, jumpTable), Nop
    PROVE  CpuOK' /\ StatusOK'
<1>1. StatusOK' BY Parts, SameStatus DEF Nop
<1>2. CpuOK' BY Parts, ProceedLemma DEF Nop, CpuOK
<1> QED BY <1>1, <1>2

LEMMA LoadKeeps ==
    ASSUME IInv, RowOK(row, jumpTable), Load
    PROVE  CpuOK' /\ StatusOK'
<1>1. PICK v \in Operands(row.mode) : Assign(op.reg, v) /\ set(SZ, reg["A"], v, 0)
    BY DEF Load
<1>2. v \in Byte BY OperandType DEF IInv
<1>3. reg' \in [Registers -> Byte] BY <1>1, <1>2, AssignLemma
<1>4. CpuOK' BY <1>3, Parts, ProceedLemma DEF Load, CpuOK
<1>5. StatusOK'
    <2>1. v \in Int /\ SZ \in SUBSET SZCV BY <1>2 DEF Byte, SZCV, SZC
    <2> QED BY <1>1, <2>1, Parts, SetKeepsStatus DEF Load
<1> QED BY <1>4, <1>5

LEMMA StoreKeeps ==
    ASSUME IInv, RowOK(row, jumpTable), Store
    PROVE  CpuOK' /\ StatusOK'
<1>1. PICK ea \in EA(row.mode) : ram' \in Write(ea, reg[op.reg])
    BY DEF Store
<1>2. reg[op.reg] \in Int BY RegType DEF Store, Executes, op, RowOK
<1>3. RamOK(ram') BY <1>1, <1>2, WriteType DEF IInv
<1>4. CpuOK' BY <1>3, Parts, ProceedLemma DEF Store, CpuOK
<1>5. StatusOK' BY Parts, SameStatus DEF Store
<1> QED BY <1>4, <1>5

LEMMA BranchKeeps ==
    ASSUME IInv, RowOK(row, jumpTable), Branch
    PROVE  CpuOK' /\ StatusOK'
<1>1. pc' \in Int /\ cycles' \in 0 .. CyclesMax
    <2>1. CASE check(op.flag) = op.on
        <3>1. PC8(pc + 1) \in Byte
            BY FetchType, Parts DEF PC8, CpuOK, IInv
        <3>2. Signed8(PC8(pc + 1)) \in Int BY <3>1 DEF Signed8, Byte
        <3> QED BY <2>1, <3>2, TickLemma DEF Branch, IInv, TypeOK
    <2>2. CASE check(op.flag) # op.on
        BY <2>2, ProceedLemma DEF Branch
    <2> QED BY <2>1, <2>2
<1>2. CpuOK' BY <1>1, Parts DEF Branch, CpuOK
<1>3. StatusOK' BY Parts, SameStatus DEF Branch
<1> QED BY <1>2, <1>3

LEMMA IncRegisterKeeps ==
    ASSUME IInv, RowOK(row, jumpTable), IncRegister
    PROVE  CpuOK' /\ StatusOK'
<1> DEFINE v == lo(reg[op.reg] + op.inc)
<1>1. reg[op.reg] + op.inc \in Int
    BY RegType DEF IncRegister, Executes, op, RowOK
<1>2. v \in Byte BY <1>1, LoByte
<1>3. Assign(op.reg, v) /\ set(SZ, reg["A"], v, 0) BY DEF IncRegister
<1>4. CpuOK' BY <1>2, <1>3, AssignLemma, Parts, ProceedLemma DEF IncRegister, CpuOK
<1>5. StatusOK'
    <2>1. v \in Int /\ SZ \in SUBSET SZCV BY <1>2 DEF Byte, SZCV, SZC
    <2> QED BY <1>3, <2>1, Parts, SetKeepsStatus DEF IncRegister
<1> QED BY <1>4, <1>5

LEMMA IncMemoryKeeps ==
    ASSUME IInv, RowOK(row, jumpTable), IncMemory
    PROVE  CpuOK' /\ StatusOK'
<1>1. PICK ea \in EA(row.mode) : \E v \in Read(ea) :
          ram' \in Write(ea, v + op.inc) /\ set(SZ, reg["A"], v + op.inc, 0)
    BY DEF IncMemory
<1>2. PICK v \in Read(ea) :
          ram' \in Write(ea, v + op.inc) /\ set(SZ, reg["A"], v + op.inc, 0)
    BY <1>1
<1>3. v + op.inc \in Int
    <2>1. v \in Int BY ReadType DEF IInv, Byte
    <2>2. op.inc \in Int BY DEF IncMemory, Executes, op, RowOK
    <2> QED BY <2>1, <2>2
<1>4. RamOK(ram') BY <1>2, <1>3, WriteType DEF IInv
<1>5. CpuOK' BY <1>4, Parts, ProceedLemma DEF IncMemory, CpuOK
<1>6. StatusOK'
    <2>1. SZ \in SUBSET SZCV BY DEF SZCV, SZC
    <2> QED BY <1>2, <1>3, <2>1, Parts, SetKeepsStatus DEF IncMemory
<1> QED BY <1>5, <1>6

LEMMA TransferKeeps ==
    ASSUME IInv, RowOK(row, jumpTable), Transfer
    PROVE  CpuOK' /\ StatusOK'
<1>1. reg[op.from] \in Byte
    BY RegType DEF Transfer, Executes, op, RowOK, Registers
<1>2. CpuOK' BY <1>1, AssignLemma, Parts, ProceedLemma DEF Transfer, CpuOK
<1>3. StatusOK'
    <2>1. CASE op.to = "SP"
        BY <2>1, Parts, SameStatus DEF Transfer, status
    <2>2. CASE op.to # "SP"
        <3>1. reg[op.from] \in Int /\ SZ \in SUBSET SZCV
            BY <1>1 DEF Byte, SZCV, SZC
        <3> QED BY <2>2, <3>1, Parts, SetKeepsStatus DEF Transfer
    <2> QED BY <2>1, <2>2
<1> QED BY <1>2, <1>3

LEMMA SetFlagKeeps ==
    ASSUME IInv, RowOK(row, jumpTable), Set
    PROVE  CpuOK' /\ StatusOK'
<1>1. op.flag \in Flags \ (SZ \cup {"BRK", "xXx"}) /\ op.on \in BOOLEAN
    BY DEF Set, Executes, op, RowOK
<1>2. CpuOK' BY Parts, ProceedLemma DEF Set, CpuOK
<1>3. sr' = IF op.on THEN sr \cup {op.flag} ELSE sr \ {op.flag} BY DEF Set
<1>4. jumpTable' = IF op.flag = "DECIMAL"
                      THEN IF op.on THEN "bcd" ELSE "normal" ELSE jumpTable
    BY DEF Set, setDec
<1>5. StatusOK'
    BY <1>1, <1>3, <1>4, Parts DEF Set, StatusOK, DecimalCoherent, StatusShape
<1> QED BY <1>2, <1>5

LEMMA BitKeeps ==
    ASSUME IInv, RowOK(row, jumpTable), Bit
    PROVE  CpuOK' /\ StatusOK'
<1>1. PICK z \in Operands(row.mode) :
          /\ result' = BitAnd(z, reg["A"]) + (IF BitOf(z, 128) = 1 THEN 512 ELSE 0)
          /\ sr' = (sr \ {"OVER"}) \cup {f \in {"OVER"} : BitOf(z, 64) = 1}
    BY DEF Bit
<1>2. BitAnd(z, reg["A"]) \in Byte BY OperandType, RegType, LogicType DEF IInv
<1>3. result' \in 0 .. ResultBits - 1 BY <1>1, <1>2 DEF Byte, ResultBits
<1>4. CpuOK' BY Parts, ProceedLemma DEF Bit, CpuOK
<1>5. StatusOK'
    BY <1>1, <1>3, Parts, FlagsAre DEF Bit, StatusOK, DecimalCoherent, StatusShape, SZ
<1> QED BY <1>4, <1>5

LEMMA CmpKeeps ==
    ASSUME IInv, RowOK(row, jumpTable), Cmp
    PROVE  CpuOK' /\ StatusOK'
<1>1. PICK z \in Operands(row.mode) :
          set(SZC, reg["A"], reg[op.reg] + Complement(z) + 1, 0)
    BY DEF Cmp
<1>2. reg[op.reg] + Complement(z) + 1 \in Int
    <2>1. reg[op.reg] \in Int BY RegType DEF Cmp, Executes, op, RowOK
    <2>2. Complement(z) \in Int BY OperandType DEF IInv, Complement, Byte
    <2> QED BY <2>1, <2>2
<1>3. SZC \in SUBSET SZCV BY DEF SZCV
<1>4. StatusOK' BY <1>1, <1>2, <1>3, Parts, SetKeepsStatus DEF Cmp
<1>5. CpuOK' BY Parts, ProceedLemma DEF Cmp, CpuOK
<1> QED BY <1>4, <1>5

\* ADC and SBC write back a byte and set all four of their flags.
LEMMA ArithmeticKeeps ==
    ASSUME IInv, RowOK(row, jumpTable), Proceed, UNCHANGED <<ram, jumpTable>>,
           NEW v \in Byte, NEW rc \in Int, NEW arg,
           Assign("A", v), set(SZCV, reg["A"], rc, arg)
    PROVE  CpuOK' /\ StatusOK'
<1>1. CpuOK' BY AssignLemma, Parts, ProceedLemma DEF CpuOK
<1>2. StatusOK' BY Parts, SetKeepsStatus
<1> QED BY <1>1, <1>2

LEMMA AccumulatorByte == ASSUME IInv PROVE reg["A"] \in Byte
BY RegType

LEMMA AdcKeeps ==
    ASSUME IInv, RowOK(row, jumpTable), Adc
    PROVE  CpuOK' /\ StatusOK'
<1> DEFINE rc(z) == AdcBinary(reg["A"], z, carry)
<1>1. PICK z \in Operands(row.mode) :
          Assign("A", lo(rc(z))) /\ set(SZCV, reg["A"], rc(z), z)
    BY DEF Adc
<1>2. rc(z) \in Int BY OperandType, AccumulatorByte, CarryBit, AluType DEF IInv
<1>3. lo(rc(z)) \in Byte BY <1>2, LoByte
<1> HIDE DEF rc
<1> QED BY <1>1, <1>2, <1>3, ArithmeticKeeps DEF Adc

LEMMA AdcDecimalKeeps ==
    ASSUME IInv, RowOK(row, jumpTable), AdcDecimal
    PROVE  CpuOK' /\ StatusOK'
<1> DEFINE rc(z) == AdcDecimalSum(reg["A"], z, carry)
<1>1. PICK z \in Operands(row.mode) :
          Assign("A", lo(rc(z))) /\ set(SZCV, reg["A"], rc(z), z)
    BY DEF AdcDecimal
<1>2. rc(z) \in Int BY OperandType, AccumulatorByte, CarryBit, AluType DEF IInv
<1>3. lo(rc(z)) \in Byte BY <1>2, LoByte
<1> HIDE DEF rc
<1> QED BY <1>1, <1>2, <1>3, ArithmeticKeeps DEF AdcDecimal

LEMMA SbcKeeps ==
    ASSUME IInv, RowOK(row, jumpTable), Sbc
    PROVE  CpuOK' /\ StatusOK'
<1> DEFINE rc(m) == AdcBinary(reg["A"], Complement(m), carry)
<1>1. PICK m \in Operands(row.mode) :
          Assign("A", lo(rc(m))) /\ set(SZCV, reg["A"], rc(m), Complement(m))
    BY DEF Sbc
<1>2. Complement(m) \in Byte
    BY OperandType, AccumulatorByte, CarryBit, AluType DEF IInv
<1>3. rc(m) \in Int BY <1>2, AccumulatorByte, CarryBit, AluType
<1>4. lo(rc(m)) \in Byte BY <1>3, LoByte
<1> HIDE DEF rc
<1> QED BY <1>1, <1>3, <1>4, ArithmeticKeeps DEF Sbc

LEMMA SbcDecimalKeeps ==
    ASSUME IInv, RowOK(row, jumpTable), SbcDecimal
    PROVE  CpuOK' /\ StatusOK'
<1>1. PICK z \in Operands(row.mode) :
          /\ Assign("A", SbcDecimalDigits(reg["A"], z, carry))
          /\ set(SZCV, reg["A"], SbcDecimalRc(reg["A"], z, carry), z)
    BY DEF SbcDecimal
<1>2. /\ SbcDecimalDigits(reg["A"], z, carry) \in Byte
      /\ SbcDecimalRc(reg["A"], z, carry) \in Int
    BY OperandType, AccumulatorByte, CarryBit, AluType, SbcDigitsType DEF IInv
<1> QED BY <1>1, <1>2, ArithmeticKeeps DEF SbcDecimal

\* AND, ORA and EOR.
LEMMA LogicKeeps ==
    ASSUME IInv, RowOK(row, jumpTable), Proceed, UNCHANGED <<ram, jumpTable>>,
           NEW v \in Byte, Assign("A", v), set(SZ, reg["A"], v, 0)
    PROVE  CpuOK' /\ StatusOK'
<1>1. CpuOK' BY AssignLemma, Parts, ProceedLemma DEF CpuOK
<1>2. v \in Int /\ SZ \in SUBSET SZCV BY DEF Byte, SZCV, SZC
<1>3. StatusOK' BY <1>2, Parts, SetKeepsStatus
<1> QED BY <1>1, <1>3

LEMMA AndKeeps ==
    ASSUME IInv, RowOK(row, jumpTable), And PROVE CpuOK' /\ StatusOK'
<1>1. PICK z \in Operands(row.mode) :
          Assign("A", BitAnd(reg["A"], z)) /\ set(SZ, reg["A"], BitAnd(reg["A"], z), 0)
    BY DEF And, Logic
<1>2. BitAnd(reg["A"], z) \in Byte BY OperandType, AccumulatorByte, LogicType DEF IInv
<1> QED BY <1>1, <1>2, LogicKeeps DEF And, Logic

LEMMA OraKeeps ==
    ASSUME IInv, RowOK(row, jumpTable), Ora PROVE CpuOK' /\ StatusOK'
<1>1. PICK z \in Operands(row.mode) :
          Assign("A", BitOr(reg["A"], z)) /\ set(SZ, reg["A"], BitOr(reg["A"], z), 0)
    BY DEF Ora, Logic
<1>2. BitOr(reg["A"], z) \in Byte BY OperandType, AccumulatorByte, LogicType DEF IInv
<1> QED BY <1>1, <1>2, LogicKeeps DEF Ora, Logic

LEMMA EorKeeps ==
    ASSUME IInv, RowOK(row, jumpTable), Eor PROVE CpuOK' /\ StatusOK'
<1>1. PICK z \in Operands(row.mode) :
          Assign("A", BitXor(reg["A"], z)) /\ set(SZ, reg["A"], BitXor(reg["A"], z), 0)
    BY DEF Eor, Logic
<1>2. BitXor(reg["A"], z) \in Byte BY OperandType, AccumulatorByte, LogicType DEF IInv
<1> QED BY <1>1, <1>2, LogicKeeps DEF Eor, Logic

LEMMA ShiftRegisterKeeps ==
    ASSUME IInv, RowOK(row, jumpTable), NEW fn \in Shifts, ShiftRegister(fn)
    PROVE  CpuOK' /\ StatusOK'
<1> DEFINE s == Shifted(fn, reg["A"], carry)
<1>1. Assign("A", lo(s.rc)) /\ result' = s.rc /\ sr' = WithCarry(sr, s.out)
    BY DEF ShiftRegister
<1>2. s.rc \in 0 .. 511 BY AccumulatorByte, CarryBit, ShiftedType
<1>3. s.rc \in Int /\ result' \in 0 .. ResultBits - 1 BY <1>1, <1>2 DEF ResultBits
<1>4. lo(s.rc) \in Byte BY <1>3, LoByte
<1> HIDE DEF s
<1>5. CpuOK' BY <1>1, <1>4, AssignLemma, Parts, ProceedLemma DEF ShiftRegister, CpuOK
<1>6. StatusOK' BY <1>1, <1>3, Parts, CarryKeepsStatus DEF ShiftRegister
<1> QED BY <1>5, <1>6

LEMMA ShiftMemoryKeeps ==
    ASSUME IInv, RowOK(row, jumpTable), NEW fn \in Shifts, ShiftMemory(fn)
    PROVE  CpuOK' /\ StatusOK'
<1> DEFINE s(v) == Shifted(fn, v, carry)
<1>1. PICK ea \in EA(row.mode) : \E v \in Read(ea) :
          ram' \in Write(ea, s(v).rc) /\ result' = s(v).rc /\ sr' = WithCarry(sr, s(v).out)
    BY DEF ShiftMemory
<1>2. PICK v \in Read(ea) :
          ram' \in Write(ea, s(v).rc) /\ result' = s(v).rc /\ sr' = WithCarry(sr, s(v).out)
    BY <1>1
<1>3. v \in Byte BY ReadType DEF IInv
<1>4. s(v).rc \in 0 .. 511 BY <1>3, CarryBit, ShiftedType
<1>5. s(v).rc \in Int /\ result' \in 0 .. ResultBits - 1 BY <1>2, <1>4 DEF ResultBits
<1> HIDE DEF s
<1>6. RamOK(ram') BY <1>2, <1>5, WriteType DEF IInv
<1>7. CpuOK' BY <1>6, Parts, ProceedLemma DEF ShiftMemory, CpuOK
<1>8. StatusOK' BY <1>2, <1>5, Parts, CarryKeepsStatus DEF ShiftMemory
<1> QED BY <1>7, <1>8

-----------------------------------------------------------------------------
(* The stack operations and the control transfers *)

LEMMA SPType == ASSUME IInv, NEW n \in Int PROVE SP(n) \in Byte
<1>1. reg["SP"] + n \in Int BY RegType
<1> QED BY <1>1, ModByte DEF SP

LEMMA PhaKeeps ==
    ASSUME IInv, RowOK(row, jumpTable), Pha PROVE CpuOK' /\ StatusOK'
<1>1. RamOK(ram')
    <2>1. reg["SP"] \in -2 .. 255 /\ reg["A"] \in Int BY RegType DEF Byte
    <2> QED BY <2>1, Parts, PushType DEF Pha, CpuOK
<1>2. SP(-1) \in Byte BY SPType
<1>3. CpuOK' BY <1>1, <1>2, AssignLemma, Parts, ProceedLemma DEF Pha, CpuOK
<1>4. StatusOK' BY Parts, SameStatus DEF Pha
<1> QED BY <1>3, <1>4

LEMMA PlaKeeps ==
    ASSUME IInv, RowOK(row, jumpTable), Pla PROVE CpuOK' /\ StatusOK'
<1>1. SP(1) \in Byte /\ Stack(SP(1)) \in Byte BY SPType, StackType DEF IInv
<1>2. reg' \in [Registers -> Byte] BY <1>1 DEF Pla, IInv, TypeOK
<1>3. CpuOK' BY <1>2, Parts, ProceedLemma DEF Pla, CpuOK
<1>4. StatusOK' BY Parts, SameStatus DEF Pla
<1> QED BY <1>3, <1>4

LEMMA PhpKeeps ==
    ASSUME IInv, RowOK(row, jumpTable), Php PROVE CpuOK' /\ StatusOK'
<1>1. RamOK(ram')
    <2>1. reg["SP"] \in -2 .. 255 BY RegType DEF Byte
    <2>2. SrByte(get_SR) \in Int BY SrByteType DEF Byte
    <2> QED BY <2>1, <2>2, Parts, PushType DEF Php, CpuOK
<1>2. SP(-1) \in Byte BY SPType
<1>3. CpuOK' BY <1>1, <1>2, AssignLemma, Parts, ProceedLemma DEF Php, CpuOK
<1>4. StatusOK' BY Parts, SameStatus DEF Php
<1> QED BY <1>3, <1>4

LEMMA PlpKeeps ==
    ASSUME IInv, RowOK(row, jumpTable), Plp PROVE CpuOK' /\ StatusOK'
<1>1. SP(1) \in Byte BY SPType
<1>2. CpuOK' BY <1>1, AssignLemma, Parts, ProceedLemma DEF Plp, CpuOK
<1>3. StatusOK' BY Parts, PulledKeepsStatus DEF Plp
<1> QED BY <1>2, <1>3

LEMMA ToAdrType == ASSUME NEW l \in Byte, NEW h \in Byte PROVE to_adr(l, h) \in Int
BY DEF to_adr, Byte

LEMMA StackWord ==
    ASSUME IInv, NEW i, NEW j
    PROVE  to_adr(Stack(i), Stack(j)) \in Int
<1>1. Stack(i) \in Byte /\ Stack(j) \in Byte BY StackType DEF IInv
<1> QED BY <1>1, ToAdrType

LEMMA RtiKeeps ==
    ASSUME IInv, RowOK(row, jumpTable), Rti PROVE CpuOK' /\ StatusOK'
<1>1. SP(3) \in Byte BY SPType
<1>2. pc' \in Int BY StackWord DEF Rti
<1>3. cycles' \in 0 .. CyclesMax BY TickLemma DEF Rti
<1>4. CpuOK' BY <1>1, <1>2, <1>3, AssignLemma, Parts DEF Rti, CpuOK
<1>5. StatusOK' BY Parts, PulledKeepsStatus DEF Rti
<1> QED BY <1>4, <1>5

\* Two bytes of an address, pushed as JSR and BRK do, leave a RAM.
LEMMA PushWordType ==
    ASSUME IInv
    PROVE  RamOK(Push(Push(ram, reg["SP"], hi(pc + 2)), reg["SP"] - 1, pc + 2))
<1>1. pc + 2 \in Int /\ hi(pc + 2) \in Int BY DEF IInv, TypeOK, hi
<1>2. reg["SP"] \in -2 .. 255 /\ reg["SP"] - 1 \in -2 .. 255 BY RegType DEF Byte
<1>3. RamOK(Push(ram, reg["SP"], hi(pc + 2)))
    BY <1>1, <1>2, Parts, PushType DEF CpuOK
<1> QED BY <1>1, <1>2, <1>3, PushType

LEMMA BrkKeeps ==
    ASSUME IInv, RowOK(row, jumpTable), Brk PROVE CpuOK' /\ StatusOK'
<1>1. RamOK(ram')
    <2>1. reg["SP"] - 2 \in -2 .. 255 BY RegType DEF Byte
    <2>2. SrByte(get_SR) \in Int BY SrByteType DEF Byte
    <2> QED BY <2>1, <2>2, PushWordType, PushType DEF Brk
<1>2. SP(-3) \in Byte BY SPType
<1>3. pc' \in Int BY Read16Type DEF Brk, IInv
<1>4. cycles' \in 0 .. CyclesMax BY TickLemma DEF Brk
<1>5. CpuOK' BY <1>1, <1>2, <1>3, <1>4, AssignLemma DEF Brk, CpuOK
<1>6. StatusOK' BY Parts, SameStatus DEF Brk
<1> QED BY <1>5, <1>6

LEMMA RtsExitKeeps ==
    ASSUME IInv, RowOK(row, jumpTable), RtsExit PROVE CpuOK' /\ StatusOK'
<1>1. CyclesMax \in Nat /\ CyclesMax > 64 BY ClientAssumption
<1>2. row.cycles \in 2 .. 7 BY DEF RowOK
<1>3. CyclesMax - 32 + row.cycles \in Nat BY <1>1, <1>2
<1>4. cycles' \in 0 .. (CyclesMax + 1) - 1 BY <1>1, <1>3, ModType DEF RtsExit
<1>5. cycles' \in 0 .. CyclesMax BY <1>1, <1>4
<1>6. pc' \in Int BY Parts DEF RtsExit, CpuOK
<1>7. CpuOK' BY <1>5, <1>6, Parts DEF RtsExit, CpuOK
<1>8. StatusOK' BY Parts, SameStatus DEF RtsExit
<1> QED BY <1>7, <1>8

LEMMA RtsKeeps ==
    ASSUME IInv, RowOK(row, jumpTable), Rts PROVE CpuOK' /\ StatusOK'
<1>1. SP(2) \in Byte BY SPType
<1>2. pc' \in Int BY StackWord DEF Rts
<1>3. cycles' \in 0 .. CyclesMax BY TickLemma DEF Rts
<1>4. CpuOK' BY <1>1, <1>2, <1>3, AssignLemma, Parts DEF Rts, CpuOK
<1>5. StatusOK' BY Parts, SameStatus DEF Rts
<1> QED BY <1>4, <1>5

LEMMA JmpKeeps ==
    ASSUME IInv, RowOK(row, jumpTable), Jmp PROVE CpuOK' /\ StatusOK'
<1>1. pc' \in Adr BY DEF Jmp, EA
<1>2. pc' \in Int BY <1>1 DEF Adr
<1>3. cycles' \in 0 .. CyclesMax BY TickLemma DEF Jmp
<1>4. CpuOK' BY <1>2, <1>3, Parts DEF Jmp, CpuOK
<1>5. StatusOK' BY Parts, SameStatus DEF Jmp
<1> QED BY <1>4, <1>5

LEMMA JsrKeeps ==
    ASSUME IInv, RowOK(row, jumpTable), Jsr PROVE CpuOK' /\ StatusOK'
<1> DEFINE pushed == Push(Push(ram, reg["SP"], hi(pc + 2)), reg["SP"] - 1, pc + 2)
<1>1. ram' = pushed /\ pc' = to_adr(Fetch(pushed, pc + 1), Fetch(pushed, pc + 2))
    BY DEF Jsr
<1>2. RamOK(pushed) BY PushWordType
<1> HIDE DEF pushed
<1>3. Fetch(pushed, pc + 1) \in Byte /\ Fetch(pushed, pc + 2) \in Byte
    BY <1>2, FetchType DEF IInv
<1>4. pc' \in Int BY <1>1, <1>3 DEF to_adr, Byte
<1>5. SP(-2) \in Byte BY SPType
<1>6. cycles' \in 0 .. CyclesMax BY TickLemma DEF Jsr
<1>7. CpuOK' BY <1>1, <1>2, <1>4, <1>5, <1>6, AssignLemma DEF Jsr, CpuOK
<1>8. StatusOK' BY Parts, SameStatus DEF Jsr
<1> QED BY <1>7, <1>8

-----------------------------------------------------------------------------
(* The steps *)

LEMMA ExecuteKeeps ==
    ASSUME IInv, RowOK(row, jumpTable), Execute
    PROVE  CpuOK' /\ StatusOK'
BY NopKeeps, LoadKeeps, StoreKeeps, BranchKeeps, IncRegisterKeeps, IncMemoryKeeps,
   TransferKeeps, SetFlagKeeps, BitKeeps, CmpKeeps, AdcKeeps, AdcDecimalKeeps,
   SbcKeeps, SbcDecimalKeeps, AndKeeps, OraKeeps, EorKeeps, ShiftRegisterKeeps,
   ShiftMemoryKeeps, PhaKeeps, PlaKeeps, PhpKeeps, PlpKeeps, RtiKeeps, BrkKeeps,
   RtsExitKeeps, RtsKeeps, JmpKeeps, JsrKeeps DEF Execute

LEMMA StepKeeps == ASSUME IInv, Step PROVE IInv'
<1>1. RowOK(row, jumpTable) BY RowLemma DEF Step
<1>2. CpuOK' /\ StatusOK' BY <1>1, ExecuteKeeps DEF Step
<1>3. UNCHANGED client BY DEF Step
<1> QED BY <1>2, <1>3 DEF IInv, TypeOK, CpuOK, StatusOK, client

LEMMA PagesType ==
    ASSUME NEW bank \in Page, NEW len PROVE PagesFrom(bank, len) \subseteq Page
<1>1. \A i \in Int : (bank + i) % 256 \in Page BY DEF Page
<1> QED BY <1>1 DEF PagesFrom

LEMMA MapRomKeeps ==
    ASSUME IInv, NEW bank \in Page, NEW r \in DOMAIN Roms, mapRom(bank, r)
    PROVE  /\ DOMAIN rbank' \subseteq Page
           /\ \A p \in DOMAIN rbank' :
                 rbank'[p].rom \in DOMAIN Roms /\ rbank'[p].page \in Page
<1> DEFINE covered == PagesFrom(bank, Roms[r].len)
<1>1. covered \subseteq Page BY PagesType
<1>2. \A p \in Page : (p - bank) % 256 \in Page BY DEF Page
<1>3. rbank' = [p \in DOMAIN rbank \cup covered |->
                  IF p \in covered THEN [rom |-> r, page |-> (p - bank) % 256]
                                   ELSE rbank[p]]
    BY DEF mapRom
<1> HIDE DEF covered
<1> QED BY <1>1, <1>2, <1>3 DEF IInv, TypeOK

LEMMA MapMemoryKeeps == ASSUME IInv, MapMemory PROVE IInv'
<1>1. PICK bank \in Banks : \/ \E r \in DOMAIN Roms : mapRom(bank, r)
                            \/ mapReadCallback(bank, 256)
                            \/ mapWriteCallback(bank, 256)
    BY DEF MapMemory
<1>2. bank \in Page BY ClientAssumption
<1>3. PagesFrom(bank, 256) \subseteq Page BY <1>2, PagesType
<1>4. UNCHANGED <<reg, pc, cycles, status, toCycles, phase, calls, ram>>
    BY <1>1 DEF MapMemory, mapRom, mapReadCallback, mapWriteCallback
<1>5. /\ DOMAIN rbank' \subseteq Page
      /\ \A p \in DOMAIN rbank' :
            rbank'[p].rom \in DOMAIN Roms /\ rbank'[p].page \in Page
      /\ rcallbacks' \subseteq Page /\ wcallbacks' \subseteq Page
    <2>1. CASE \E r \in DOMAIN Roms : mapRom(bank, r)
        BY <1>2, <2>1, MapRomKeeps DEF mapRom, IInv, TypeOK
    <2>2. CASE mapReadCallback(bank, 256)
        BY <1>3, <2>2 DEF mapReadCallback, IInv, TypeOK
    <2>3. CASE mapWriteCallback(bank, 256)
        BY <1>3, <2>3 DEF mapWriteCallback, IInv, TypeOK
    <2> QED BY <1>1, <2>1, <2>2, <2>3
<1> QED BY <1>4, <1>5
        DEF IInv, TypeOK, DecimalCoherent, StatusShape, status, calls

LEMMA WriteRamKeeps == ASSUME IInv, WriteRam PROVE IInv'
<1>1. PICK image \in Images : ram' = Overlaid(ram, image) BY DEF WriteRam
<1>2. RamOK(image) BY ClientAssumption
<1>3. RamOK(ram') BY <1>1, <1>2 DEF RamOK, Block, Overlaid, IInv, TypeOK
<1>4. writes' \in 0 .. MaxWrites BY ClientAssumption DEF WriteRam, IInv, TypeOK
<1> QED BY <1>3, <1>4 DEF WriteRam, IInv, TypeOK, DecimalCoherent, StatusShape,
                          status, mapping

LEMMA SetPCKeeps == ASSUME IInv, SetPC PROVE IInv'
<1>1. PICK p \in EntryPoints : pc' = Signed16(p) BY DEF SetPC
<1>2. p \in Int BY ClientAssumption DEF Adr
<1>3. pc' \in Int BY <1>1, <1>2 DEF Signed16
<1> QED BY <1>3 DEF SetPC, IInv, TypeOK, DecimalCoherent, StatusShape,
                    status, memory, calls

LEMMA RunKeeps == ASSUME IInv, Run PROVE IInv'
<1>1. PICK budget \in Budgets : toCycles' = budget BY DEF Run
<1>2. toCycles' \in 0 .. CyclesMax /\ 0 \in 0 .. CyclesMax BY <1>1, ClientAssumption
<1>3. runs' \in 0 .. MaxRuns BY ClientAssumption DEF Run, IInv, TypeOK
<1> QED BY <1>2, <1>3 DEF Run, IInv, TypeOK, DecimalCoherent, StatusShape,
                          status, memory

LEMMA LoopEndKeeps == ASSUME IInv, Undefined \/ RunReturns PROVE IInv'
BY DEF Undefined, RunReturns, IInv, TypeOK, DecimalCoherent, StatusShape,
       status, memory, calls

LEMMA NextKeeps == ASSUME IInv, [Next]_vars PROVE IInv'
<1>1. CASE Step BY <1>1, StepKeeps
<1>2. CASE Undefined \/ RunReturns BY <1>2, LoopEndKeeps
<1>3. CASE WriteRam BY <1>3, WriteRamKeeps
<1>4. CASE SetPC BY <1>4, SetPCKeeps
<1>5. CASE Run BY <1>5, RunKeeps
<1>6. CASE MapMemory BY <1>6, MapMemoryKeeps
<1>7. CASE UNCHANGED vars
    BY <1>7 DEF vars, IInv, TypeOK, DecimalCoherent, StatusShape
<1> QED BY <1>1, <1>2, <1>3, <1>4, <1>5, <1>6, <1>7 DEF Next, Loop, Client

LEMMA InitEstablishes == ASSUME Init PROVE IInv
<1>1. RamOK(<<>>) BY DEF RamOK, Block
<1>2. reg \in [Registers -> Byte] BY DEF Init, Registers, Byte
<1>3. pc \in Int BY ClientAssumption DEF Init
<1>4. {"BRK", "xXx"} \subseteq Flags BY FlagsAre
<1>5. /\ 0 \in 0 .. ResultBits - 1 /\ 0 \in 0 .. CyclesMax
      /\ 0 \in 0 .. MaxWrites /\ 0 \in 0 .. MaxRuns
    BY ClientAssumption DEF ResultBits
<1> QED BY <1>1, <1>2, <1>3, <1>4, <1>5
        DEF Init, MemoryInit, IInv, TypeOK, DecimalCoherent, StatusShape, SZ

\* The inductive invariant: in every state of the machine each variable has
\* its type, the jump table agrees with the D flag, and sr holds neither S nor Z.
THEOREM Invariance == Spec => []IInv
<1>1. Init => IInv BY InitEstablishes
<1>2. IInv /\ [Next]_vars => IInv' BY NextKeeps
<1> QED BY <1>1, <1>2, PTL DEF Spec

\* Every variable of the machine keeps its type: whatever the program does,
\* the registers and the bytes in RAM are bytes, result has the bits the flags
\* are read from, cycles is a uint32_t; only pc leaves its 16 bits.
THEOREM TypeCorrect == Spec => []TypeOK
<1>1. IInv => TypeOK BY DEF IInv
<1> QED BY <1>1, Invariance, PTL

\* After SED, CLD, PLP, RTI and anything else, in any order, ADC and SBC are
\* decimal exactly when the D flag is set (emulator.h setDec, set_SR, Set).
THEOREM DecimalStaysCoherent == Spec => []DecimalCoherent
<1>1. IInv => DecimalCoherent BY DEF IInv
<1> QED BY <1>1, Invariance, PTL

\* No instruction leaves S or Z in sr, where get_SR() would or a stale flag
\* into the status, or clears one of the two bits that always read 1
\* (emulator.h get_SR, set_SR, set).
THEOREM StatusKeepsShape == Spec => []StatusShape
<1>1. IInv => StatusShape BY DEF IInv
<1> QED BY <1>1, Invariance, PTL

-----------------------------------------------------------------------------
(* The cycle count *)

\* Where the count may stand when the loop condition is evaluated.
Counted ==
    \/ cycles \in 0 .. toCycles + 6
    \/ ExitOnStackWrap /\ cycles = CyclesMax - 26

\* toCycles keeps away from the largest uint32_t, and a run that returns has
\* used up its budget.
BudgetInv ==
    /\ toCycles + 7 <= CyclesMax
    /\ phase \in {"idle", "running"} /\ runs > 0 => Counted
    /\ phase = "idle" /\ runs > 0 => cycles >= toCycles
    /\ phase = "running" => runs > 0

LEMMA TickCounts ==
    ASSUME IInv, BudgetInv, RowOK(row, jumpTable), InLoop,
           NEW n \in 0 .. 1, n = 1 => row.cycles < 7, Tick(n), toCycles' = toCycles
    PROVE  Counted'
<1>1. /\ row.cycles \in 2 .. 7 /\ cycles \in Nat /\ toCycles \in Nat
      /\ CyclesMax \in Nat
    BY ClientAssumption DEF RowOK, IInv, TypeOK
<1>2. cycles + row.cycles + n \in 0 .. toCycles + 6 BY <1>1 DEF InLoop
<1>3. cycles + row.cycles + n < CyclesMax + 1 BY <1>1, <1>2 DEF BudgetInv
<1>4. (cycles + row.cycles + n) % (CyclesMax + 1) = cycles + row.cycles + n
    <2> DEFINE t == cycles + row.cycles + n
    <2>1. t \in Nat BY <1>1
    <2>2. \A i, m \in Nat : i < m => i % m = i OBVIOUS
    <2> HIDE DEF t
    <2> QED BY <1>1, <1>3, <2>1, <2>2 DEF t
<1> QED BY <1>2, <1>4 DEF Tick, Counted

LEMMA ExecuteCounts ==
    ASSUME IInv, BudgetInv, RowOK(row, jumpTable), InLoop, Execute, toCycles' = toCycles
    PROVE  Counted'
<1>1. CASE RtsExit
    <2>1. row.cycles = 6 BY <1>1 DEF RtsExit, Executes, op, RowOK
    <2>2. CyclesMax \in Nat /\ CyclesMax > 64 BY ClientAssumption
    <2>3. (CyclesMax - 32 + 6) % (CyclesMax + 1) = CyclesMax - 26
        <3>1. \A i, m \in Nat : i < m => i % m = i OBVIOUS
        <3> QED BY <2>2, <3>1
    <2>4. ExitOnStackWrap /\ cycles' = CyclesMax - 26
        BY <1>1, <2>1, <2>3 DEF RtsExit
    <2> QED BY <2>4 DEF Counted
<1>2. CASE Branch
    <2>1. Tick(0) \/ Tick(1) BY <1>2 DEF Branch, Proceed
    <2>2. row.cycles < 7 BY <1>2 DEF Branch, Executes, op, RowOK
    <2> QED BY <2>1, <2>2, TickCounts
<1>3. CASE ~RtsExit /\ ~Branch
    <2>1. Tick(0)
        BY <1>3 DEF Execute, Proceed, Nop, Load, Store, IncRegister, IncMemory,
           Transfer, Set, Bit, Cmp, Adc, AdcDecimal, Sbc, SbcDecimal, And, Ora, Eor,
           Logic, ShiftRegister, ShiftMemory, Pha, Pla, Php, Plp, Rti, Brk, Rts, Jmp,
           Jsr
    <2> QED BY <2>1, TickCounts
<1> QED BY <1>1, <1>2, <1>3

\* If no budget comes within an instruction of the largest uint32_t, a run()
\* that returns has used its budget up by less than one more instruction, or
\* an RTS with an empty stack ended it; the count never wraps around.
THEOREM BudgetIsKept ==
    ASSUME \A b \in Budgets : b + 7 <= CyclesMax
    PROVE  Spec => []BudgetKept
<1>1. Init => BudgetInv BY ClientAssumption DEF Init, BudgetInv
<1>2. ASSUME IInv, BudgetInv, [Next]_vars PROVE BudgetInv'
    <2>1. CASE Step
        <3>1. RowOK(row, jumpTable) BY <1>2, <2>1, RowLemma DEF Step
        <3>2. UNCHANGED <<toCycles, phase, runs>> /\ phase = "running"
            BY <2>1 DEF Step, client, InLoop
        <3>3. Counted' BY <2>1, <3>1, <3>2, ExecuteCounts, <1>2 DEF Step
        <3> QED BY <1>2, <3>2, <3>3 DEF BudgetInv
    <2>2. CASE Undefined
        BY <1>2, <2>2 DEF Undefined, BudgetInv
    <2>3. CASE RunReturns
        BY <1>2, <2>3 DEF RunReturns, BudgetInv, Counted, calls
    <2>4. CASE Run
        <3>1. toCycles' \in Budgets BY <2>4 DEF Run
        <3>2. toCycles' \in Nat BY <3>1, ClientAssumption
        <3>3. cycles' = 0 /\ phase' = "running" /\ runs' > 0
            BY <1>2, <2>4 DEF Run, IInv, TypeOK
        <3>4. toCycles' + 7 <= CyclesMax BY <3>1
        <3>5. \A n \in Nat : 0 \in 0 .. n + 6 OBVIOUS
        <3>6. cycles' \in 0 .. toCycles' + 6 BY <3>2, <3>3, <3>5
        <3> QED BY <3>3, <3>4, <3>6 DEF BudgetInv, Counted
    <2>5. CASE WriteRam \/ SetPC \/ MapMemory
        BY <1>2, <2>5 DEF WriteRam, SetPC, MapMemory, BudgetInv, Counted, calls
    <2>6. CASE UNCHANGED vars
        BY <1>2, <2>6 DEF vars, BudgetInv, Counted
    <2> QED BY <1>2, <2>1, <2>2, <2>3, <2>4, <2>5, <2>6 DEF Next, Loop, Client
<1>3. IInv /\ BudgetInv => BudgetKept
    BY ClientAssumption DEF IInv, TypeOK, BudgetInv, Counted, BudgetKept
<1> QED BY <1>1, <1>2, <1>3, Invariance, PTL DEF Spec

=============================================================================
