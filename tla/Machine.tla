------------------------------ MODULE Machine ------------------------------
(***************************************************************************)
(* sixfive::Machine<POLICY> of src/emulator.h: the registers, the run loop *)
(* and one action per opcode function, with the client that fills memory,  *)
(* sets the pc and calls run().                                            *)
(*                                                                         *)
(* `pc` is the code's 32-bit `unsigned pc`, read as a signed number: it is *)
(* never masked to 16 bits, so it can leave Adr at either end.             *)
(* An access outside the arrays it indexes, and an opcode that has no row  *)
(* (whose `op` pointer was never initialised), is undefined behaviour: the *)
(* phase becomes "undefined" and nothing is said of what follows.          *)
(***************************************************************************)
EXTENDS StatusRegister, Addressing

CONSTANTS
    Opcodes,          \* the rows of jumpTable_normal and jumpTable_bcd by code
    ExitOnStackWrap,  \* POLICY::ExitOnStackWrap
    CyclesMax,        \* the largest uint32_t, scaled down
    GarbagePC,        \* what the uninitialised pc may hold
    Images,           \* blocks of bytes the client writes to RAM
    EntryPoints,      \* uint16_t values the client passes to setPC
    Budgets,          \* values the client passes to run
    Banks,            \* banks the client maps something at
    MaxWrites,        \* bound: WriteRam calls
    MaxRuns           \* bound: Run calls

Shifts == {"Asl", "Lsr", "Ror", "Rol"}

\* What the opcode functions are instantiated with.
RowOK(r, table) ==
    /\ r.cycles \in 2 .. 7 /\ r.mode \in Modes
    /\ r.op.fn \in {"Load", "Cmp"} =>
          r.op.reg \in {"A", "X", "Y"} /\ r.mode \in OperandModes
    /\ r.op.fn = "Store" => r.op.reg \in {"A", "X", "Y"} /\ r.mode \in MemoryModes
    /\ r.op.fn \in {"Adc", "Sbc"} =>
          r.op.dec = (table = "bcd") /\ r.mode \in OperandModes
    /\ r.op.fn \in {"And", "Ora", "Eor", "Bit"} => r.mode \in OperandModes
    /\ r.op.fn = "Inc" =>
          /\ r.op.inc \in {-1, 1} /\ r.mode \in MemoryModes \cup {"NONE"}
          /\ r.mode = "NONE" => r.op.reg \in {"X", "Y"}
    /\ r.op.fn \in Shifts => r.mode \in MemoryModes \cup {"ACC"}
    /\ r.op.fn = "Transfer" => r.op.from \in Registers /\ r.op.to \in Registers
    /\ r.op.fn = "Branch" =>
          r.op.flag \in Flags /\ r.op.on \in BOOLEAN /\ r.mode = "REL"
    /\ r.op.fn = "Set" =>
          r.op.flag \in Flags \ (SZ \cup {"BRK", "xXx"}) /\ r.op.on \in BOOLEAN
    /\ r.op.fn = "Jmp" => r.mode \in {"ABS", "IND"}
    /\ r.op.fn = "Jsr" => r.mode = "ABS"
    /\ r.op.fn = "Rts" => r.cycles = 6
    /\ r.op.fn = "Branch" => r.cycles = 2

ASSUME OpcodesAssumption ==
    /\ DOMAIN Opcodes = {"normal", "bcd"}
    /\ \A t \in DOMAIN Opcodes : \A c \in DOMAIN Opcodes[t] : RowOK(Opcodes[t][c], t)

ASSUME ClientAssumption ==
    /\ CyclesMax \in Nat /\ CyclesMax > 64
    /\ ExitOnStackWrap \in BOOLEAN
    /\ GarbagePC \subseteq Int
    /\ EntryPoints \subseteq Adr
    /\ Budgets \subseteq 0 .. CyclesMax
    /\ Banks \subseteq Page
    /\ MaxWrites \in Nat /\ MaxRuns \in Nat
    /\ \A image \in Images : RamOK(image)

VARIABLES
    cycles,
    toCycles,  \* the argument of the current or last run()
    phase,     \* "idle" outside run(), "running" in it, or "undefined"
    writes,    \* counts the client's WriteRam calls
    runs       \* counts its Run calls

calls == <<writes, runs>>
vars == <<sr, result, jumpTable, ram, rbank, rcallbacks, wcallbacks,
          reg, pc, cycles, toCycles, phase, writes, runs>>

TypeOK ==
    /\ sr \subseteq Flags
    /\ result \in 0 .. ResultBits - 1
    /\ jumpTable \in {"normal", "bcd"}
    /\ RamOK(ram)
    /\ DOMAIN rbank \subseteq Page
    /\ \A p \in DOMAIN rbank : rbank[p].rom \in DOMAIN Roms /\ rbank[p].page \in Page
    /\ rcallbacks \subseteq Page /\ wcallbacks \subseteq Page
    /\ reg \in [Registers -> Byte]
    /\ pc \in Int
    /\ cycles \in 0 .. CyclesMax
    /\ toCycles \in 0 .. CyclesMax
    /\ phase \in {"idle", "running", "undefined"}
    /\ writes \in 0 .. MaxWrites /\ runs \in 0 .. MaxRuns

\* The constructor.  It leaves pc and cycles uninitialised; run() resets
\* cycles before anything reads it.
Init ==
    /\ MemoryInit
    /\ reg = [A |-> 0, X |-> 0, Y |-> 0, SP |-> 255]
    /\ sr = {"BRK", "xXx"}
    /\ result = 0
    /\ jumpTable = "normal"
    /\ pc \in GarbagePC
    /\ cycles = 0 /\ toCycles = 0
    /\ phase = "idle"
    /\ writes = 0 /\ runs = 0

-----------------------------------------------------------------------------
(* Decoding *)

\* The row run() dispatches to, and what it calls.
row == Opcodes[jumpTable][Fetch(ram, pc)]
op  == row.op

InLoop == phase = "running" /\ cycles < toCycles

-----------------------------------------------------------------------------
(* The opcode functions *)

status == <<sr, result, jumpTable>>

Executes(fn) == op.fn = fn

\* Mutant: the function counts the row's cycles, and the loop counts them again.
TickTwice(extra) == cycles' = (cycles + 2 * row.cycles + extra) % (CyclesMax + 1)

\* cycles is a uint32_t.
Tick(extra) == cycles' = (cycles + row.cycles + extra) % (CyclesMax + 1)
Proceed     == pc' = pc + opSize(row.mode) /\ Tick(0)

Assign(r, v) == reg' = [reg EXCEPT ![r] = v]

Nop == /\ Executes("Nop")
       /\ Proceed
       /\ UNCHANGED <<reg, ram, status>>

Load ==
    /\ Executes("Load")
    /\ \E v \in Operands(row.mode) : Assign(op.reg, v) /\ set(SZ, reg["A"], v, 0)
    /\ Proceed
    /\ UNCHANGED <<ram, jumpTable>>

Store ==
    /\ Executes("Store")
    /\ \E ea \in EA(row.mode) : ram' \in Write(ea, reg[op.reg])
    /\ Proceed
    /\ UNCHANGED <<reg, status>>

Branch ==
    /\ Executes("Branch")
    /\ IF check(op.flag) = op.on
          THEN pc' = pc + 2 + Signed8(PC8(pc + 1)) /\ Tick(1)
          ELSE Proceed
    /\ UNCHANGED <<reg, ram, status>>

IncRegister ==
    /\ Executes("Inc") /\ row.mode = "NONE"
    /\ LET v == lo(reg[op.reg] + op.inc)
       IN  Assign(op.reg, v) /\ set(SZ, reg["A"], v, 0)
    /\ Proceed
    /\ UNCHANGED <<ram, jumpTable>>

IncMemory ==
    /\ Executes("Inc") /\ row.mode # "NONE"
    /\ \E ea \in EA(row.mode) : \E v \in Read(ea) :
          ram' \in Write(ea, v + op.inc) /\ set(SZ, reg["A"], v + op.inc, 0)
    /\ Proceed
    /\ UNCHANGED <<reg, jumpTable>>

Transfer ==
    /\ Executes("Transfer")
    /\ Assign(op.to, reg[op.from])
    /\ IF op.to = "SP" THEN UNCHANGED <<sr, result>>
                       ELSE set(SZ, reg["A"], reg[op.from], 0)
    /\ Proceed
    /\ UNCHANGED <<ram, jumpTable>>

\* sec, clc, ... : every flag but S and Z.
Set ==
    /\ Executes("Set")
    /\ IF op.flag = "DECIMAL" THEN setDec(op.on) ELSE UNCHANGED jumpTable
    /\ sr' = IF op.on THEN sr \cup {op.flag} ELSE sr \ {op.flag}
    /\ Proceed
    /\ UNCHANGED <<reg, ram, result>>

Bit ==
    /\ Executes("Bit")
    /\ \E z \in Operands(row.mode) :
          /\ result' = BitAnd(z, reg["A"]) + (IF BitOf(z, 128) = 1 THEN 512 ELSE 0)
          /\ sr' = (sr \ {"OVER"}) \cup {f \in {"OVER"} : BitOf(z, 64) = 1}
    /\ Proceed
    /\ UNCHANGED <<reg, ram, jumpTable>>

Cmp ==
    /\ Executes("Cmp")
    /\ \E z \in Operands(row.mode) : set(SZC, reg["A"], reg[op.reg] + Complement(z) + 1, 0)
    /\ Proceed
    /\ UNCHANGED <<reg, ram, jumpTable>>

Adc ==
    /\ Executes("Adc") /\ ~op.dec
    /\ \E z \in Operands(row.mode) :
          LET rc == AdcBinary(reg["A"], z, carry)
          IN  Assign("A", lo(rc)) /\ set(SZCV, reg["A"], rc, z)
    /\ Proceed
    /\ UNCHANGED <<ram, jumpTable>>

AdcDecimal ==
    /\ Executes("Adc") /\ op.dec
    /\ \E z \in Operands(row.mode) :
          LET rc == AdcDecimalSum(reg["A"], z, carry)
          IN  Assign("A", lo(rc)) /\ set(SZCV, reg["A"], rc, z)
    /\ Proceed
    /\ UNCHANGED <<ram, jumpTable>>

Sbc ==
    /\ Executes("Sbc") /\ ~op.dec
    /\ \E m \in Operands(row.mode) :
          LET z  == Complement(m)
              rc == AdcBinary(reg["A"], z, carry)
          IN  Assign("A", lo(rc)) /\ set(SZCV, reg["A"], rc, z)
    /\ Proceed
    /\ UNCHANGED <<ram, jumpTable>>

SbcDecimal ==
    /\ Executes("Sbc") /\ op.dec
    /\ \E z \in Operands(row.mode) :
          /\ Assign("A", SbcDecimalDigits(reg["A"], z, carry))
          /\ set(SZCV, reg["A"], SbcDecimalRc(reg["A"], z, carry), z)
    /\ Proceed
    /\ UNCHANGED <<ram, jumpTable>>

Logic(fn, Combine(_, _)) ==
    /\ Executes(fn)
    /\ \E z \in Operands(row.mode) :
          LET v == Combine(reg["A"], z)
          IN  Assign("A", v) /\ set(SZ, reg["A"], v, 0)
    /\ Proceed
    /\ UNCHANGED <<ram, jumpTable>>

And == Logic("And", BitAnd)
Ora == Logic("Ora", BitOr)
Eor == Logic("Eor", BitXor)

\* Asl, Lsr, Ror and Rol of the accumulator, and of a byte in memory.
ShiftRegister(fn) ==
    /\ Executes(fn) /\ row.mode = "ACC"
    /\ LET s == Shifted(fn, reg["A"], carry)
       IN  /\ Assign("A", lo(s.rc))
           /\ result' = s.rc
           /\ sr' = WithCarry(sr, s.out)
    /\ Proceed
    /\ UNCHANGED <<ram, jumpTable>>

ShiftMemory(fn) ==
    /\ Executes(fn) /\ row.mode # "ACC"
    /\ \E ea \in EA(row.mode) : \E v \in Read(ea) :
          LET s == Shifted(fn, v, carry)
          IN  /\ ram' \in Write(ea, s.rc)
              /\ result' = s.rc
              /\ sr' = WithCarry(sr, s.out)
    /\ Proceed
    /\ UNCHANGED <<reg, jumpTable>>

-----------------------------------------------------------------------------
(* The stack operations and the control transfers *)

Pha ==
    /\ Executes("Pha")
    /\ ram' = Push(ram, reg["SP"], reg["A"])
    /\ Assign("SP", SP(-1))
    /\ Proceed
    /\ UNCHANGED status

Pla ==
    /\ Executes("Pla")
    /\ reg' = [reg EXCEPT !["SP"] = SP(1), !["A"] = Stack(SP(1))]
    /\ Proceed
    /\ UNCHANGED <<ram, status>>

Php ==
    /\ Executes("Php")
    /\ ram' = Push(ram, reg["SP"], SrByte(get_SR))
    /\ Assign("SP", SP(-1))
    /\ Proceed
    /\ UNCHANGED status

Plp ==
    /\ Executes("Plp")
    /\ set_SR(SrFlags(Stack(SP(1))))
    /\ Assign("SP", SP(1))
    /\ Proceed
    /\ UNCHANGED ram

Rti ==
    /\ Executes("Rti")
    /\ set_SR(SrFlags(Stack(reg["SP"] + 1)))
    /\ pc' = to_adr(Stack(reg["SP"] + 2), Stack(reg["SP"] + 3))
    /\ Assign("SP", SP(3))
    /\ Tick(0)
    /\ UNCHANGED ram

\* Skips the byte after the opcode, pushes pc and status, jumps through the
\* vector at $fffe; the I flag stays as it is.
Brk ==
    /\ Executes("Brk")
    /\ LET sp == reg["SP"]
       IN  ram' = Push(Push(Push(ram, sp, hi(pc + 2)), sp - 1, pc + 2),
                       sp - 2, SrByte(get_SR))
    /\ pc' \in Read16(to_adr(\hfe, \hff))
    /\ Assign("SP", SP(-3))
    /\ Tick(0)
    /\ UNCHANGED status

\* With an empty stack RTS makes run() return: cycles jumps near its maximum.
RtsExit ==
    /\ Executes("Rts") /\ ExitOnStackWrap /\ reg["SP"] = 255
    /\ pc' = pc + 1
    /\ cycles' = (CyclesMax - 32 + row.cycles) % (CyclesMax + 1)
    /\ UNCHANGED <<reg, ram, status>>

Rts ==
    /\ Executes("Rts") /\ ~(ExitOnStackWrap /\ reg["SP"] = 255)
    /\ pc' = to_adr(Stack(reg["SP"] + 1), Stack(reg["SP"] + 2)) + 1
    /\ Assign("SP", SP(2))
    /\ Tick(0)
    /\ UNCHANGED <<ram, status>>

\* Mutant: a function that sets the pc is not counted.
JmpUncounted ==
    /\ Executes("Jmp")
    /\ pc' \in EA(row.mode)
    /\ UNCHANGED <<reg, ram, status, cycles>>

Jmp ==
    /\ Executes("Jmp")
    /\ pc' \in EA(row.mode)
    /\ Tick(0)
    /\ UNCHANGED <<reg, ram, status>>

\* Mutant: pushes the address of the next instruction.
JsrPushesNext ==
    /\ Executes("Jsr")
    /\ LET sp     == reg["SP"]
           pushed == Push(Push(ram, sp, hi(pc + 3)), sp - 1, pc + 3)
       IN  /\ ram' = pushed
           /\ pc' = to_adr(Fetch(pushed, pc + 1), Fetch(pushed, pc + 2))
    /\ Assign("SP", SP(-2))
    /\ Tick(0)
    /\ UNCHANGED status

\* Pushes the address of the operand's last byte, then reads the operand.
Jsr ==
    /\ Executes("Jsr")
    /\ LET sp     == reg["SP"]
           pushed == Push(Push(ram, sp, hi(pc + 2)), sp - 1, pc + 2)
       IN  /\ ram' = pushed
           /\ pc' = to_adr(Fetch(pushed, pc + 1), Fetch(pushed, pc + 2))
    /\ Assign("SP", SP(-2))
    /\ Tick(0)
    /\ UNCHANGED status

-----------------------------------------------------------------------------
(* run() and its client *)

Execute ==
    \/ Nop \/ Load \/ Store \/ Branch \/ IncRegister \/ IncMemory \/ Transfer
    \/ Set \/ Bit \/ Cmp \/ Adc \/ AdcDecimal \/ Sbc \/ SbcDecimal
    \/ And \/ Ora \/ Eor
    \/ \E fn \in Shifts : ShiftRegister(fn) \/ ShiftMemory(fn)
    \/ Pha \/ Pla \/ Php \/ Plp \/ Rti \/ Brk \/ RtsExit \/ Rts \/ Jmp \/ Jsr

client == <<rbank, rcallbacks, wcallbacks, toCycles, phase, writes, runs>>

\* One iteration of the loop: the opcode's row, and the function it calls.
Step ==
    /\ InLoop
    /\ Decodes(Opcodes[jumpTable])
    /\ Execute
    /\ UNCHANGED client

Undefined ==
    /\ InLoop
    /\ ~(Decodes(Opcodes[jumpTable]) /\ StaysInside(row.mode))
    /\ phase' = "undefined"
    /\ UNCHANGED <<reg, pc, cycles, status, memory, toCycles, calls>>

RunReturns ==
    /\ phase = "running" /\ cycles >= toCycles
    /\ phase' = "idle"
    /\ UNCHANGED <<reg, pc, cycles, status, memory, toCycles, calls>>

WriteRam ==
    /\ phase = "idle" /\ writes < MaxWrites
    /\ \E image \in Images : ram' = Overlaid(ram, image)
    /\ writes' = writes + 1
    /\ UNCHANGED <<reg, pc, cycles, status, mapping, toCycles, phase, runs>>

\* setPC takes an int16_t: the upper half of the addresses comes out negative.
SetPC ==
    /\ phase = "idle"
    /\ \E p \in EntryPoints : pc' = Signed16(p)
    /\ UNCHANGED <<reg, cycles, status, memory, toCycles, phase, calls>>

Run ==
    /\ phase = "idle" /\ runs < MaxRuns
    /\ \E budget \in Budgets : toCycles' = budget
    /\ cycles' = 0
    /\ phase' = "running"
    /\ runs' = runs + 1
    /\ UNCHANGED <<reg, pc, status, memory, writes>>

MapMemory ==
    /\ phase = "idle"
    /\ \E bank \in Banks :
          \/ \E r \in DOMAIN Roms : mapRom(bank, r)
          \/ mapReadCallback(bank, 256)
          \/ mapWriteCallback(bank, 256)
    /\ UNCHANGED <<reg, pc, cycles, status, toCycles, phase, calls>>

Loop   == Step \/ Undefined \/ RunReturns
Client == WriteRam \/ SetPC \/ Run \/ MapMemory
Next   == Loop \/ Client

\* run() is a loop in its caller's thread: once entered it keeps going.
Spec == Init /\ [][Next]_vars /\ WF_vars(Loop)

-----------------------------------------------------------------------------
(* Properties *)

\* The D flag is kept twice.  Whatever sets or clears it (SED, CLD, PLP, RTI)
\* leaves the jump table that run() dispatches through in step with sr, so
\* that ADC and SBC are decimal exactly when the program asked for it.
DecimalCoherent == (jumpTable = "bcd") <=> ("DECIMAL" \in sr)

\* S and Z live in `result` alone.  get_SR() and PHP or them in, so a copy of
\* either left in sr would stick; and the two unused bits always read 1.
StatusShape == sr \cap SZ = {} /\ {"BRK", "xXx"} \subseteq sr

\* run() overshoots its budget by less than one instruction, unless an RTS
\* with an empty stack ended it: the 32-bit count has not wrapped around.
BudgetKept ==
    phase = "idle" /\ runs > 0 =>
        \/ cycles \in toCycles .. toCycles + 6
        \/ ExitOnStackWrap /\ cycles = CyclesMax - 26

\* Every run() returns, or reaches undefined behaviour: each instruction adds
\* to cycles and none makes the loop condition true again.
RunStops == phase = "running" ~> phase # "running"

=============================================================================
