# Verification of sixfive

TLA+ models of `sixfive`, a 6502 emulator, assembler and monitor in C++; TLC
runs over small instances of them, and proofs that TLAPS checks. All paths are
relative to `src/`. `PROJECT.json` maps every definition that models code to
its lines.

## 1. The system

`Machine<POLICY>` in `emulator.h` is the emulator. A client writes programs to
its RAM, maps ROMs and I/O callbacks, sets the pc and calls `run(budget)`,
which executes 6502 code until the budget of cycles is used up. Around it stand
a multi-pass assembler (`parser.cpp`, which calls back into `compile.h`, which
calls `assembler.cpp` for each line and writes the bytes into a machine), a
disassembler and a monitor (`monitor.h`), and the policies and drivers in
`main.cpp`, `tests.cpp` and `c64.cpp`.

| Component | State | Operations | Interacts with |
|---|---|---|---|
| 6502 processor (`emulator.h` 430-926) | `a x y sp pc` | one function per opcode and mode | memory, status register, jump table |
| Status register (300-373) | `sr`, `result`, `jumpTable` | `set<BITS>`, `set_SR`, `get_SR`, `check`, `setDec` | read by branches, PHP, BRK; written by most opcodes |
| ALU (506-626) | none | Adc, Sbc, Cmp, shifts | `set<BITS>` |
| Memory (128-187, 251-273, 388-428) | `ram`, `rbank`, `wbank`, `rcallbacks`, `wcallbacks` | `Read`, `Write`, `writeRam`, `mapRom`, `mapReadCallback`, `mapWriteCallback` | client callbacks; ROM images |
| Instruction table (641-926) | two jump tables | built by the constructor | `run`, assembler, disassembler |
| `run()` and client interface (188-213) | `cycles`, `toCycles` | `run`, `setPC`, `regs` | everything above; `POLICY::eachOp` |
| Debug and check policies (`main.cpp` 21-149) | static `lastpc`, `breaks`, a second machine | `eachOp`, `checkEffect`, `set_break` | `run()`, `compile()` |
| Line assembler (`assembler.cpp`) | none | `parse`, `assembleLine`, `assemble` | instruction table |
| Disassembler (`monitor.h` 35-56) | position | `disasm` | instruction table |
| Multi-pass assembler (`parser.cpp`) | `symbols`, `undefined`, `org`, value stack | a pass, a label, a definition, an expression, a line | `encode` callback of its client |
| Compiler (`compile.h`) | `maxOrg` | `compile` | parser, line assembler, machine, policy |
| Monitor (`monitor.h` 58-149) | `start`, `size`, `prefix` | d, c, g, af, a, m, r, trace | machine, parser, assembler |
| C64 (`c64.cpp`, not built) | none | set-up, I/O callbacks | machine |
| Benchmarks and checks (`tests.cpp`) | none | two 6502 programs; x86 code check | machine |

What is hard here is not concurrency: the program has one thread and keeps
nothing on disk. It is

* **state kept twice or lazily**: S and Z are read from `result`, D is both a
  bit of `sr` and the choice of a jump table, a page is described by three
  tables (`rbank`, `rcallbacks`, `wcallbacks`) that are redirected separately;
* **numbers with their widths**: an unmasked `result` whose bits 0, 7, 8 and 9
  have meanings, a byte `sp` added to as an `int`, a 32-bit `pc` that nobody
  masks, an `int16_t` in `setPC`, a `uint8_t bank` that wraps, `cycles` set near
  its maximum to leave a loop;
* **long sequences of legal steps**: a JSR and its RTS, a BRK and its RTI, a
  loop that only the cycle count ends;
* **tables typed by hand**: 155 rows of opcodes, times and modes;
* **passes that must converge**: forward references in the assembler.

`PROJECT.json` "hazards" lists each place with the properties that cover it, or
with the reason why none does.

How the parts are put together: `main()` makes a machine, lets `compile()` read a
source file into its RAM, and runs it from $1000 or enters the monitor. `compile()`
gives `parse()` a callback; `parse()` reads the whole source again and again, and for
each line calls back with the address and the line, whose bytes `assemble()` finds in
the instruction table and `writeRam` stores at once. The monitor works on the same
machine: `af` calls `compile()`, `a` calls `assemble()`, `g` and `c` call `run()`, under a
policy whose `eachOp` looks at the machine before every opcode.

## 2. Modules

```
Words ── StatusFlags ─┐
  ├───── Alu ─────────┴─ StatusRegister ─┐
  └───── Memory ── Addressing ───────────┴─ Machine ─┬─ Subroutines ─┐
            │                                        ├─ Programs ────┴─ MCPrograms
            └─ Cpu6502 ── Departures ·(abstract)┐    ├─ DocClaims ─── MCDocClaims
               FlatMemory ···········(abstract)·┴··· ├─ MachineRefinement ─ MCMachine, MCMapped
Alu ── AluReference                                  └─ MachineProofs
                 OpcodeTable, OpcodeSheet ── MCTable (the values of Opcodes and Sheet)

Alu, Assembler ── OperatorLemmas ─────┬─ AluProofs (with AluReference)
                                      ├─ AssemblerProofs, ParserProofs, MonitorProofs
Machine ── MachineProofs ─┬───────────┴─ RefinementProofs (with MachineRefinement)
                          └───────────── SubroutineProofs (with Subroutines)

OpcodeTable, Modes ── Assembler ──┬─ AssemblerReference ── AssemblerProofs
                                  └─ Encoder ─┐
               Words ── Expressions ──────────┴─ Parser ──┬─ MCParser
                                                  :       └─ ParserProofs
Machine ── DebugRun ─────────────────────── Monitor ──┬─ MCMonitor
Ram ── Checks, AsmSources                         │       └─ MonitorProofs
                                   (INSTANCE Parser, on the same RAM)
```

* **Words** — bytes, addresses, bit operations, `lo`, `hi`, `to_adr`.
* **Alu** — binary and decimal ADC and SBC, the complement, overflow and the
  shifts, each giving the unmasked `rc` the code hands to `set<BITS>`.
* **StatusFlags**, **StatusRegister** — `sr` as a set of flags, `result` modulo
  1024 (nothing reads a higher bit), `jumpTable` as "normal" or "bcd".
* **Ram**, **Modes** — RAM as a sparse function; the addressing modes and their sizes.
* **Memory** — ROM images by name, the redirected
  pages, and the pages whose callback is the client's. `Read` yields the *set*
  of bytes a read may return (more than one only for a device), `Write` the set
  of RAMs a write may leave (a client's callback may store the byte or not).
  `wbank` is not a variable: nothing ever redirects it.
* **Addressing** — `ReadEA` for the nine operand modes and IND, the stack, the
  lengths of instructions; `Decodes` and `StaysInside` say when the C++ stays
  inside its arrays.
* **OpcodeTable** — the instruction table in the code's order, and the jump
  tables (the last row of a code wins, as in the constructor).
* **Machine** — the core: the constructor as `Init`, one action per opcode
  function (`Load`, `Store`, `Branch`, `IncMemory`, …, `Brk`, `Rts`, `RtsExit`),
  and the client's `WriteRam`, `SetPC`, `MapMemory` and `Run`. A loop iteration
  of `run()` is one `Step`: it looks the code byte up in the current table and
  performs the whole function, cycle count included. An out-of-range access or
  an opcode without a row is undefined behaviour in C++ (an array overrun, a
  call through an uninitialised pointer): `Undefined` moves the phase to
  "undefined", where the model ends.
* **OpcodeSheet** — the HEX columns of `opcodes.txt`: mnemonic and mode of each of the 151
  opcodes it lists.
* **Cpu6502** — the abstract specification: the 6502 of `opcodes.txt`, the instruction
  reference of the repository. It has one action per group of the sheet's mnemonics, all
  flags in one register `P`, a program counter and addresses of 16 bits, a stack that is always
  on page one, interrupts that set I, indirect jumps that stay in their page, an RTS that
  returns. Its arithmetic is arithmetic (`r >= m`, `signed \notin -128 .. 127`,
  `ToBcd(total % 100)`) instead of the code's masks. With Machine it shares the bus (Memory), of
  which the sheet says nothing, and the layout of a pushed status byte (StatusFlags); its
  addressing modes, stack, codes and instructions are its own. What the sheet leaves open
  it leaves open: N, V and Z of decimal arithmetic and all of it on digits above 9; the
  flags after PLA and TSX; whether a zero page pointer at $ff goes on at $00; the registers
  at power-up; opcodes that are not listed. The address of BRK's vector is not on the sheet.
* **Departures** — every way in which the machine does something else than that, an action
  each, guarded by the case in which the two differ (table below).
* **FlatMemory** — the abstract specification of `mapRom`: an address space without
  banks, in which a ROM put at a place shows its bytes from there on, around the
  end of memory if need be, until another is put over it, whatever is stored.
* **MachineRefinement** — every step of Machine is one of Cpu6502, a departure, or
  `LeavesMemory`, an access beyond the arrays of the code; with `P <- get_SR`, the pc
  modulo 64 Kbyte, and the phase "leaving" for a run whose budget is used up. `Matches` says
  which function a row of the code's table must call for the mnemonic the sheet has at
  its code. And Machine's banks, pages and callbacks implement FlatMemory, with `shown` the
  bytes a code fetch finds.
* **Subroutines** — Machine with a history variable: the frames of the JSRs and
  BRKs that have not returned. A frame dies when the stack pointer moves above
  it or one of its bytes is overwritten.
* **Programs** — the two programs of `tests.cpp`, byte for byte, with what they
  are to compute (a sorted permutation; the Gregorian weekday).
* **AluReference** — Alu against reference definitions, on every input.
* **Assembler** — `assembler.cpp` and `disasm` of `monitor.h` over OpcodeTable, as
  operators: an operand is a number in one of the notations the regular expression
  takes, `assembleLine` gives the bytes of the first row that fits, `disasm` a line.
* **AssemblerReference** — walks through every instruction and notation and compares
  Assembler with the jump table the machine executes by, and with its own inverse.
* **Expressions** — the stack machine the semantic actions of the grammar drive:
  `fpushnum`, `fop`, `fsym`, …, one operator each, with the state `e` they leave behind.
* **Encoder** — the callback `compile()` gives to `parse()`: bytes to RAM, checks to the
  policy's `breaks`, `maxOrg`.
* **Parser** — `parse()`: one action per kind of line (`AsmLine`, `DataLine`, `DefLine`, …)
  and per way a line or pass can end (`Accept`, `GiveUp`, `NextPass`, `BadAsmLine`,
  `ThrowingLine`, `Overrun`, `SyntaxError`). A source is a sequence of lines as the grammar
  takes them apart, in tokens in the order their actions fire. `at` is the line the
  pass is at; `placed`, `settled` and `passes` are history. Each line's action has
  everything the code does for it: label, expressions, bytes, `org`, `undefined`.
* **Checks**, **AsmSources** — the requirements of `@req` lines; how sources are written
  down, and the files of `asm/` line by line (except `microchess.asm`).
* **DebugRun** — `run()` under DebugPolicy and CheckPolicy: `eachOp` before each opcode,
  the static `lastpc`, the trace with its second machine `om`.
* **Monitor** — the program: `main()` (full test, assemble and run, monitor) and every
  command of the monitor, one action each, over DebugRun, Parser and Assembler.
* **DocClaims** — what `README.md` and `opcodes.txt` promise and the code does not.
* **OperatorLemmas** — what the operators of Alu and Assembler compute, for every argument.
* **MachineProofs**, **RefinementProofs**, **SubroutineProofs**, **AluProofs**,
  **AssemblerProofs**, **ParserProofs**, **MonitorProofs** — theorems (section 4).
* **MCTable** gives the tables to `Opcodes` and `Sheet`; **MCMachine**, **MCMapped**,
  **MCPrograms**, **MCDocClaims** hold the programs the client
  may load, **MCParser** the sources, **MCMonitor** the files and the lines typed in.

The departures, with the lines of `opcodes.txt` they depart from:

| Departure | The sheet | The code (`emulator.h`) | In which case |
|---|---|---|---|
| `FlagCodesExchanged` | 203-204: CLI is $58, SEI $78 | 827-828: the other way round | always |
| `BreakKeepsI` | 210: an interrupt sets I; 510: the stack is on page one | 882-891: I is left alone; three bytes are pushed from an `int` index | I clear, or SP below 2 |
| `InterruptReturnsOffPage` | 510 | 874-880: pulls from page two | SP at $fd or above |
| `ReturnsOffPage` | 510 | 893-904: pulls from page two | SP at $fe or above |
| `EmptyStackEnds` | 450: RTS returns | 893-900: the run ends | SP = $ff, if the policy asks for it |
| `CallReadsLate` | 265: JSR goes to the address that follows; 510 | 915-922: reads it after the push; pushes into page zero | the pushed bytes are the operand, or SP = 0 |
| `JumpCarries` | 245-255: no carry | 906-913: the next page | pointer on the last byte of a page |
| `LeavesMemory` | 327-349: addresses wrap | 204, 388-428: arrays indexed with an `int` | pc, operand or pointer beyond memory |

Definitions with the comment "Mutant" just above the one they vary are the
plausible mistakes each property is known to catch; no specification uses them.

## 3. Runs

Bounds: `MaxWrites` (programs loaded) and `MaxRuns` (calls of `run`) bound the
client; `CyclesMax` scales `UINT32_MAX` down; `Budgets` are the arguments of
`run`. All of a machine's behaviour inside `run` is determined by what the
client set up, so one program per behaviour loses nothing, and the programs are
chosen in families that put each group of instructions on the edges of its
operands. The runs of machines and of the monitor set `CHECK_DEADLOCK FALSE`: after its last call the client
makes no further one, and nothing follows undefined behaviour; the user of the
monitor stops after `MaxCommands` lines; AssemblerReference has a last line.

| Run | Checks | Instance |
|---|---|---|
| `machine` | `TypeOK`, `DecimalCoherent`, `StatusShape`, `BudgetKept`, `ImplementsCpu6502`, `RunStops` | every opcode, existing or not; operands 0, 1, $7f, $80, $ff and BCD digits; both carries, both D; indexes that wrap; stack pointers at both ends; sequences of D-changing operations with an interrupt; code at both ends of memory; endless loops |
| `mapped` | `MemoryIsFlat` | a two-page ROM and read and write callbacks at $01, $fe and $ff, in any order, before, between and after two runs; programs that read, write, modify and execute what was mapped |
| `programs` | `ListSorted`, `WeekdayFound`, `ReturnsToCaller` | direct memory access; 336 lists of two to four bytes; 550 dates in 1900-2155; a call from any of nine stack pointers, two of ten operations in the subroutine, calls, interrupts and stack moves among them, a nested routine that ends in RTS or RTI |
| `alu` | six invariants | all 131072 combinations of accumulator, operand and carry |
| `assembler` | `EncodesTheLine`, `BranchLands`, `ListingReassembles` | every instruction with eight notations; 17 values and three addresses at the edges of zero page, of branches and of memory |
| `parser` | `TypeOK`, `PassesBounded`, `VerdictRight`, `ConvergedIsConsistent`, `ParseEnds` | every source of up to three of 14 lines, of four of six lines, 14 lines each before one of five that fail; six files of `asm/` |
| `monitor` | `RequirementsMet`, `AssembledShows`, `StallsAtJump`, `PromptReturns` | eight files run by `main()`, or none, or the full test; three of 22 lines typed into the monitor, in any order |
| `doc_set_pc`, `doc_interrupt_flag`, `doc_indirect_jump` | one claim each | small programs |
| `stale_label` | `BranchesReachLabels` | as `parser` |
| `failed_requirement` | `RequirementsEnforced` | `asm/sub.asm` |

What they show:

* The lazily evaluated flags, the two jump tables and the run loop are invisible
  to a program: to it they are the processor of `opcodes.txt`, on all tested operands, and
  where they are not it is in one of the cases of Departures or LeavesMemory, and in the
  way described there.
* D and the jump table agree after any mix of SED, CLD, PLP and RTI; S and Z
  never leak into `sr`.
* `run()` ends, on or at most six cycles after its budget, or with `cycles` at
  `max-26` when an RTS found the stack empty.
* Decimal arithmetic of valid BCD operands is exact, and the carry of decimal SBC
  is the binary one on *all* operands.
* Banks that overlap, wrap and are covered again show the ROM mapped last, and no
  store or callback changes that; a store goes to the RAM under a ROM.
* A call or interrupt whose frame stays intact and inside page one comes back.

* A line of assembler becomes what the machine executes as that line, in the shortest
  form its instruction has; a branch of more than a signed byte lands elsewhere
  without a word; what `d` lists can be typed in again with `a`.
* `parse()` needs at most three passes, accepts a source only if every name in it is bound,
  and gives one up only if some name is not. When the last pass moves no symbol, the
  code in RAM is the one the symbols ask for. When it moves one it is accepted all the
  same (`stale_label`).
* The files of `asm/`, assembled and run, have at each `@req` the registers and bytes it
  names, apart from the status register, whose unused bits the files have 0.
* The monitor comes back to its prompt after every line but those that crash it; code
  stops with STALL at an instruction that jumps to itself and not at a longer loop.

Findings (runs that expect a violation, with the lines in `PROJECT.json`):
`setPC` sign-extends (`0x8000` in the README's own example is out of range); SEI and CLI
have each other's opcodes; `JMP ($30FF)`, the sheet's example, carries into the next page; a
branch to a label goes to where the label was a pass before, if the last pass has shortened
an instruction between; `@req` checks are stored and never made. The other departures have no
run of their own, but `machine` executes each of them: with any one of the eight taken out of
`ImplementsCpu6502` it finds a violation.

**Fairness.** Machine's `Spec` has `WF_vars(Loop)` and nothing more. `run()` is a `while`
in its caller's thread with no blocking call in it, so once entered its
iterations follow each other: weak fairness of the loop. No fairness is assumed of
the client, which need not call anything. `RunStops` uses it; it holds because
every row counts at least two cycles, endless loops in the program included.
`parse()` is such a loop too, and the program as a whole is one thread: Parser's fairness is
of `Parse`, Monitor's of `Process`, the steps of the program. Both are written out as
`[]<>(there is nothing to do) \/ []<><<step>>_vars`, which is weak fairness because a step
is enabled exactly as long as there is something to do. The user need not type
anything, so `Command` is not fair: `PromptReturns` says that the program gets to its
prompt, not that anybody uses it.
Temporal properties are checked on these instances only.

**Why the bounds are enough.** Flags and results depend on bits of the operands;
the edge values set and clear each of them in both operands, and `alu` covers the
arithmetic completely. `CyclesMax` is far above the budgets, as it is in the
code, and near enough for the RTS exit to be seen. ROM and callback blocks of one
and two pages at banks 1, 254 and 255 overlap, wrap and cover the stack and the
vectors; longer blocks repeat the same step of the same loop.

The passes counter saturates at 4: `PassesBounded` is violated there, and nothing else
looks at it. Three lines are enough for a use, a definition and a label between them;
four of the most entangled ones make a chain of definitions against their order. Two
files and the longest sessions of the monitor are those in which a line changes what
the next one meets: `MaxCommands` = 3 is assemble, run, look; `MaxRuns` = 4 is never
reached. `DefaultBudget` = 24 scales the $1000000 of `run()` down, above the cycles of the
monitor's small programs and below those of its endless one; `MainBudget` and
`TestBudget` are the code's 100000 and 1000000000, below a `CyclesMax` at TLC's limit. `TestImage` stands in for `6502test.bin`: its first instruction jumps to
the RTS `main()` patches in.

## 4. Theorems

The assumptions are those on the constants, which TLC evaluates on the instances: an opcode
table of the shape of the code's, ROMs of whole pages, addresses and bytes in range.

### The machine keeps its invariants

`MachineProofs` proves, for every opcode table allowed by `OpcodesAssumption`
(`MCTable` shows that the code's tables are), every set of programs, ROMs, banks,
entry points, budgets, device bytes and every access mode:

| Theorem | States |
|---|---|
| `Invariance` | `Spec => []IInv` |
| `TypeCorrect` | `Spec => []TypeOK` |
| `DecimalStaysCoherent` | `Spec => []DecimalCoherent` |
| `StatusKeepsShape` | `Spec => []StatusShape` |
| `BudgetIsKept` | if every budget is at least 7 below `CyclesMax`, `Spec => []BudgetKept` |

`IInv` is `TypeOK /\ DecimalCoherent /\ StatusShape`. None of the latter two is
inductive from typing alone: `set_SR` changes the table only if the new D differs
from the one in `sr`, so it restores nothing that was wrong before; `set<SZ>`
leaves `sr` untouched, so an S or Z once there would stay. `StatusOK` and `CpuOK`
split the invariant into the status register and the rest of the processor; there
is a lemma for each opcode function that both hold after it (`AdcKeeps`,
`RtiKeeps`, …), resting on `SetKeepsStatus`, `PulledKeepsStatus` and
`CarryKeepsStatus` for the three ways a status changes, on `TickLemma` for the
count, and on type lemmas about words, the ALU and memory. `ExecuteKeeps`,
`StepKeeps` and one lemma per client action give `NextKeeps`. The `row.cycles \in 2
.. 7` and operand modes of `RowOK` are what the proofs need of a table.

`BudgetIsKept` adds `BudgetInv`: inside a run the count stands in `0 .. toCycles +
6`, or at `CyclesMax - 26`. The hypothesis is needed: with a larger budget the
addition in `run()` can wrap around. It is also why Branch and RTS have their exact
times in `RowOK`: a taken branch counts one more than its row, and the RTS exit
adds its row's six cycles to `max-32`.

### The machine implements the processor

`RefinementProofs` proves the two refinements the runs check on their instances:

| Theorem | States |
|---|---|
| `ImplementsTheProcessor` | if every budget is at least 26 below `CyclesMax`, `Spec => ImplementsCpu6502` |
| `MemoryIsFlatlyMapped` | if code is fetched through the banks, `Spec => MemoryIsFlat` |

`ImplementsCpu6502` is `Cpu!Init /\ [][Cpu!Next \/ Cpu!Departs \/ LeavesMemory]_(Cpu!vars)`. The
proof is a simulation step by step. Under `IInv`, an iteration of the loop is the
instruction of Cpu6502 with the same code, or one of the other two, an opcode without a row
is `Strays`, the return `Leaves`, and what the client does `Idles`. `StepRefines` splits
the first by opcode function, a lemma each (`AdcRefines`, `IncMemoryRefines`, …), and a lemma splits
by case where a function departs: `JsrRefines` by whether the pushes stay on page one and
off the operand, `BrkRefines` by I and the stack pointer, `JmpRefines` by the last byte of the pointer. What
these need once and for all:

* `RowsAgree`: the row found in the table `run()` has chosen has the mode the sheet has at
  that code, and calls a function that stands for its mnemonic; ADC and SBC are the decimal
  ones exactly when D is set. This is where `DecimalCoherent` is needed, and
  `TablesAssumption`: the codes of the two tables are those of the sheet and each row `Matches`
  it (TLC evaluates it on the code's tables and the sheet in `machine` and `mapped`).
* The addresses of the code, sums of `int`s, are those of Cpu6502, which wrap, whenever the step
  is not one of `LeavesMemory`; the stack slots of the code, `sp - 1` and so on, are the cells of
  page one wherever no departure says otherwise.
* `FlagsSeen`, `SameStatusSeen`, `PulledSeen` (in MachineProofs): what `get_SR()` shows after
  `set<BITS>`, after nothing, and after a pulled byte, given what S and Z were before.
  This is where `StatusShape` is needed: an S left in `sr` would show beside that of `result`.
* `OperatorLemmas`: the unmasked `rc` of each operation has the value and the bits that the
  arithmetic of Cpu6502 speaks of; for decimal numbers digit by digit (`AdcDecimalNumber`,
  `SbcDecimalNumber`).

The hypothesis on budgets is that of the code and cannot be dropped: the RTS that finds the
stack empty sets the count to 26 below its maximum, so with a larger budget the loop goes on
where `EmptyStackEnds` has the run end. `BudgetLow` carries it through the run.

`MemoryIsFlatlyMapped` needs no invariant, but that the step is about one address:
`Offset` relates an address to its page and bank modulo 64 Kbyte, `CoveredPages` says which
pages `bank++` reaches. With the direct policy for code the banks are never looked at, and
the statement would be false: a mapped ROM would not show.

### Calls return

`SubroutineProofs` proves, for every program, mapping, client and policy:

| Theorem | States |
|---|---|
| `FramesAreSaved` | `HistorySpec => [](IInv /\ FramesOK)` |
| `ReturnsGoBack` | `HistorySpec => ReturnsToCaller` |

`ReturnsToCaller` speaks of one step, the return, and says nothing of the steps since the
call, so it has to be carried across them: `FramesOK` says that as long as a frame stands
each byte it pushed is still where its return will read it, the address low byte first and,
for BRK, the status under it. JSR and BRK establish it (`JsrSaves`, `BrkSaves`), a frame
that stands keeps it by what standing means, and the two returns read it back
(`RtsReturns`, `RtiReturns`; `StatusRoundTrip` for the byte of the flags). The frame must lie
in page one: below it the pushes of JSR go to page zero.
The proof found that an RTI after a BRK at $fffe goes on at 0, which the model's frames
had wrong, and which no run visited.

### The arithmetic

`AluProofs` proves the six invariants of AluReference, `AdcCorrect`, `SbcCorrect`,
`DecimalAdcCorrect`, `DecimalSbcCorrect`, `SbcCarriesCorrect` and `RotationsCorrect`. The run
`alu` goes through all operands anyway; the proofs say why, and their lemmas are those the
refinement rests on.

### The passes of the assembler

`ParserProofs` proves, for every source of well-formed lines, every way of telling names
apart and every content of uninitialised memory:

| Theorem | States |
|---|---|
| `PassesRight` | `Spec => []PassInv` |
| `ThreePasses` | `Spec => []PassesBounded`: no source is read more than three times |
| `VerdictIsRight` | `Spec => []VerdictRight` |
| `TypeCorrect` | `Spec => []TypeOK` |
| `ConvergedIsRight` | `Spec => []ConvergedIsConsistent` |

The assumption `ParserAssumption` says what the grammar lets through: which notations and
names a line has, and that operators and ends stand behind enough values (`WellFormed`).

`PassesBounded` says nothing of names and is far from inductive. `PassInv` adds why it holds:
`BindsKept`, the table never forgets a name and a line binds the same names whatever is
known when it is read, so that after one pass everything is bound that ever will be;
`RecordsRight`, from the second pass on `undefined` has exactly the references nothing
binds (in the first it has at least these); `CountRight`, in a third pass `ucount` is the
number of them all, so that `NoProgress` holds at its end. `LineStep` is the step of any line,
given what it binds; `ReadStep` shows that for each kind of line; `EndStep` and
`NextPassStep` are the ends. Of the code of a line nothing is needed.

`TypeCorrect` needs what an expression evaluates to. `TypeInv` adds `Tables`: every symbol, now
and in the pass before, has a number. Along the tokens the value stack is as high as `Depth`
says and holds numbers, and at each end there is one value more (`ConsumeTyped`,
`EvaluatedTyped`); a line then finds as many values as its kind takes, and its bytes go to
addresses (`LineTyped`). `Evaluated` is a recursive function of the number of tokens; that
a statement holds behind every token is shown from a first one where it does not, which
exists by `NatMinimum`. The same pattern gives the weights of shifts (`WeightPositive`) and the
agreement of two evaluations whose tables agree on the names used (`EvaluatedAlike`).

`ConvergedIsRight` is about the end of a parse, but the code is written line by line with the
symbols known so far. `ConvInv` says what makes it come out: a name that no line of this
pass has stored yet has the value of the pass before (`TablesRight`); so if the symbols are
now those of the pass before and none is missing, every line read in this pass is
what the symbols *now* ask for, and as long as the places of the lines are apart its bytes are
still in RAM (`LinesRight`). The step has to go backwards: the hypothesis on the table after
a line must give that on the table before it, which holds because a source that binds each
name once changes a symbol at one line only. In a first pass there is no pass before,
and every name a line uses must have been stored by a line above it; here `Extends` and
`SameIn` carry the lines already read from the smaller table to the larger.

### The line assembler and the disassembler

`AssemblerProofs` proves, for every set of values and of addresses:

| Theorem | States |
|---|---|
| `EncodesEveryLine` | `Spec => []EncodesTheLine` |
| `BranchesLand` | `Spec => []BranchLands` |
| `ListingsReassemble` | `Spec => []ListingReassembles` |

They are about the 155 rows of a table, and searches through it in both directions.
`OperatorLemmas` establishes the table entry by entry (`TablePlaced`: at which places
which instructions stand, and what rows they have); from that `CodeShared`, two rows with one
code are those of one shift without an operand and on the accumulator, `JumpRow`, which row
the machine jumps by, and `LineChosen`, that a line is encoded by the first row whose
mode takes its notation (there is a first since there is one: `NatMinimum`). `FormTaken` says which
modes a notation reaches; `TemplateTaken` that the notation `disasm` prints reaches no row before
the one it came from, except for zero page rows. `DistanceReaches` is the arithmetic
of branches: a target is reached exactly from 126 bytes before to 129 behind.

### The monitor

`MonitorProofs` proves `LineIsShown`, `MonitorSpec => []AssembledShows`, for all files, lines
that the user may type and memory images. `MonitorAssumption` says of them what the grammar gives.

`LineListed` is the part without state: of the bytes a line was assembled to, `disasm`
makes the same instruction, the operand in its plain notation, and the number of bytes.
The rest is that nothing comes between the `a` and the listing. `MonInv` says that no ROM is
ever mapped (`readMem` reads through the banks, `writeRam` stores to RAM), that `start`
is an address whatever was typed before, that the monitor is idle with a pc that is a number
whenever it starts, and `LineKept`: as long as a line stands in `last`, the program waits
for the next one and the bytes in RAM are its bytes. `Cells` and `Fills` relate the
block that `writeRam` stored to the three bytes that `readMem` reads.

The attempt to prove it showed that the property was not true as it had been stated, on
lines the run did not have. The assembler drops an index behind `#` and one of the two in
`(v,y),y`, so that the listing has another notation than the line (`Plain`); and a constant
that does not fit a byte, or an address of more than two, is cut (`InReach`). The property now
says so, and MCMonitor has lines with such notations.

### Only model-checked

* Everything temporal with fairness (`RunStops`, `ParseEnds`, `PromptReturns`), which is out of
  the prover's reach.
* `ListSorted` and `WeekdayFound`: what two particular programs compute on their machine;
  a proof would be one about the programs, loop by loop. `RequirementsMet` speaks of the
  files of `asm/`, and so of particular programs too.
* `StallsAtJump`: that an instruction other than a jump moves the pc needs that its code is
  still there, so that pushes stay on the stack page, so that the stack pointer is a byte:
  the type of the whole machine through every compilation and command of the monitor,
  which MachineProofs has for the machine alone.

## 5. Abstractions

* Names, printing, consoles, files and the x86 checks are left out.
* `result` is kept modulo 1024 and `pc` as the signed number its 32 bits stand for.
* RAM holds only bytes that were written; the constructor zeroes the others.
* The uninitialised `pc` of a new machine is any of `GarbagePC`.
* A device callback answers with any of `DeviceBytes`; one that calls into the
  machine (to remap memory, or to stop the run) is not modelled.
* `eachOp` of `DefaultPolicy` returns false and is left out of Machine.
* `mapReadCallback` and `mapWriteCallback` are called with one page.
* Numbers in sources are whole, without `/`; the placeholder for an unknown name is 1234
  without its fraction. `(unsigned)` is the value modulo 2^32 (`Unsigned`), of which TLC only
  evaluates numbers that fit its integers; the proofs hold for all. `&` and `|` are those
  of 16-bit numbers, a shift takes its count modulo 32, and `%` by zero ends the program as an
  unknown operator does.
* A string line stores nothing, since `fstrdata` encodes the empty `data` instead of the
  string, but raises `maxOrg` as any data does.
* A source comes taken apart into lines and tokens. Lines on which the rules of
  the grammar interfere with each other are left out where the model does not say so: an
  instruction named `b`, labels named like an instruction, comments.
* `dump.dat` is kept as its length. What the monitor prints is not modelled, except for
  the disassembler's lines and the trace's choice of what changed.
* A monitor line is its name, hexadecimal arguments and string; one with a definition, which
  the loop ignores, is a mistyped line.

## 6. Not modelled

* **C64** (`c64.cpp`): commented out of `CMakeLists.txt`, and no longer compatible with
  `Machine`: `C64Policy` has no constructor from a machine and its `eachOp` takes one where
  `run()` passes a policy.
* **Moves of a machine** (`emulator.h` 95): defaulted, and no code moves one.
* **`regs()` as a reference**: only `checkEffect` assigns through it, to a machine that never
  runs.
* **How a text is taken apart** (boost::spirit), the regular expressions' characters,
  option parsing (vendored `CLI11.hpp`), the line editor and console, benchmark timing,
  the Zydis check, the unused `emulator.d`.
* **The times and the "Affects Flags" lines of `opcodes.txt`**: README.md calls the emulator not
  cycle correct, and which flags change follows from the behaviour. Codes, modes
  and behaviour are OpcodeSheet and Cpu6502.

What could be added: `StallsAtJump` as a theorem; `asm/microchess.asm` as a source.
