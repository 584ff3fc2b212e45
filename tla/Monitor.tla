------------------------------ MODULE Monitor ------------------------------
(***************************************************************************)
(* The program: main() of src/main.cpp assembles a source file into the    *)
(* RAM of its machine and runs it from $1000, or enters the machine code   *)
(* monitor of src/monitor.h, whose commands run code, assemble files and   *)
(* single lines, list and dump memory, and trace.                          *)
(*                                                                         *)
(* The machine is Machine under DebugPolicy (DebugRun), the assembler of   *)
(* files is Parser, and both work on the same `ram`.  A command is a line  *)
(* as the grammar takes it apart: its name, hexadecimal arguments and      *)
(*   "a"   op, arg, tokens: instruction, notation and operand              *)
(*   "af"  file: the source the file holds                                 *)
(* The address of "a" is optional and the mnemonic follows it, so that     *)
(* leading letters a to f of a mnemonic count as an address if there is    *)
(* none: "a cld" has the argument $c and the instruction "ld".             *)
(***************************************************************************)
EXTENDS DebugRun, Assembler, Checks, FiniteSets

CONSTANTS
    Sources, Class, GarbageValues,
    Commands,     \* the lines typed in
    MainBudget, TestBudget, DefaultBudget,  \* the arguments of run()
    TestImage,    \* 6502test.bin, with the change main() makes to it
    MaxCommands   \* bound: lines typed in

VARIABLES
    source, before, at, org, symbols, undefined, ucount, e, verdict, passes,
    settled, placed, breaks, maxOrg,
    control,    \* "start", "main", "monitor", "last run" or "exited"
    doMonitor,  \* the option -m
    start,      \* where the monitor lists and assembles next
    prefix,     \* the address the next line is offered with, or -1
    me,         \* `e` of the MonParser
    typed,      \* counts the commands
    last        \* the last line assembled by "a", and its address

Asm == INSTANCE Parser

\* The lines as the grammar gives them.
CommandOK(cmd) ==
    LET n == Cardinality({k \in DOMAIN cmd.tokens : cmd.tokens[k].t = "end"})
    IN  /\ cmd.args \in Seq(Nat)
        /\ cmd.name = "a" => Asm!NotationOK(cmd.arg, n) /\ Asm!WellFormed(cmd.tokens)
        /\ cmd.name = "af" => \A i \in DOMAIN cmd.file : Asm!LineOK(cmd.file[i])

ASSUME MonitorAssumption == Asm!SourcesOK /\ \A cmd \in Commands : CommandOK(cmd)

machine == <<reg, pc, cycles, status, mapping, toCycles, phase, calls>>
parser == <<source, before, at, org, symbols, undefined, ucount, e, verdict,
            passes, settled, placed, maxOrg>>
console == <<start, prefix, me, typed, last>>
monitorVars == <<vars, debug, parser, breaks, control, doMonitor, console>>

NoLine == [name |-> ""]

MonitorInit ==
    /\ Init /\ DebugInit
    /\ source = <<>> /\ before = FALSE /\ at = 1 /\ org = 0 /\ symbols = <<>>
    /\ undefined = {} /\ ucount = -1 /\ e = [negate |-> FALSE, val |-> 0]
    /\ verdict = "none" /\ passes = 1 /\ settled = <<>> /\ placed = <<>>
    /\ breaks = <<>> /\ maxOrg = 0
    /\ control = "start" /\ doMonitor \in BOOLEAN
    /\ start = 0 /\ prefix = -1 /\ typed = 0 /\ last = NoLine
    /\ me \in [negate : {FALSE}, val : GarbageValues]

-----------------------------------------------------------------------------
(* compile() and run() *)

\* compile(): a new AsmState and grammar; RAM and breaks stay as they are.
Compiles(s) ==
    /\ source' = s /\ before' \in BOOLEAN
    /\ at' = 1 /\ org' = Asm!orgStart
    /\ symbols' = Asm!Predefined
    /\ undefined' = {} /\ ucount' = -1
    /\ e' \in [negate : {FALSE}, val : GarbageValues]
    /\ verdict' = "parsing"
    /\ passes' = 1 /\ settled' = Asm!Predefined /\ placed' = <<>>
    /\ maxOrg' = 0
    /\ UNCHANGED <<machine, ram, debug, breaks, doMonitor>>

Compiling ==
    /\ Asm!Parse
    /\ UNCHANGED <<machine, debug, control, doMonitor, console>>

Running ==
    /\ Stall \/ Opcode \/ Return
    /\ UNCHANGED <<parser, breaks, control, doMonitor, console>>

\* compile() and run() have returned, and in the case of compile() normally.
Ready == phase = "idle" /\ verdict \notin {"parsing", "thrown", "overrun"}

-----------------------------------------------------------------------------
(* main() *)

\* The option -F: the whole memory is loaded, the code run, and that is all.
FullTest ==
    /\ control = "start"
    /\ ram' = Overlaid(ram, TestImage)
    /\ pc' = Signed16(\h1000)
    /\ cycles' = 0 /\ toCycles' = TestBudget
    /\ phase' = "running" /\ runs' = runs + 1
    /\ control' = "last run"
    /\ UNCHANGED <<reg, status, mapping, writes, debug, parser, breaks, doMonitor, console>>

MainCompiles ==
    /\ control = "start"
    /\ \E s \in Sources : Compiles(s)
    /\ control' = "main"
    /\ UNCHANGED console

NoFile ==
    /\ control = "start"
    /\ control' = "main"
    /\ UNCHANGED <<machine, ram, debug, parser, breaks, doMonitor, console>>

\* "Parse failed", and the exit code -1.
ParseFailed ==
    /\ control = "main" /\ Ready /\ verdict \in {"unresolved", "error"}
    /\ control' = "exited"
    /\ UNCHANGED <<machine, ram, debug, parser, breaks, doMonitor, console>>

\* monitor() never returns.
EnterMonitor ==
    /\ control = "main" /\ Ready /\ verdict \in {"accepted", "none"} /\ doMonitor
    /\ control' = "monitor"
    /\ start' = regPC
    /\ UNCHANGED <<machine, ram, debug, parser, breaks, doMonitor, prefix, me, typed, last>>

MainRuns ==
    /\ control = "main" /\ Ready /\ verdict \in {"accepted", "none"} /\ ~doMonitor
    /\ Runs(Signed16(\h1000), MainBudget)
    /\ control' = "last run"
    /\ UNCHANGED <<parser, ram, breaks, doMonitor, console>>

MainReturns ==
    /\ control = "last run" /\ phase = "idle"
    /\ control' = "exited"
    /\ UNCHANGED <<machine, ram, debug, parser, breaks, doMonitor, console>>

-----------------------------------------------------------------------------
(* The commands of the monitor *)

AtPrompt == control = "monitor" /\ Ready

Types(cmd, name) ==
    /\ cmd.name = name /\ typed < MaxCommands
    /\ typed' = typed + 1
    /\ name # "a" => last' = NoLine
    /\ UNCHANGED <<control, doMonitor>>

Idles == UNCHANGED <<machine, ram, debug, parser, breaks>>

From(cmd) == IF cmd.args = <<>> THEN start ELSE cmd.args[1] % 65536

\* The line as it was offered: the address goes away.
Enter(cmd) ==
    /\ Types(cmd, "enter")
    /\ prefix' = -1
    /\ Idles /\ UNCHANGED <<start, me>>

\* A line no rule takes has no effect but that of the rules that tried: a
\* minus sign in front of no number stays for the number that comes next.
Mistyped(cmd) ==
    /\ Types(cmd, "?")
    /\ me' = IF cmd.minus THEN [me EXCEPT !.negate = TRUE] ELSE me
    /\ Idles /\ UNCHANGED <<start, prefix>>

TraceOnOff(cmd) ==
    /\ Types(cmd, "trace")
    /\ doTrace' = (cmd.strarg = "on")
    /\ UNCHANGED <<machine, ram, lastpc, om, effect, parser, breaks, start, prefix, me>>

\* readMem(org, data, 3): the addresses wrap.
Memory3(a) == [k \in 1 .. 3 |-> read_bank(ram, (a + k - 1) % 65536)]

Listed(a) == disasm(a, Memory3(a))
Below(a)  == (a + Listed(a).size) % 65536

\* The address behind n listed lines.
Behind(a, n) ==
    LET after[k \in 0 .. n] == IF k = 0 THEN a ELSE Below(after[k - 1])
    IN  after[n]

Disassemble(cmd) ==
    /\ Types(cmd, "d")
    /\ start' = Behind(From(cmd), IF Len(cmd.args) > 1 THEN cmd.args[2] ELSE 16)
    /\ Idles /\ UNCHANGED <<prefix, me>>

Dump(cmd) ==
    /\ Types(cmd, "m")
    /\ start' = From(cmd)
    /\ Idles /\ UNCHANGED <<prefix, me>>

ShowRegisters(cmd) ==
    /\ Types(cmd, "r")
    /\ Idles /\ UNCHANGED <<start, prefix, me>>

\* The pc is used as it is, at first the uninitialised one.
Continue(cmd) ==
    /\ Types(cmd, "c")
    /\ Runs(pc, DefaultBudget)
    /\ UNCHANGED <<parser, ram, breaks, start, prefix, me>>

Go(cmd) ==
    /\ Types(cmd, "g") /\ cmd.args # <<>>
    /\ Runs(Signed16(cmd.args[1] % 65536), DefaultBudget)
    /\ UNCHANGED <<parser, ram, breaks, start, prefix, me>>

AssembleFile(cmd) ==
    /\ Types(cmd, "af")
    /\ Compiles(cmd.file)
    /\ UNCHANGED <<start, prefix, me>>

\* The line of an "a" command, by the MonParser's own `e`; its AsmState knows
\* no symbol but "PI", and its org is never set.
Evaluated(cmd) == Asm!Evaluated(cmd.tokens, [c \in {Class["PI"]} |-> 3], 0, me)

LineBytes(cmd) == Asm!Assembled(cmd, Evaluated(cmd), From(cmd))

Line(cmd, there) ==
    [name |-> cmd.op, arg |-> Asm!Operand(cmd, Evaluated(cmd).values), org |-> there]

\* Mutant: the address is not moved.
AssembleInPlace(cmd) ==
    /\ Types(cmd, "a")
    /\ LET bytes == LineBytes(cmd)
           there == From(cmd)
       IN  /\ ram' = Overlaid(ram, Asm!DataAt(there, bytes))
           /\ start' = there
           /\ prefix' = IF bytes = <<>> THEN prefix ELSE start'
           /\ last' = IF bytes = <<>> THEN NoLine ELSE Line(cmd, there)
    /\ me' = Evaluated(cmd).e
    /\ UNCHANGED <<machine, debug, parser, breaks>>

\* A line that does not assemble is not reported, but its address is taken.
AssembleLine(cmd) ==
    /\ Types(cmd, "a") /\ ~Evaluated(cmd).thrown
    /\ LET bytes == LineBytes(cmd)
           there == From(cmd)
       IN  /\ Asm!Fits(there, bytes)
           /\ ram' = Overlaid(ram, Asm!DataAt(there, bytes))
           /\ start' = (there + Len(bytes)) % 65536
           /\ prefix' = IF bytes = <<>> THEN prefix ELSE start'
           /\ last' = IF bytes = <<>> THEN NoLine ELSE Line(cmd, there)
    /\ me' = Evaluated(cmd).e
    /\ UNCHANGED <<machine, debug, parser, breaks>>

\* args[0] of "g" without an argument, an operator without a function, an
\* instruction that does not fit below the end of memory.
Crash(cmd) ==
    /\ Types(cmd, cmd.name)
    /\ \/ cmd.name = "g" /\ cmd.args = <<>>
       \/ cmd.name = "a" /\ (Evaluated(cmd).thrown \/ ~Asm!Fits(From(cmd), LineBytes(cmd)))
    /\ phase' = "undefined"
    /\ last' = NoLine
    /\ UNCHANGED <<reg, pc, cycles, status, mapping, toCycles, calls, ram, debug,
                   parser, breaks, start, prefix, me>>

Command ==
    AtPrompt /\ \E cmd \in Commands :
        \/ Enter(cmd) \/ Mistyped(cmd) \/ TraceOnOff(cmd) \/ Disassemble(cmd)
        \/ Dump(cmd) \/ ShowRegisters(cmd) \/ Continue(cmd) \/ Go(cmd)
        \/ AssembleFile(cmd) \/ AssembleLine(cmd) \/ Crash(cmd)

-----------------------------------------------------------------------------

\* The steps of the program, and those of its user.
Process ==
    \/ Compiling \/ Running
    \/ FullTest \/ MainCompiles \/ NoFile \/ ParseFailed \/ EnterMonitor
    \/ MainRuns \/ MainReturns

MonitorNext == Process \/ Command

\* The program waits for a line, has ended, or has crashed.
Crashed == phase = "undefined" \/ verdict \in {"thrown", "overrun"}
Waiting == AtPrompt \/ control = "exited" \/ Crashed

\* Until then it is one thread that goes on: WF(Process), as Process is
\* enabled whenever the program is not waiting.
Fairness == []<>Waiting \/ []<><<Process>>_monitorVars

MonitorSpec == MonitorInit /\ [][MonitorNext]_monitorVars /\ Fairness

-----------------------------------------------------------------------------
(* Properties *)

Passes(reqs) == Holds(reqs, reg, SrByte(get_SR), ram)

\* The program main() assembled is executed, at an address with a check.
AtBreak == control = "last run" /\ verdict = "accepted" /\ InLoop /\ regPC \in DOMAIN breaks

\* Assembler and machine together compute what the sources of asm/ say they
\* do: whenever the run of an assembled file comes to a line behind an @req,
\* the registers and the memory cells it names have the values it gives.
\* The status register is left out: its two unused bits always read 1, and
\* the checks of asm/sub.asm have them 0 (compile.h:61-81; asm/*.asm).
RequirementsMet ==
    AtBreak => Passes({r \in breaks[regPC] : r[1] # RSR})

InReach(l) ==
    l.arg # NoArg =>
        /\ l.arg.val \in (IF l.arg.hash THEN Byte ELSE Adr)
        /\ l.name \in Branches => l.arg.val - l.org \in -126 .. 129

\* The notation without what the assembler does not look at: an index behind
\* a "#", the ",y" behind "(v,x)", the first one of "(v,y),y".
Plain(a) ==
    IF a = NoArg THEN a
    ELSE [a EXCEPT !.outer = a.outer /\ a.index # "x",
                   !.index = IF a.hash \/ (a.close /\ a.index = "y") THEN "" ELSE a.index]

\* A line typed in with "a" is what "d" lists at its address, for as long as
\* nothing else is typed: the same instruction with the same operand, in the
\* same notation but for what the assembler ignores, and the next line is
\* offered the address behind it; if only a constant fits a byte, an address
\* two, and a branch gets to its target (monitor.h:101-132; assembler.cpp;
\* MonParser).
AssembledShows ==
    last # NoLine /\ InReach(last) =>
        LET shown == Listed(last.org)
        IN  /\ shown.name = last.name
            /\ shown.arg = Plain(last.arg)
            /\ start = (last.org + shown.size) % 65536 /\ prefix = start

\* A run that has executed something is stopped with STALL only at a jump, a
\* branch or a return to itself: not by a loop of several instructions, nor by
\* an instruction that is executed again and again (main.cpp:95-106).  Code
\* on the stack page is left out, where a JSR may overwrite itself.
StallsAtJump ==
    [][/\ phase = "running" /\ phase' = "idle"
       /\ 0 < cycles /\ cycles < toCycles /\ pc > 511
       => op.fn \in {"Branch", "Jmp", "Jsr", "Rts", "Rti", "Brk"}]_monitorVars

\* Whatever is typed, the monitor comes back to its prompt, unless the
\* program crashes: every file is read to an end and every run stops
\* (monitor.h:77-147; parser.cpp parse; emulator.h run).
PromptReturns == []<>Waiting

\* No opcode at a checked address is executed while its check fails: the
\* function stored by set_break throws "REQ Failed" (compile.h:58-77).
RequirementsEnforced ==
    [][AtBreak /\ pc' # pc => Passes(breaks[regPC])]_monitorVars

=============================================================================
