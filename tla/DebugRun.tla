------------------------------ MODULE DebugRun ------------------------------
(***************************************************************************)
(* run() under the policies of src/main.cpp: before every opcode eachOp    *)
(* compares the pc with that of the opcode before and stops the run if it  *)
(* has not moved; DebugPolicy also traces what changed, by a second        *)
(* machine `om` that follows the first.                                    *)
(***************************************************************************)
EXTENDS Machine

VARIABLES
    lastpc,   \* static in eachOp: nobody resets it between two runs
    doTrace,  \* DebugPolicy::doTrace
    om,       \* checkEffect's machine: its registers, sr, pc and RAM
    effect    \* what checkEffect printed last: registers, SR or not, cells

debug == <<lastpc, doTrace, om, effect>>

Unchanged == [regs |-> {}, SR |-> FALSE, cells |-> {}]

\* The constructor of om leaves its pc alone, but om is static, and zero.
DebugInit ==
    /\ lastpc = -1
    /\ doTrace = FALSE
    /\ om = [reg |-> [A |-> 0, X |-> 0, Y |-> 0, SP |-> 255],
             sr |-> {"BRK", "xXx"}, pc |-> 0, ram |-> <<>>]
    /\ effect = Unchanged

regPC == pc % 65536

\* om.regs() = m.regs() copies sr but not the result S and Z come from: that
\* of om is always 0.
Changes ==
    [regs  |-> {r \in Registers : om.reg[r] # reg[r]},
     SR    |-> om.sr \cup {"ZERO"} # get_SR,
     cells |-> {a \in DOMAIN om.ram \cup DOMAIN ram : At(om.ram, a) # At(ram, a)}]

checkEffect ==
    /\ effect' = IF om.pc % 65536 = 0 THEN Unchanged ELSE Changes
    /\ om' = [reg |-> reg, sr |-> sr, pc |-> pc, ram |-> ram]

Trace == IF doTrace THEN checkEffect ELSE UNCHANGED <<om, effect>>

\* Mutant: not only the same opcode, but any before it.
StallsBackwards == regPC <= lastpc

\* In eachOp of both policies.
Stalls == regPC = lastpc

\* eachOp returns true: "STALL".
Stall ==
    /\ InLoop /\ Stalls
    /\ Trace
    /\ phase' = "idle"
    /\ UNCHANGED <<reg, pc, cycles, status, memory, toCycles, calls, lastpc, doTrace>>

\* eachOp returns false, and the opcode is executed.
Opcode ==
    /\ InLoop /\ ~Stalls
    /\ Trace
    /\ lastpc' = regPC
    /\ UNCHANGED doTrace
    /\ Step \/ Undefined

Return == RunReturns /\ UNCHANGED debug

\* setPC(p) and run(budget).
Runs(p, budget) ==
    /\ phase = "idle" /\ runs < MaxRuns
    /\ pc' = p
    /\ cycles' = 0 /\ toCycles' = budget
    /\ phase' = "running"
    /\ runs' = runs + 1
    /\ UNCHANGED <<reg, status, memory, writes, debug>>

=============================================================================
