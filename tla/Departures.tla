----------------------------- MODULE Departures -----------------------------
(***************************************************************************)
(* Where the Machine of src/emulator.h does something else than the 6502   *)
(* of src/opcodes.txt, one action per departure: what the sheet says, at   *)
(* its lines, and what the code does instead.  Each is guarded by the very *)
(* case in which the two differ; everywhere else Cpu6502 stands.           *)
(***************************************************************************)
EXTENDS Cpu6502

CONSTANT EmptyStackExit  \* POLICY::ExitOnStackWrap

\* `stack[sp + i]` as Brk, Rti, Rts and Jsr index it: with an int.
Slot(i) == 256 + (reg["SP"] + i)
Held(i) == At(ram, Slot(i))
PutWord(w) == Stored(Stored(ram, Slot(0), w \div 256), Slot(-1), w % 256)

\* opcodes.txt:203-204 lists CLI as $58 and SEI as $78.  The table has them
\* exchanged.
FlagCodesExchanged ==
    /\ name \in {"CLI", "SEI"} /\ Proceeds
    /\ P' = With(P, "IRQ", name = "CLI")
    /\ UNCHANGED <<reg, ram>>

\* opcodes.txt:210: the 6502 sets I in response to an interrupt.  Brk leaves it
\* as it is.  opcodes.txt:510: the stack is always on page one.  The three
\* bytes Brk pushes with SP below 2 run into page zero.
BreakKeepsI ==
    /\ name = "BRK" /\ GoesOn
    /\ "IRQ" \notin P \/ reg["SP"] < 2
    /\ ram' = Stored(PutWord(Following(2)), Slot(-2), StatusByte)
    /\ reg' = [reg EXCEPT !["SP"] = SP(-3)]
    /\ pc' \in {to_adr(l, h) : l \in Read(65534), h \in Read(65535)}
    /\ UNCHANGED P

\* opcodes.txt:510, again: the bytes Rti and Rts pull with SP at the end of page
\* one come from page two.
InterruptReturnsOffPage ==
    /\ name = "RTI" /\ GoesOn
    /\ reg["SP"] >= 253
    /\ P' = Pulled(Held(1))
    /\ pc' = to_adr(Held(2), Held(3))
    /\ reg' = [reg EXCEPT !["SP"] = SP(3)]
    /\ UNCHANGED ram

ReturnsOffPage ==
    /\ name = "RTS" /\ GoesOn
    /\ reg["SP"] >= 254 /\ ~(EmptyStackExit /\ reg["SP"] = 255)
    /\ pc' = (to_adr(Held(1), Held(2)) + 1) % 65536
    /\ reg' = [reg EXCEPT !["SP"] = SP(2)]
    /\ UNCHANGED <<ram, P>>

\* opcodes.txt:450: RTS pulls two bytes and goes to their address plus one.
\* With an empty stack it ends the run instead, if the policy says so, and
\* must: no instruction follows it.
EmptyStackEnds ==
    /\ name = "RTS" /\ EmptyStackExit /\ reg["SP"] = 255
    /\ phase' = "leaving"
    /\ pc' = Following(1)
    /\ UNCHANGED <<reg, ram, P>>

\* opcodes.txt:265: JSR goes to the address that follows it.  The code reads
\* that address after it has pushed, which differs when the stack runs over the
\* instruction; and with SP at 0 it pushes into page zero (opcodes.txt:510).
CallReadsLate ==
    /\ name = "JSR" /\ GoesOn
    /\ reg["SP"] = 0 \/ {Slot(0), Slot(-1)} \cap {Following(1), Following(2)} # {}
    /\ ram' = PutWord(Following(2))
    /\ pc' = to_adr(Fetch(ram', Following(1)), Fetch(ram', Following(2)))
    /\ reg' = [reg EXCEPT !["SP"] = SP(-2)]
    /\ UNCHANGED P

\* opcodes.txt:245-255: no carry in the pointer of an indirect jump, "the 6502
\* took the low byte of the address from $30FF and the high byte from $3000".
\* The code takes the high byte from $3100.
JumpCarries ==
    /\ name = "JMP" /\ mode = "IND" /\ GoesOn
    /\ CodeWord % 256 = 255
    /\ pc' \in {to_adr(l, h) : l \in Read(CodeWord), h \in Read(CodeWord + 1)}
    /\ UNCHANGED <<reg, ram, P>>

Departs ==
    /\ phase = "running"
    /\ Fetch(ram, pc) \in DOMAIN Sheet
    /\ \/ FlagCodesExchanged \/ BreakKeepsI \/ InterruptReturnsOffPage \/ ReturnsOffPage
       \/ EmptyStackEnds \/ CallReadsLate \/ JumpCarries
    /\ UNCHANGED mapping

=============================================================================
