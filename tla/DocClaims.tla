------------------------------ MODULE DocClaims ------------------------------
(***************************************************************************)
(* What README.md and opcodes.txt say a program or a client may rely on,   *)
(* where Machine, the code, does otherwise.                                *)
(***************************************************************************)
EXTENDS Machine

opcode == Fetch(ram, pc)
Executed == InLoop /\ phase' = "running"

\* README.md:17 `machine.setPC(0x8000);`: the next instruction comes from the
\* address given to setPC.
SetPCEntersAddress ==
    [][phase = "idle" /\ pc' # pc => pc' \in EntryPoints]_vars

\* opcodes.txt:203-204: $58 is CLI and $78 is SEI; after :210 the first lets
\* interrupts in and the second keeps them out.
InterruptFlagOpcodes ==
    [][Executed =>
          /\ opcode = \h58 => "IRQ" \notin sr'
          /\ opcode = \h78 => "IRQ" \in sr']_vars

\* opcodes.txt:245-255: "there is no carry associated with the indirect jump",
\* $6c: with its pointer on the last byte of a page, the high byte of the
\* target is the first of that page.
IndirectJumpStaysInPage ==
    [][LET pointer == PC16(pc + 1)
       IN  Executed /\ opcode = \h6c /\ lo(pointer) = 255 =>
              pc' = to_adr(PC8(pointer), PC8(pointer - 255))]_vars

=============================================================================
