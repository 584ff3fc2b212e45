----------------------------- MODULE Subroutines -----------------------------
(***************************************************************************)
(* Calls and interrupts as a program sees them: Machine with a history     *)
(* variable that records, for each JSR and BRK that has not returned yet,  *)
(* where and with which flags the program expects to go on.                *)
(*                                                                         *)
(* src/emulator.h keeps no such frames: it pushes bytes that an RTS or RTI *)
(* pulls again, many instructions and nested calls later.  The properties  *)
(* relate the two ends.  A frame is forgotten once the stack pointer is    *)
(* moved above it or one of its bytes is overwritten.                      *)
(***************************************************************************)
EXTENDS Machine

VARIABLE frames  \* a set: no two live frames have the same sp

hvars == <<vars, frames>>

\* What an instruction that pushes `size` bytes and returns to `next` leaves.
Frame(size, next) ==
    [kind |-> op.fn, size |-> size, sp |-> SP(-size), next |-> next, flags |-> get_SR]

Executed == InLoop /\ phase' = "running"

Calls ==
    CASE Executed /\ op.fn = "Jsr" -> {Frame(2, pc + 3)}
      [] Executed /\ op.fn = "Brk" -> {Frame(3, (pc + 2) % 65536)}
      [] OTHER                     -> {}

Stands(f) ==
    /\ reg'["SP"] <= f.sp
    /\ \A i \in f.sp + 1 .. f.sp + f.size : At(ram', 256 + i) = Stack(i)

HistoryInit == Init /\ frames = {}
HistoryNext == Next /\ frames' = {f \in frames : Stands(f)} \cup Calls
HistorySpec == HistoryInit /\ [][HistoryNext]_hvars

-----------------------------------------------------------------------------

ReturnOf == [Jsr |-> "Rts", Brk |-> "Rti"]

\* The step returns from f: the stack pointer is back where f left it.
ReturnsFrom(f) == Executed /\ op.fn = ReturnOf[f.kind] /\ reg["SP"] = f.sp

\* All of the frame lies in page one: 2 bytes below sp for JSR, 3 for BRK.
InPageOne(f) == f.sp + f.size <= 255

GoesBack(f) ==
    /\ pc' = f.next /\ reg'["SP"] = f.sp + f.size
    /\ f.kind = "Brk" => get_SR' = f.flags

\* An RTS that finds the stack as its JSR left it goes on after that JSR, and
\* an RTI goes on two bytes after its BRK with the flags the BRK saw, whatever
\* calls, interrupts and pushes were nested in between; both leave the stack
\* as it was before (emulator.h Jsr, Brk, Rts and Rti; opcodes.txt:119, :210,
\* :265, :450).
ReturnsToCaller ==
    [][\A f \in frames : ReturnsFrom(f) /\ InPageOne(f) => GoesBack(f)]_hvars

=============================================================================
