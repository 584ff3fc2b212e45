-------------------------- MODULE StatusRegister --------------------------
(***************************************************************************)
(* The status register of src/emulator.h.  The S and Z flags are not kept  *)
(* in `sr`: they are read, when something asks for them, from `result`,    *)
(* the result of the last operation.  The D flag is kept twice: in `sr`    *)
(* and in the choice of the jump table the run loop dispatches through.    *)
(***************************************************************************)
EXTENDS StatusFlags, Alu

VARIABLES
    sr,        \* the flags that are set, a subset of Flags
    result,    \* the last result; only its bits 0..9 are ever read
    jumpTable  \* "normal" or "bcd": where `jumpTable` points

ResultBits == 1024
Kept(res) == res % ResultBits

ResultZero == lo(result) = 0
ResultSign == BitOf(result, 128) = 1 \/ BitOf(result, 512) = 1

\* The flags get_SR() shows the outside world.
get_SR == sr \cup {f \in SZ : IF f = "SIGN" THEN ResultSign ELSE ResultZero}

\* Mutant: the carry is never brought in.
NoCarry == 0

carry == IF "CARRY" \in sr THEN 1 ELSE 0

\* Mutant: the sign is looked for in the byte alone.
CheckByteSign(flag) == CASE flag = "ZERO" -> ResultZero
                         [] flag = "SIGN" -> BitOf(result, 128) = 1
                         [] OTHER         -> flag \in sr

\* Is `flag` set, as the conditional branches ask?
check(flag) == CASE flag = "ZERO" -> ResultZero
                 [] flag = "SIGN" -> ResultSign
                 [] OTHER         -> flag \in sr

setDec(on) == jumpTable' = IF on THEN "bcd" ELSE "normal"

\* Mutant: PLP and RTI forget the jump table.
set_SRKeepsTable(s) ==
    /\ UNCHANGED jumpTable
    /\ result' = (IF "SIGN" \in s THEN 512 ELSE 0)
               + (IF "ZERO" \in s THEN 0 ELSE 1)
    /\ sr' = (s \ SZ) \cup {"BRK", "xXx"}

\* A whole new status s, from PLP or RTI.  The table is swapped only when
\* the D bit differs from the one in sr.
set_SR(s) ==
    /\ IF ("DECIMAL" \in s) # ("DECIMAL" \in sr)
          THEN setDec("DECIMAL" \in s)
          ELSE UNCHANGED jumpTable
    /\ result' = (IF "SIGN" \in s THEN 512 ELSE 0)
               + (IF "ZERO" \in s THEN 0 ELSE 1)
    /\ sr' = (s \ SZ) \cup {"BRK", "xXx"}

\* Mutant: S and Z are set in sr too.
setAllBits(BITS, a, res, arg) ==
    /\ result' = Kept(res)
    /\ sr' = (sr \ BITS)
             \cup {f \in BITS : \/ f = "CARRY" /\ BitOf(res, 256) = 1
                                \/ f = "OVER" /\ Overflow(a, res, arg)
                                \/ f = "SIGN" /\ BitOf(res, 128) = 1
                                \/ f = "ZERO" /\ lo(res) = 0}

\* set<BITS>(res, arg), a being the accumulator before the operation.
set(BITS, a, res, arg) ==
    /\ result' = Kept(res)
    /\ sr' = (IF BITS \cap {"CARRY", "OVER"} # {} THEN sr \ BITS ELSE sr)
             \cup {f \in BITS : \/ f = "CARRY" /\ BitOf(res, 256) = 1
                                \/ f = "OVER" /\ Overflow(a, res, arg)}

\* The carry alone, as the right shifts set it.
WithCarry(F, bit) == (F \ {"CARRY"}) \cup {f \in {"CARRY"} : bit = 1}

=============================================================================
