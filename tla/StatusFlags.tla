---------------------------- MODULE StatusFlags ----------------------------
(***************************************************************************)
(* The flags of the 6502 status byte, under the names src/emulator.h gives *)
(* them, and the two conversions between a set of flags and the byte.      *)
(***************************************************************************)
EXTENDS Words

Weight == [CARRY |-> 1, ZERO |-> 2, IRQ |-> 4, DECIMAL |-> 8, BRK |-> 16,
           xXx |-> 32, OVER |-> 64, SIGN |-> 128]
Flags == DOMAIN Weight

SZ   == {"SIGN", "ZERO"}
SZC  == SZ \cup {"CARRY"}
SZCV == SZC \cup {"OVER"}

\* A status byte, as PHP pushes it and PLP pulls it, and the flags it sets.
SrByte(F)  == Compose(LAMBDA w : \E f \in F : Weight[f] = w)
SrFlags(b) == {f \in Flags : BitOf(b, Weight[f]) = 1}

=============================================================================
