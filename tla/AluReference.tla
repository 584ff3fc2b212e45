---------------------------- MODULE AluReference ----------------------------
(***************************************************************************)
(* The arithmetic of Alu against definitions of what it is to compute, on  *)
(* every accumulator a, operand z and carry c: the state is the operands,  *)
(* and the invariants say what ADC and SBC (or a shift of a) give on them. *)
(* The carry and overflow are read from the result as set<BITS> reads them.*)
(***************************************************************************)
EXTENDS Alu

VARIABLES a, z, c

Init == a \in Byte /\ z = 0 /\ c \in {0, 1}
Next == z < 255 /\ z' = z + 1 /\ UNCHANGED <<a, c>>
Spec == Init /\ [][Next]_<<a, z, c>>

CarryOut(rc) == BitOf(rc, 256)

AdcRc == AdcBinary(a, z, c)
SbcRc == AdcBinary(a, Complement(z), c)

\* ADC: the sum modulo 256 with its ninth bit as carry, and V exactly when the
\* sum of the two's complement numbers leaves -128 .. 127 (emulator.h Adc and
\* set; opcodes.txt:214).
AdcIsAddition ==
    /\ lo(AdcRc) + 256 * CarryOut(AdcRc) = a + z + c
    /\ Overflow(a, AdcRc, z) <=> Signed8(a) + Signed8(z) + c \notin -128 .. 127

\* SBC: the difference modulo 256, the carry as an inverse borrow, and V for
\* the signed difference (emulator.h Sbc and set; opcodes.txt:214, :490).
SbcIsSubtraction ==
    /\ lo(SbcRc) - 256 * (1 - CarryOut(SbcRc)) = a - z - (1 - c)
    /\ Overflow(a, SbcRc, Complement(z)) <=>
          Signed8(a) - Signed8(z) - (1 - c) \notin -128 .. 127

IsBcd(b) == b % 16 < 10 /\ b \div 16 < 10
Value(b) == 10 * (b \div 16) + (b % 16)

\* Decimal ADC of two packed BCD numbers is their decimal sum: two digits and
\* a carry of 100 (emulator.h Adc<MODE, true>).
DecimalAdcIsBcd ==
    LET rc == AdcDecimalSum(a, z, c)
    IN  IsBcd(a) /\ IsBcd(z) =>
            /\ IsBcd(lo(rc))
            /\ Value(lo(rc)) + 100 * CarryOut(rc) = Value(a) + Value(z) + c

\* Decimal SBC of two packed BCD numbers is their difference, the carry an
\* inverse borrow of 100 (emulator.h Sbc<MODE, true>).
DecimalSbcIsBcd ==
    LET digits == SbcDecimalDigits(a, z, c)
    IN  IsBcd(a) /\ IsBcd(z) =>
            /\ IsBcd(digits)
            /\ Value(digits) - 100 * (1 - CarryOut(SbcDecimalRc(a, z, c)))
                  = Value(a) - Value(z) - (1 - c)

\* On any operands, BCD or not, the carry of a decimal SBC is that of the
\* binary one, although the code computes it from another number.
SbcCarriesAgree == CarryOut(SbcDecimalRc(a, z, c)) = CarryOut(SbcRc)

\* A left and a right rotation undo each other, carry included, and a shift
\* is the rotation with the carry clear (emulator.h Asl, Lsr, Rol, Ror).
RotationsInverse ==
    LET left  == Shifted("Rol", a, c)
        right == Shifted("Ror", a, c)
        back  == Shifted("Ror", lo(left.rc), left.out)
        forth == Shifted("Rol", lo(right.rc), right.out)
    IN  /\ lo(back.rc) = a /\ back.out = c
        /\ lo(forth.rc) = a /\ forth.out = c
        /\ c = 0 => /\ lo(Shifted("Asl", a, c).rc) = lo(left.rc)
                    /\ Shifted("Asl", a, c).out = left.out
                    /\ Shifted("Lsr", a, c) = right

=============================================================================
