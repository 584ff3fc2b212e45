-------------------------------- MODULE Alu --------------------------------
(***************************************************************************)
(* The arithmetic of the opcodes Adc, Sbc, Asl, Lsr, Ror and Rol of        *)
(* src/emulator.h as pure functions of the accumulator or operand and the  *)
(* carry (0 or 1).  Each returns what the code hands to set<BITS>: the     *)
(* unmasked `rc`, whose bits 0..9 the lazily evaluated flags are read      *)
(* from, and the byte that is written back.                                *)
(***************************************************************************)
EXTENDS Words

\* Mutant: any change of sign counts.
OverflowAnySignChange(a, res, arg) == BitOf(a, 128) # BitOf(res, 128)

\* Did adding arg to the accumulator a, giving res, overflow?
Overflow(a, res, arg) ==
    BitOf(a, 128) = BitOf(arg, 128) /\ BitOf(a, 128) # BitOf(res, 128)

\* Mutant: the two's complement, which the carry makes again.
ComplementTwice(x) == 256 - x

\* The value is x's two's complement: adding it subtracts x (Sbc, Cmp).
Complement(x) == 255 - x

AdcBinary(a, z, c) == a + z + c

\* Mutant: the low digits are compared without the carry that came in.
AdcDecimalSumNoCarryIn(a, z, c) ==
    LET sum  == a + z + c
        low  == IF (a % 16) + (z % 16) >= 10 THEN sum + 6 ELSE sum
    IN  IF (low \div 16) * 16 > \h90 THEN low + \h60 ELSE low

\* Decimal Adc: carry the low digit, then the high digit (mask 0xff0).
AdcDecimalSum(a, z, c) ==
    LET sum  == a + z + c
        low  == IF (a % 16) + (z % 16) + c >= 10 THEN sum + 6 ELSE sum
        high == (low \div 16) * 16
    IN  IF high > \h90 THEN low + \h60 ELSE low

\* Mutant: bit 8 is left as the subtraction made it.
SbcDecimalRcPlain(a, z, c) == a - z + (c - 1)

\* Decimal Sbc takes its flags from the binary difference with bit 8, the
\* inverted borrow, toggled ...
SbcDecimalRc(a, z, c) ==
    LET rc == a - z + (c - 1)
    IN  IF BitOf(rc, 256) = 1 THEN rc - 256 ELSE rc + 256

\* Mutant: the low digit borrows, the high digit does not lend.
SbcDecimalDigitsNoBorrow(a, z, c) ==
    LET al == (a % 16) - (z % 16) + (c - 1)
        ah == (a \div 16) - (z \div 16)
    IN  (IF BitOf(al, 16) = 1 THEN (al - 6) % 16 ELSE al)
        + 16 * (IF BitOf(ah, 16) = 1 THEN (ah - 6) % 16 ELSE ah)

\* ... and its digits from a subtraction of its own on each nibble.
SbcDecimalDigits(a, z, c) ==
    LET al      == (a % 16) - (z % 16) + (c - 1)
        ah      == (a \div 16) - (z \div 16)
        borrow  == BitOf(al, 16) = 1
        ah1     == IF borrow THEN ah - 1 ELSE ah
        low     == IF borrow THEN (al - 6) % 16 ELSE al
        high    == IF BitOf(ah1, 16) = 1 THEN (ah1 - 6) % 16 ELSE ah1
    IN  low + 16 * high

\* Mutant: Ror takes the carry it just set.
ShiftedLateCarry(fn, v, c) ==
    CASE fn = "Asl" -> [rc |-> 2 * v, out |-> BitOf(2 * v, 256)]
      [] fn = "Lsr" -> [rc |-> v \div 2, out |-> v % 2]
      [] fn = "Ror" -> [rc |-> (256 * (v % 2) + v) \div 2, out |-> v % 2]
      [] fn = "Rol" -> [rc |-> 2 * v + c, out |-> BitOf(2 * v + c, 256)]

\* A shift of the byte v: the unmasked result and the bit shifted out.
Shifted(fn, v, c) ==
    CASE fn = "Asl" -> [rc |-> 2 * v, out |-> BitOf(2 * v, 256)]
      [] fn = "Lsr" -> [rc |-> v \div 2, out |-> v % 2]
      [] fn = "Ror" -> [rc |-> (256 * c + v) \div 2, out |-> v % 2]
      [] fn = "Rol" -> [rc |-> 2 * v + c, out |-> BitOf(2 * v + c, 256)]

=============================================================================
