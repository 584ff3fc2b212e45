----------------------------- MODULE AluProofs -----------------------------
(***************************************************************************)
(* The invariants of AluReference as theorems.  The operands are bytes and *)
(* a carry in every state (OperandsOK); that the arithmetic is right on    *)
(* them follows from OperatorLemmas, digit by digit for decimal numbers.   *)
(***************************************************************************)
EXTENDS AluReference, OperatorLemmas

OperandsOK == a \in Byte /\ z \in Byte /\ c \in {0, 1}

LEMMA AlwaysOperands == Spec => []OperandsOK
<1>1. Init => OperandsOK BY DEF Init, OperandsOK, Byte
<1>2. OperandsOK /\ [Next]_<<a, z, c>> => OperandsOK'
    BY DEF Next, OperandsOK, Byte
<1> QED BY <1>1, <1>2, PTL DEF Spec

\* Binary ADC is the addition of bytes and of signed bytes, with its carry
\* and overflow (emulator.h Adc and set).
THEOREM AdcCorrect == Spec => []AdcIsAddition
<1>1. ASSUME OperandsOK PROVE AdcIsAddition
    <2>1. a \in Byte /\ z \in Byte /\ c \in {0, 1} BY <1>1 DEF OperandsOK
    <2>2. AdcRc = a + z + c /\ AdcRc \in 0 .. 511 BY <2>1, AdcSum DEF AdcRc
    <2>3. lo(AdcRc) + 256 * CarryOut(AdcRc) = AdcRc
        BY <2>2, SumBits DEF CarryOut
    <2>4. Overflow(a, AdcRc, z) <=> Signed8(a) + Signed8(z) + c \notin -128 .. 127
        BY <2>1, <2>2, OverflowIsSigned
    <2> QED BY <2>2, <2>3, <2>4 DEF AdcIsAddition
<1> QED BY <1>1, AlwaysOperands, PTL

\* Binary SBC, an addition of the complement, is the subtraction, its carry an
\* inverse borrow (emulator.h Sbc and set).
THEOREM SbcCorrect == Spec => []SbcIsSubtraction
<1>1. ASSUME OperandsOK PROVE SbcIsSubtraction
    <2>1. a \in Byte /\ z \in Byte /\ c \in {0, 1} BY <1>1 DEF OperandsOK
    <2>2. SbcRc = 256 + (a - z - (1 - c)) /\ SbcRc \in 0 .. 511
        BY <2>1, SbcDifference DEF SbcRc
    <2>3. lo(SbcRc) = (IF SbcRc > 255 THEN SbcRc - 256 ELSE SbcRc)
        BY <2>2, SumBits
    <2>4. CarryOut(SbcRc) = (IF SbcRc > 255 THEN 1 ELSE 0)
        BY <2>2, SumBits DEF CarryOut
    <2>5. lo(SbcRc) - 256 * (1 - CarryOut(SbcRc)) = SbcRc - 256
        BY <2>2, <2>3, <2>4
    <2>6. SbcRc - 256 = a - z - (1 - c) BY <2>1, <2>2 DEF Byte
    <2>7. Overflow(a, SbcRc, Complement(z)) <=>
             Signed8(a) - Signed8(z) - (1 - c) \notin -128 .. 127
        BY <2>1, SbcOverflow DEF SbcRc
    <2> QED BY <2>5, <2>6, <2>7 DEF SbcIsSubtraction
<1> QED BY <1>1, AlwaysOperands, PTL

LEMMA BcdIsDecimal ==
    ASSUME NEW b \in Byte, IsBcd(b)
    PROVE  Decimal(b) /\ Value(b) = Number(b)
BY Digits DEF IsBcd, Decimal, Value, Number

LEMMA BcdOfDigits ==
    ASSUME NEW h \in 0 .. 9, NEW l \in 0 .. 9
    PROVE  IsBcd(16 * h + l) /\ Value(16 * h + l) = 10 * h + l
BY OfDigits DEF IsBcd, Value

\* Decimal ADC of two BCD numbers is their decimal sum, with its carry
\* (emulator.h Adc<MODE, true>).
THEOREM DecimalAdcCorrect == Spec => []DecimalAdcIsBcd
<1>1. ASSUME OperandsOK PROVE DecimalAdcIsBcd
    <2> DEFINE rc == AdcDecimalSum(a, z, c)
    <2> SUFFICES ASSUME IsBcd(a), IsBcd(z)
                 PROVE  /\ IsBcd(lo(rc))
                        /\ Value(lo(rc)) + 100 * CarryOut(rc) = Value(a) + Value(z) + c
        BY DEF DecimalAdcIsBcd
    <2>1. a \in Byte /\ z \in Byte /\ c \in {0, 1} BY <1>1 DEF OperandsOK
    <2>2. /\ Decimal(a) /\ Value(a) = Number(a)
          /\ Decimal(z) /\ Value(z) = Number(z)
        BY <2>1, BcdIsDecimal
    <2>3. PICK h \in 0 .. 9, l \in 0 .. 9, K \in {0, 1} :
             /\ lo(rc) = 16 * h + l /\ BitOf(rc, 256) = K
             /\ 10 * h + l + 100 * K = Number(a) + Number(z) + c
        BY <2>1, <2>2, AdcDecimalNumber
    <2> HIDE DEF rc
    <2>4. IsBcd(lo(rc)) /\ Value(lo(rc)) = 10 * h + l BY <2>3, BcdOfDigits
    <2> QED BY <2>2, <2>3, <2>4 DEF CarryOut
<1> QED BY <1>1, AlwaysOperands, PTL

\* Decimal SBC of two BCD numbers is their decimal difference, its carry an
\* inverse borrow (emulator.h Sbc<MODE, true>).
THEOREM DecimalSbcCorrect == Spec => []DecimalSbcIsBcd
<1>1. ASSUME OperandsOK PROVE DecimalSbcIsBcd
    <2> DEFINE digits == SbcDecimalDigits(a, z, c)
               rc     == SbcDecimalRc(a, z, c)
    <2> SUFFICES ASSUME IsBcd(a), IsBcd(z)
                 PROVE  /\ IsBcd(digits)
                        /\ Value(digits) - 100 * (1 - CarryOut(rc))
                              = Value(a) - Value(z) - (1 - c)
        BY DEF DecimalSbcIsBcd
    <2>1. a \in Byte /\ z \in Byte /\ c \in {0, 1} BY <1>1 DEF OperandsOK
    <2>2. /\ Decimal(a) /\ Value(a) = Number(a)
          /\ Decimal(z) /\ Value(z) = Number(z)
        BY <2>1, BcdIsDecimal
    <2>3. PICK h \in 0 .. 9, l \in 0 .. 9, B \in {0, 1} :
             /\ digits = 16 * h + l /\ BitOf(rc, 256) = 1 - B
             /\ 10 * h + l - 100 * B = Number(a) - Number(z) - (1 - c)
        BY <2>1, <2>2, SbcDecimalNumber
    <2> HIDE DEF digits, rc
    <2>4. IsBcd(digits) /\ Value(digits) = 10 * h + l BY <2>3, BcdOfDigits
    <2>5. CarryOut(rc) = 1 - B BY <2>3 DEF CarryOut
    <2>6. 1 - CarryOut(rc) = B BY <2>5
    <2> QED BY <2>2, <2>3, <2>4, <2>6
<1> QED BY <1>1, AlwaysOperands, PTL

\* On any operands the carry of decimal SBC is that of binary SBC.
THEOREM SbcCarriesCorrect == Spec => []SbcCarriesAgree
<1>1. ASSUME OperandsOK PROVE SbcCarriesAgree
    <2>1. a \in Byte /\ z \in Byte /\ c \in {0, 1} BY <1>1 DEF OperandsOK
    <2>2. SbcRc = 256 + (a - z - (1 - c)) /\ SbcRc \in 0 .. 511
        BY <2>1, SbcDifference DEF SbcRc
    <2>3. BitOf(SbcRc, 256) = IF SbcRc > 255 THEN 1 ELSE 0 BY <2>2, SumBits
    <2>4. SbcRc > 255 <=> a - z - (1 - c) >= 0 BY <2>1, <2>2 DEF Byte
    <2> QED BY <2>1, <2>3, <2>4, SbcDecimalCarry DEF SbcCarriesAgree, CarryOut
<1> QED BY <1>1, AlwaysOperands, PTL

\* Rotations undo each other, and the shifts are rotations of a clear carry
\* (emulator.h Asl, Lsr, Rol, Ror).
THEOREM RotationsCorrect == Spec => []RotationsInverse
<1>1. ASSUME OperandsOK PROVE RotationsInverse
    <2>1. a \in Byte /\ c \in {0, 1} BY <1>1 DEF OperandsOK
    <2>2. \A v \in Byte, k \in {0, 1} :
             Shifted("Rol", v, k) = [rc |-> 2 * v + k, out |-> IF v >= 128 THEN 1 ELSE 0]
        BY DEF Shifted, BitOf, Byte
    <2>3. \A v \in Byte, k \in {0, 1} :
             Shifted("Ror", v, k) = [rc |-> 128 * k + v \div 2, out |-> v % 2]
        BY DEF Shifted, Byte
    <2>4. /\ Shifted("Asl", a, 0) = [rc |-> 2 * a, out |-> IF a >= 128 THEN 1 ELSE 0]
          /\ Shifted("Lsr", a, 0) = [rc |-> a \div 2, out |-> a % 2]
        BY <2>1 DEF Shifted, BitOf, Byte
    <2> DEFINE l == IF a >= 128 THEN 2 * a + c - 256 ELSE 2 * a + c
               r == 128 * c + a \div 2
    <2>5. lo(2 * a + c) = l /\ l \in Byte BY <2>1 DEF lo, Byte
    <2>6. lo(r) = r /\ r \in Byte BY <2>1 DEF lo, Byte
    <2>7. /\ 128 * (IF a >= 128 THEN 1 ELSE 0) + l \div 2 = a
          /\ l % 2 = c
        BY <2>1 DEF Byte
    <2>8. lo(a) = a BY <2>1, ByteBits
    <2>9. lo(2 * r + (a % 2)) = a /\ (r >= 128 <=> c = 1)
        BY <2>1 DEF lo, Byte
    <2> DEFINE left  == Shifted("Rol", a, c)
               right == Shifted("Ror", a, c)
    <2>10. left = [rc |-> 2 * a + c, out |-> IF a >= 128 THEN 1 ELSE 0]
        BY <2>1, <2>2
    <2>11. right = [rc |-> r, out |-> a % 2] BY <2>1, <2>3
    <2>12. /\ lo(Shifted("Ror", lo(left.rc), left.out).rc) = a
           /\ Shifted("Ror", lo(left.rc), left.out).out = c
        <3> DEFINE k == IF a >= 128 THEN 1 ELSE 0
        <3>1. Shifted("Ror", l, k) = [rc |-> 128 * k + l \div 2, out |-> l % 2]
            BY <2>3, <2>5
        <3>2. lo(left.rc) = l /\ left.out = k BY <2>5, <2>10
        <3> HIDE DEF l, left
        <3> QED BY <2>7, <2>8, <3>1, <3>2
    <2>13. /\ lo(Shifted("Rol", lo(right.rc), right.out).rc) = a
           /\ Shifted("Rol", lo(right.rc), right.out).out = c
        <3>1. a % 2 \in {0, 1} BY <2>1 DEF Byte
        <3> HIDE DEF r
        <3>2. Shifted("Rol", r, a % 2) =
                 [rc |-> 2 * r + (a % 2), out |-> IF r >= 128 THEN 1 ELSE 0]
            BY <2>2, <2>6, <3>1
        <3> QED BY <2>1, <2>6, <2>9, <2>11, <3>2
    <2>14. c = 0 => /\ lo(Shifted("Asl", a, c).rc) = lo(left.rc)
                    /\ Shifted("Asl", a, c).out = left.out
                    /\ Shifted("Lsr", a, c) = right
        BY <2>1, <2>4, <2>10, <2>11 DEF Byte
    <2> QED BY <2>12, <2>13, <2>14 DEF RotationsInverse
<1> QED BY <1>1, AlwaysOperands, PTL

=============================================================================
