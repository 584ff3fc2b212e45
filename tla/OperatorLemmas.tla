--------------------------- MODULE OperatorLemmas ---------------------------
(***************************************************************************)
(* What the operators the components share compute, for every argument:    *)
(* the arithmetic of Alu; the instruction table entry by entry, the two    *)
(* ways it is searched and the jump table made from it; the notations of   *)
(* operands, and the bytes of a line and of a listing. They are stated     *)
(* apart from the components, so that a proof about these never has to     *)
(* expand a bit of a sum or a row of the table.                            *)
(***************************************************************************)
EXTENDS Alu, Assembler, SequenceTheorems, WellFoundedInduction, TLAPS

-----------------------------------------------------------------------------
(* Bits *)

\* Cited instead of the definition of Adr, whose bounds are slow to expand.
LEMMA AdrIs == \A a : a \in Adr <=> a \in Int /\ 0 <= a /\ a < 65536
<1> DEFINE m == 65535
<1>1. Adr = 0 .. m
  BY DEF Adr
<1>2. m \in Int /\ m + 1 = 65536
  OBVIOUS
<1> HIDE DEF m
<1> QED BY <1>1, <1>2

LEMMA ModAdr == ASSUME NEW n \in Int PROVE n % 65536 \in Adr
<1>1. n % 65536 \in Int /\ 0 <= n % 65536 /\ n % 65536 < 65536
  OBVIOUS
<1> QED BY <1>1, AdrIs

LEMMA BitIs01 == ASSUME NEW v \in Int, NEW w \in Nat \ {0} PROVE BitOf(v, w) \in {0, 1}
BY DEF BitOf

LEMMA ByteBits ==
    ASSUME NEW v \in Byte
    PROVE  /\ BitOf(v, 128) = (IF v >= 128 THEN 1 ELSE 0)
           /\ BitOf(v, 64) = (IF v % 128 >= 64 THEN 1 ELSE 0)
           /\ BitOf(v, 512) = 0
           /\ lo(v) = v
BY DEF BitOf, Byte, lo

\* The bits the flags are read from, of a sum of two bytes and a carry.
LEMMA SumBits ==
    ASSUME NEW s \in 0 .. 511
    PROVE  /\ lo(s) = (IF s > 255 THEN s - 256 ELSE s)
           /\ BitOf(s, 256) = (IF s > 255 THEN 1 ELSE 0)
           /\ BitOf(s, 512) = 0
           /\ BitOf(s, 128) = (IF lo(s) >= 128 THEN 1 ELSE 0)
BY DEF BitOf, lo

\* A bit that one operand lacks is not in the conjunction.
LEMMA AndBelow ==
    ASSUME NEW a \in Byte, NEW b, a < 128
    PROVE  BitAnd(a, b) \in 0 .. 127
<1>1. BitOf(a, 128) = 0 BY ByteBits DEF Byte
<1> QED BY <1>1 DEF BitAnd, Compose

-----------------------------------------------------------------------------
(* Binary arithmetic *)

\* Two bytes of the same sign whose sum has the other one: the signed sum
\* does not fit.
LEMMA OverflowIsSigned ==
    ASSUME NEW a \in Byte, NEW z \in Byte, NEW c \in {0, 1}
    PROVE  Overflow(a, a + z + c, z) <=> Signed8(a) + Signed8(z) + c \notin -128 .. 127
<1> DEFINE s == a + z + c
<1>1. s \in 0 .. 511 BY DEF Byte
<1>2. BitOf(s, 128) = (IF lo(s) >= 128 THEN 1 ELSE 0) BY <1>1, SumBits
<1>3. lo(s) = (IF s > 255 THEN s - 256 ELSE s) BY <1>1, SumBits
<1>4. /\ BitOf(a, 128) = (IF a >= 128 THEN 1 ELSE 0)
      /\ BitOf(z, 128) = (IF z >= 128 THEN 1 ELSE 0)
    BY ByteBits
<1> QED BY <1>2, <1>3, <1>4 DEF Overflow, Signed8, Byte

LEMMA ComplementIsByte ==
    ASSUME NEW z \in Byte
    PROVE  Complement(z) \in Byte /\ Signed8(Complement(z)) = -1 - Signed8(z)
BY DEF Complement, Signed8, Byte

LEMMA AdcSum ==
    ASSUME NEW a \in Byte, NEW z \in Byte, NEW c \in {0, 1}
    PROVE  /\ AdcBinary(a, z, c) = a + z + c
           /\ AdcBinary(a, z, c) \in 0 .. 511
BY DEF AdcBinary, Byte

LEMMA SbcDifference ==
    ASSUME NEW a \in Byte, NEW z \in Byte, NEW c \in {0, 1}
    PROVE  /\ AdcBinary(a, Complement(z), c) = 256 + (a - z - (1 - c))
           /\ AdcBinary(a, Complement(z), c) \in 0 .. 511
BY DEF AdcBinary, Complement, Byte

LEMMA SbcOverflow ==
    ASSUME NEW a \in Byte, NEW z \in Byte, NEW c \in {0, 1}
    PROVE  Overflow(a, AdcBinary(a, Complement(z), c), Complement(z)) <=>
              Signed8(a) - Signed8(z) - (1 - c) \notin -128 .. 127
<1>1. AdcBinary(a, Complement(z), c) = a + Complement(z) + c BY DEF AdcBinary
<1>2. Overflow(a, a + Complement(z) + c, Complement(z)) <=>
         Signed8(a) + Signed8(Complement(z)) + c \notin -128 .. 127
    BY ComplementIsByte, OverflowIsSigned
<1>3. Signed8(a) \in Int /\ Signed8(z) \in Int BY DEF Signed8, Byte
<1>4. Signed8(a) + Signed8(Complement(z)) + c = Signed8(a) - Signed8(z) - (1 - c)
    BY <1>3, ComplementIsByte
<1> QED BY <1>1, <1>2, <1>4

-----------------------------------------------------------------------------
(* Decimal arithmetic *)

\* A byte by its digits.
LEMMA Digits ==
    ASSUME NEW b \in Byte
    PROVE  /\ b % 16 \in 0 .. 15 /\ b \div 16 \in 0 .. 15
           /\ b = 16 * (b \div 16) + (b % 16)
BY DEF Byte

LEMMA OfDigits ==
    ASSUME NEW h \in 0 .. 31, NEW l \in 0 .. 15
    PROVE  /\ (16 * h + l) \div 16 = h
           /\ (16 * h + l) % 16 = l
           /\ lo(16 * h + l) = 16 * (IF h >= 16 THEN h - 16 ELSE h) + l
           /\ BitOf(16 * h + l, 256) = (IF h >= 16 THEN 1 ELSE 0)
BY DEF lo, BitOf

\* Adding two digits and a carry: the digit of the sum, and what it carries.
DigitSum(x, y, c) == IF x + y + c >= 10 THEN x + y + c - 10 ELSE x + y + c
DigitCarry(x, y, c) == IF x + y + c >= 10 THEN 1 ELSE 0

\* A packed BCD number, and its two digits.
Decimal(b) == b \in Byte /\ b \div 16 \in 0 .. 9 /\ b % 16 \in 0 .. 9

\* Decimal ADC adds digit by digit if all digits are decimal.
LEMMA AdcDecimalDigits ==
    ASSUME NEW a, NEW z, Decimal(a), Decimal(z), NEW c \in {0, 1}
    PROVE  LET k == DigitCarry(a % 16, z % 16, c)
           IN  AdcDecimalSum(a, z, c) =
                  16 * (16 * DigitCarry(a \div 16, z \div 16, k)
                        + DigitSum(a \div 16, z \div 16, k))
                  + DigitSum(a % 16, z % 16, c)
<1> DEFINE ah == a \div 16
           al == a % 16
           zh == z \div 16
           zl == z % 16
           k  == DigitCarry(al, zl, c)
           h  == ah + zh + k
           low == IF al + zl + c >= 10 THEN a + z + c + 6 ELSE a + z + c
<1>1. /\ ah \in 0 .. 9 /\ al \in 0 .. 9 /\ a = 16 * ah + al
      /\ zh \in 0 .. 9 /\ zl \in 0 .. 9 /\ z = 16 * zh + zl
    BY Digits DEF Decimal
<1>2. AdcDecimalSum(a, z, c) = LET high == (low \div 16) * 16
                               IN  IF high > 144 THEN low + 96 ELSE low
    BY DEF AdcDecimalSum
<1> HIDE DEF ah, al, zh, zl
<1>3. low = 16 * h + DigitSum(al, zl, c)
    BY <1>1 DEF DigitCarry, DigitSum
<1>4. h \in 0 .. 31 /\ DigitSum(al, zl, c) \in 0 .. 15 /\ k \in {0, 1}
    BY <1>1 DEF DigitCarry, DigitSum
<1> HIDE DEF low, k
<1>5. low \div 16 = h
    <2> HIDE DEF h
    <2> QED BY <1>3, <1>4, OfDigits
<1>6. AdcDecimalSum(a, z, c) = IF h >= 10 THEN low + 96 ELSE low
    BY <1>2, <1>4, <1>5
<1>7. DigitSum(al, zl, c) \in Int BY <1>4
<1>8. AdcDecimalSum(a, z, c) = 16 * (16 * DigitCarry(ah, zh, k) + DigitSum(ah, zh, k))
                               + DigitSum(al, zl, c)
    BY <1>1, <1>3, <1>4, <1>6, <1>7 DEF DigitCarry, DigitSum
<1> QED BY <1>8 DEF ah, al, zh, zl, k

\* Subtracting a digit and a borrow: the digit of the difference, and what it
\* borrows.
DigitDifference(x, y, b) == IF x - y - b < 0 THEN x - y - b + 10 ELSE x - y - b
DigitBorrow(x, y, b) == IF x - y - b < 0 THEN 1 ELSE 0

\* How the code sees that a digit borrowed, and brings it back to 0 .. 9.
LEMMA NibbleBorrows ==
    ASSUME NEW d \in -10 .. 9
    PROVE  /\ BitOf(d, 16) = 1 <=> d < 0
           /\ d < 0 => (d - 6) % 16 = d + 10
BY DEF BitOf

\* Decimal SBC subtracts digit by digit if all digits are decimal.
LEMMA SbcDecimalIsDigitwise ==
    ASSUME NEW a, NEW z, Decimal(a), Decimal(z), NEW c \in {0, 1}
    PROVE  LET b == DigitBorrow(a % 16, z % 16, 1 - c)
           IN  SbcDecimalDigits(a, z, c) =
                  16 * DigitDifference(a \div 16, z \div 16, b)
                  + DigitDifference(a % 16, z % 16, 1 - c)
<1> DEFINE ah == a \div 16
           al == a % 16
           zh == z \div 16
           zl == z % 16
           low  == al - zl + (c - 1)
           high == IF low < 0 THEN ah - zh - 1 ELSE ah - zh
<1>1. /\ ah \in 0 .. 9 /\ al \in 0 .. 9 /\ zh \in 0 .. 9 /\ zl \in 0 .. 9
    BY DEF Decimal
<1> HIDE DEF ah, al, zh, zl
<1>2. low \in -10 .. 9 /\ high \in -10 .. 9 BY <1>1
<1>3. /\ BitOf(low, 16) = 1 <=> low < 0
      /\ low < 0 => (low - 6) % 16 = low + 10
      /\ BitOf(high, 16) = 1 <=> high < 0
      /\ high < 0 => (high - 6) % 16 = high + 10
    <2> HIDE DEF low, high
    <2> QED BY <1>2, NibbleBorrows
<1>4. SbcDecimalDigits(a, z, c) =
         (IF low < 0 THEN low + 10 ELSE low) + 16 * (IF high < 0 THEN high + 10 ELSE high)
    BY <1>3 DEF SbcDecimalDigits, ah, al, zh, zl
<1>5. /\ low = al - zl - (1 - c)
      /\ high = ah - zh - DigitBorrow(al, zl, 1 - c)
    BY <1>1 DEF DigitBorrow
<1>6. /\ DigitDifference(al, zl, 1 - c) = IF low < 0 THEN low + 10 ELSE low
      /\ DigitDifference(ah, zh, DigitBorrow(al, zl, 1 - c)) = IF high < 0 THEN high + 10 ELSE high
    BY <1>5 DEF DigitDifference
<1> HIDE DEF low, high
<1>7. SbcDecimalDigits(a, z, c) =
         16 * DigitDifference(ah, zh, DigitBorrow(al, zl, 1 - c)) + DigitDifference(al, zl, 1 - c)
    BY <1>2, <1>4, <1>6
<1> QED BY <1>7 DEF ah, al, zh, zl

\* The carry of decimal SBC: bit 8 of the binary difference, toggled.
LEMMA SbcDecimalCarry ==
    ASSUME NEW a \in Byte, NEW z \in Byte, NEW c \in {0, 1}
    PROVE  BitOf(SbcDecimalRc(a, z, c), 256) = (IF a - z - (1 - c) >= 0 THEN 1 ELSE 0)
<1> DEFINE d == a - z + (c - 1)
<1>1. d \in -256 .. 255 BY DEF Byte
<1>2. d = a - z - (1 - c) BY DEF Byte
<1> HIDE DEF d
<1>3. BitOf(d, 256) = (IF d < 0 THEN 1 ELSE 0) BY <1>1 DEF BitOf
<1>4. /\ d < 0 => BitOf(d - 256, 256) = 0
      /\ d >= 0 => BitOf(d + 256, 256) = 1
    BY <1>1 DEF BitOf
<1>5. SbcDecimalRc(a, z, c) = IF BitOf(d, 256) = 1 THEN d - 256 ELSE d + 256
    BY DEF SbcDecimalRc, d
<1> QED BY <1>1, <1>2, <1>3, <1>4, <1>5

\* The number two decimal digits stand for.
Number(b) == 10 * (b \div 16) + (b % 16)

\* Decimal ADC, by the digits h and l it leaves and its carry K.
LEMMA AdcDecimalNumber ==
    ASSUME NEW a, NEW z, Decimal(a), Decimal(z), NEW c \in {0, 1}
    PROVE  \E h \in 0 .. 9, l \in 0 .. 9, K \in {0, 1} :
              /\ lo(AdcDecimalSum(a, z, c)) = 16 * h + l
              /\ BitOf(AdcDecimalSum(a, z, c), 256) = K
              /\ 10 * h + l + 100 * K = Number(a) + Number(z) + c
<1> DEFINE rc == AdcDecimalSum(a, z, c)
           ah == a \div 16
           al == a % 16
           zh == z \div 16
           zl == z % 16
           k  == DigitCarry(al, zl, c)
           l  == DigitSum(al, zl, c)
           h  == DigitSum(ah, zh, k)
           K  == DigitCarry(ah, zh, k)
<1>1. /\ ah \in 0 .. 9 /\ al \in 0 .. 9 /\ zh \in 0 .. 9 /\ zl \in 0 .. 9
      /\ Number(a) = 10 * ah + al /\ Number(z) = 10 * zh + zl
    BY DEF Decimal, Number
<1>2. rc = 16 * (16 * K + h) + l BY AdcDecimalDigits
<1> HIDE DEF ah, al, zh, zl
<1>3. l \in 0 .. 9 /\ k \in {0, 1} /\ 10 * k + l = al + zl + c
    BY <1>1 DEF DigitCarry, DigitSum
<1> HIDE DEF k
<1>4. h \in 0 .. 9 /\ K \in {0, 1} /\ 10 * K + h = ah + zh + k
    BY <1>1, <1>3 DEF DigitCarry, DigitSum
<1> HIDE DEF rc, l, h, K
<1>5. lo(rc) = 16 * h + l /\ BitOf(rc, 256) = K
    <2> DEFINE H == 16 * K + h
    <2>1. H \in 0 .. 31 /\ l \in 0 .. 15 BY <1>3, <1>4
    <2>2. IF H >= 16 THEN H - 16 = h /\ K = 1 ELSE H = h /\ K = 0 BY <1>4
    <2>3. rc = 16 * H + l BY <1>2
    <2> HIDE DEF H
    <2> QED BY <2>1, <2>2, <2>3, OfDigits
<1>6. 10 * h + l + 100 * K = Number(a) + Number(z) + c BY <1>1, <1>3, <1>4
<1> QED BY <1>3, <1>4, <1>5, <1>6 DEF rc

\* Decimal SBC, by the digits h and l it leaves and its borrow B.
LEMMA SbcDecimalNumber ==
    ASSUME NEW a, NEW z, Decimal(a), Decimal(z), NEW c \in {0, 1}
    PROVE  \E h \in 0 .. 9, l \in 0 .. 9, B \in {0, 1} :
              /\ SbcDecimalDigits(a, z, c) = 16 * h + l
              /\ BitOf(SbcDecimalRc(a, z, c), 256) = 1 - B
              /\ 10 * h + l - 100 * B = Number(a) - Number(z) - (1 - c)
<1> DEFINE digits == SbcDecimalDigits(a, z, c)
           carries == BitOf(SbcDecimalRc(a, z, c), 256)
           ah == a \div 16
           al == a % 16
           zh == z \div 16
           zl == z % 16
           b  == DigitBorrow(al, zl, 1 - c)
           l  == DigitDifference(al, zl, 1 - c)
           h  == DigitDifference(ah, zh, b)
           B  == DigitBorrow(ah, zh, b)
<1>1. /\ ah \in 0 .. 9 /\ al \in 0 .. 9 /\ zh \in 0 .. 9 /\ zl \in 0 .. 9
      /\ Number(a) = 10 * ah + al /\ Number(z) = 10 * zh + zl
      /\ a \in Byte /\ z \in Byte
    BY DEF Decimal, Number
<1>2. a = 16 * ah + al /\ z = 16 * zh + zl BY <1>1, Digits
<1>3. digits = 16 * h + l BY SbcDecimalIsDigitwise
<1>4. carries = IF a - z - (1 - c) >= 0 THEN 1 ELSE 0 BY <1>1, SbcDecimalCarry
<1> HIDE DEF ah, al, zh, zl, carries
<1>5. l \in 0 .. 9 /\ b \in {0, 1} /\ l - 10 * b = al - zl - (1 - c)
    BY <1>1 DEF DigitBorrow, DigitDifference
<1> HIDE DEF b
<1>6. h \in 0 .. 9 /\ B \in {0, 1} /\ h - 10 * B = ah - zh - b
    BY <1>1, <1>5 DEF DigitBorrow, DigitDifference
<1> HIDE DEF digits, l, h, B
<1>7. carries = 1 - B
    <2>1. a - z - (1 - c) = 16 * h + l - 160 * B + 6 * b
        BY <1>1, <1>2, <1>5, <1>6
    <2>2. a - z - (1 - c) >= 0 <=> B = 0 BY <1>5, <1>6, <2>1
    <2> QED BY <1>4, <1>6, <2>2
<1>8. 10 * h + l - 100 * B = Number(a) - Number(z) - (1 - c) BY <1>1, <1>5, <1>6
<1> QED BY <1>3, <1>5, <1>6, <1>7, <1>8 DEF digits, carries

-----------------------------------------------------------------------------
(* First elements *)

LEMMA NatMinimum ==
    ASSUME NEW T \in SUBSET Nat, T # {}
    PROVE  \E x \in T : \A y \in T : x <= y
<1>1. PICK x \in T : \A y \in T : <<y, x>> \notin OpToRel(<, Nat)
  BY NatLessThanWellFounded, WFMin
<1>2. \A y \in T : ~(y < x)
  BY <1>1 DEF OpToRel
<1> QED BY <1>2

LEMMA FirstExists ==
    ASSUME NEW S \in SUBSET (Nat \X Nat), S # {}
    PROVE  FirstOf(S) \in S /\ \A s \in S : ~Before(s, FirstOf(S))
<1> DEFINE F == {r[1] : r \in S}
<1>1. F \in SUBSET Nat /\ F # {}
  OBVIOUS
<1>2. PICK i \in F : \A j \in F : i <= j
  BY <1>1, NatMinimum
<1> DEFINE G == {r[2] : r \in {s \in S : s[1] = i}}
<1>3. G \in SUBSET Nat /\ G # {}
  BY <1>2
<1>4. PICK k \in G : \A l \in G : k <= l
  BY <1>3, NatMinimum
<1>5. <<i, k>> \in S
  BY <1>4
<1>6. ASSUME NEW s \in S PROVE ~Before(s, <<i, k>>)
  <2>1. s[1] \in F /\ s[1] \in Nat /\ s[2] \in Nat
    OBVIOUS
  <2>2. s[1] = i => s[2] \in G
    OBVIOUS
  <2>3. i \in Nat /\ k \in Nat
    BY <1>1, <1>2, <1>3, <1>4
  <2> QED BY <1>2, <1>4, <2>1, <2>2, <2>3 DEF Before
<1> QED BY <1>5, <1>6 DEF FirstOf

-----------------------------------------------------------------------------
(* The instruction table *)

\* The places of the instructions in the table.
Place(name) ==
    CASE name = "nop" -> 1  [] name = "lda" -> 2  [] name = "ldx" -> 3  [] name = "ldy" -> 4
      [] name = "sta" -> 5  [] name = "stx" -> 6  [] name = "sty" -> 7  [] name = "dec" -> 8
      [] name = "inc" -> 9  [] name = "tax" -> 10 [] name = "txa" -> 11 [] name = "tay" -> 12
      [] name = "tya" -> 13 [] name = "txs" -> 14 [] name = "tsx" -> 15 [] name = "dex" -> 16
      [] name = "inx" -> 17 [] name = "dey" -> 18 [] name = "iny" -> 19 [] name = "pha" -> 20
      [] name = "pla" -> 21 [] name = "php" -> 22 [] name = "plp" -> 23 [] name = "bcc" -> 24
      [] name = "bcs" -> 25 [] name = "bne" -> 26 [] name = "beq" -> 27 [] name = "bpl" -> 28
      [] name = "bmi" -> 29 [] name = "bvc" -> 30 [] name = "bvs" -> 31 [] name = "adc" -> 32
      [] name = "sbc" -> 33 [] name = "cmp" -> 34 [] name = "cpx" -> 35 [] name = "cpy" -> 36
      [] name = "and" -> 37 [] name = "eor" -> 38 [] name = "ora" -> 39 [] name = "sec" -> 40
      [] name = "clc" -> 41 [] name = "sei" -> 42 [] name = "cli" -> 43 [] name = "sed" -> 44
      [] name = "cld" -> 45 [] name = "clv" -> 46 [] name = "lsr" -> 47 [] name = "asl" -> 48
      [] name = "ror" -> 49 [] name = "rol" -> 50 [] name = "bit" -> 51 [] name = "rti" -> 52
      [] name = "brk" -> 53 [] name = "rts" -> 54 [] name = "jmp" -> 55 [] name = "jsr" -> 56

\* The place of the instruction that has a code.
Owner(code) ==
    CASE code = \hea -> 1
      [] code \in {\ha9, \ha5, \hb5, \had, \hbd, \hb9, \ha1, \hb1} -> 2
      [] code \in {\ha2, \ha6, \hb6, \hae, \hbe} -> 3
      [] code \in {\ha0, \ha4, \hb4, \hac, \hbc} -> 4
      [] code \in {\h85, \h95, \h8d, \h9d, \h99, \h81, \h91} -> 5
      [] code \in {\h86, \h96, \h8e} -> 6  [] code \in {\h84, \h94, \h8c} -> 7
      [] code \in {\hc6, \hd6, \hce, \hde} -> 8 [] code \in {\he6, \hf6, \hee, \hfe} -> 9
      [] code = \haa -> 10 [] code = \h8a -> 11 [] code = \ha8 -> 12 [] code = \h98 -> 13
      [] code = \h9a -> 14 [] code = \hba -> 15 [] code = \hca -> 16 [] code = \he8 -> 17
      [] code = \h88 -> 18 [] code = \hc8 -> 19 [] code = \h48 -> 20 [] code = \h68 -> 21
      [] code = \h08 -> 22 [] code = \h28 -> 23 [] code = \h90 -> 24 [] code = \hb0 -> 25
      [] code = \hd0 -> 26 [] code = \hf0 -> 27 [] code = \h10 -> 28 [] code = \h30 -> 29
      [] code = \h50 -> 30 [] code = \h70 -> 31
      [] code \in {\h69, \h65, \h75, \h6d, \h7d, \h79, \h61, \h71} -> 32
      [] code \in {\he9, \he5, \hf5, \hed, \hfd, \hf9, \he1, \hf1} -> 33
      [] code \in {\hc9, \hc5, \hd5, \hcd, \hdd, \hd9, \hc1, \hd1} -> 34
      [] code \in {\he0, \he4, \hec} -> 35 [] code \in {\hc0, \hc4, \hcc} -> 36
      [] code \in {\h29, \h25, \h35, \h2d, \h3d, \h39, \h21, \h31} -> 37
      [] code \in {\h49, \h45, \h55, \h4d, \h5d, \h59, \h41, \h51} -> 38
      [] code \in {\h09, \h05, \h15, \h0d, \h1d, \h19, \h01, \h11} -> 39
      [] code = \h38 -> 40 [] code = \h18 -> 41 [] code = \h58 -> 42 [] code = \h78 -> 43
      [] code = \hf8 -> 44 [] code = \hd8 -> 45 [] code = \hb8 -> 46
      [] code \in {\h4a, \h46, \h56, \h4e, \h5e} -> 47
      [] code \in {\h0a, \h06, \h16, \h0e, \h1e} -> 48
      [] code \in {\h6a, \h66, \h76, \h6e, \h7e} -> 49
      [] code \in {\h2a, \h26, \h36, \h2e, \h3e} -> 50
      [] code \in {\h24, \h2c} -> 51 [] code = \h40 -> 52 [] code = \h00 -> 53
      [] code = \h60 -> 54 [] code \in {\h4c, \h6c} -> 55 [] code = \h20 -> 56

\* The notations whose value may be short, and the order of their rows.
Shorter == {<<"ABS", "ZP">>, <<"ABSX", "ZPX">>, <<"ABSY", "ZPY">>}

\* What the table says of the rows of an instruction.
EntryAt(x, i) ==
    /\ Place(x.name) = i
    /\ DOMAIN x.opcodes = 1 .. Len(x.opcodes) /\ Len(x.opcodes) \in Nat \ {0}
    /\ \A k \in DOMAIN x.opcodes :
          LET r == x.opcodes[k]
          IN  /\ r.code \in Byte /\ Owner(r.code) = i
              /\ r.op = x.opcodes[1].op
              /\ r.mode \in Modes
              /\ r.mode = "REL" <=> x.name \in Branches
              /\ r.mode = "ACC" =>
                    k = 2 /\ x.opcodes[1].mode = "NONE" /\ x.opcodes[1].code = x.opcodes[2].code
    /\ \A k, l \in DOMAIN x.opcodes : k < l =>
          LET r == x.opcodes[k]
              s == x.opcodes[l]
          IN  /\ r.mode # s.mode
              /\ r.code = s.code => r.mode = "NONE" /\ s.mode = "ACC"
              /\ <<r.mode, s.mode>> \notin Shorter

\* Entries that take the places a to b.
Placed(s, a, b) == /\ s \in Seq({s[i] : i \in DOMAIN s})
                   /\ Len(s) = b - a + 1
                   /\ \A i \in 1 .. Len(s) : EntryAt(s[i], a - 1 + i)

-----------------------------------------------------------------------------
(* Entries by the way their codes are given *)

\* The same of the codes an entry is made of.
CodesAt(name, codes, i) ==
    /\ Place(name) = i
    /\ DOMAIN codes = 1 .. Len(codes) /\ Len(codes) \in Nat \ {0}
    /\ \A k \in DOMAIN codes :
          /\ codes[k][1] \in Byte /\ Owner(codes[k][1]) = i
          /\ codes[k][3] \in Modes
          /\ codes[k][3] = "REL" <=> name \in Branches
          /\ codes[k][3] = "ACC" => k = 2 /\ codes[1][3] = "NONE" /\ codes[1][1] = codes[2][1]
    /\ \A k, l \in DOMAIN codes : k < l =>
          /\ codes[k][3] # codes[l][3]
          /\ codes[k][1] = codes[l][1] => codes[k][3] = "NONE" /\ codes[l][3] = "ACC"
          /\ <<codes[k][3], codes[l][3]>> \notin Shorter

LEMMA EntryIs ==
    ASSUME NEW name, NEW does, NEW codes, NEW i, CodesAt(name, codes, i)
    PROVE  EntryAt(Entry(name, does, codes), i)
<1> DEFINE x == Entry(name, does, codes)
<1>1. x.name = name /\ DOMAIN x.opcodes = DOMAIN codes
  BY DEF Entry
<1>2. \A k \in DOMAIN codes : /\ x.opcodes[k].code = codes[k][1]
                              /\ x.opcodes[k].mode = codes[k][3]
                              /\ x.opcodes[k].op = does
  BY DEF Entry
<1>3. Len(x.opcodes) = Len(codes) /\ 1 \in DOMAIN codes
  BY <1>1 DEF CodesAt
<1> HIDE DEF x
<1>4. ASSUME NEW k \in DOMAIN x.opcodes
      PROVE  LET r == x.opcodes[k]
             IN  /\ r.code \in Byte /\ Owner(r.code) = i
                 /\ r.op = x.opcodes[1].op
                 /\ r.mode \in Modes
                 /\ r.mode = "REL" <=> x.name \in Branches
                 /\ r.mode = "ACC" =>
                       k = 2 /\ x.opcodes[1].mode = "NONE" /\ x.opcodes[1].code = x.opcodes[2].code
  BY <1>1, <1>2, <1>3 DEF CodesAt
<1>5. ASSUME NEW k \in DOMAIN x.opcodes, NEW l \in DOMAIN x.opcodes, k < l
      PROVE  LET r == x.opcodes[k]
                 s == x.opcodes[l]
             IN  /\ r.mode # s.mode
                 /\ r.code = s.code => r.mode = "NONE" /\ s.mode = "ACC"
                 /\ <<r.mode, s.mode>> \notin Shorter
  BY <1>1, <1>2, <1>5 DEF CodesAt
<1> QED BY <1>1, <1>3, <1>4, <1>5 DEF EntryAt, CodesAt, x

LEMMA Operand8At ==
    ASSUME NEW name, NEW i, NEW base \in {\h00, \h20, \h40, \h60, \hc0, \he0},
           Place(name) = i, name \notin Branches,
           \A c \in {base + \h09, base + \h05, base + \h15, base + \h0d, base + \h1d,
                   base + \h19, base + \h01, base + \h11} : Owner(c) = i
    PROVE  CodesAt(name, Operand8(base), i)
BY DEF CodesAt, Operand8, Shorter, Byte, Modes, OperandModes

LEMMA Modify4At ==
    ASSUME NEW name, NEW i, NEW base \in {\hc0, \he0},
           Place(name) = i, name \notin Branches,
           \A c \in {base + \h06, base + \h16, base + \h0e, base + \h1e} : Owner(c) = i
    PROVE  CodesAt(name, Modify4(base), i)
BY DEF CodesAt, Modify4, Shorter, Byte, Modes, OperandModes

LEMMA Shift6Is ==
    ASSUME NEW base \in Byte
    PROVE  Shift6(base) = << <<base + \h0a, 2, "NONE">>, <<base + \h0a, 2, "ACC">>,
               <<base + \h06, 5, "ZP">>,  <<base + \h16, 6, "ZPX">>,
               <<base + \h0e, 6, "ABS">>, <<base + \h1e, 7, "ABSX">> >>
<1> DEFINE a1 == <<base + \h0a, 2, "NONE">>
           a2 == <<base + \h0a, 2, "ACC">>
           b1 == <<base + \h06, 5, "ZP">>
           b2 == <<base + \h16, 6, "ZPX">>
           b3 == <<base + \h0e, 6, "ABS">>
           b4 == <<base + \h1e, 7, "ABSX">>
<1>1. Shift6(base) = <<a1, a2>> \o <<b1, b2, b3, b4>>
  BY DEF Shift6, Modify4
<1> HIDE DEF a1, a2, b1, b2, b3, b4
<1>2. <<a1, a2>> \o <<b1, b2, b3, b4>> = <<a1, a2, b1, b2, b3, b4>>
  <2> DEFINE S == {a1, a2, b1, b2, b3, b4}
             s == <<a1, a2>>
             t == <<b1, b2, b3, b4>>
             u == <<a1, a2, b1, b2, b3, b4>>
  <2>1. s \in Seq(S) /\ t \in Seq(S) /\ u \in Seq(S)
    OBVIOUS
  <2>2. Len(s) = 2 /\ Len(t) = 4 /\ Len(u) = 6
    OBVIOUS
  <2>3. \A i \in 1 .. 6 : u[i] = IF i <= 2 THEN s[i] ELSE t[i - 2]
    OBVIOUS
  <2> HIDE DEF S, s, t, u
  <2> DEFINE st == s \o t
  <2>4. /\ st \in Seq(S) /\ Len(st) = Len(s) + Len(t)
        /\ \A i \in 1 .. Len(s) + Len(t) :
              st[i] = IF i <= Len(s) THEN s[i] ELSE t[i - Len(s)]
    BY <2>1, ConcatProperties
  <2> HIDE DEF st
  <2>5. /\ st \in Seq(S) /\ Len(st) = 6
        /\ \A i \in 1 .. 6 : st[i] = u[i]
    BY <2>2, <2>3, <2>4
  <2>6. st = u
    BY <2>1, <2>2, <2>5, SeqEqual
  <2> QED BY <2>6 DEF st, s, t, u
<1> QED BY <1>1, <1>2 DEF a1, a2, b1, b2, b3, b4

LEMMA Shift6At ==
    ASSUME NEW name, NEW i, NEW base \in {\h00, \h20, \h40, \h60},
           Place(name) = i, name \notin Branches,
           \A c \in {base + \h0a, base + \h06, base + \h16, base + \h0e, base + \h1e} : Owner(c) = i
    PROVE  CodesAt(name, Shift6(base), i)
<1>1. base \in Byte
  BY DEF Byte
<1> DEFINE codes == << <<base + \h0a, 2, "NONE">>, <<base + \h0a, 2, "ACC">>,
               <<base + \h06, 5, "ZP">>,  <<base + \h16, 6, "ZPX">>,
               <<base + \h0e, 6, "ABS">>, <<base + \h1e, 7, "ABSX">> >>
<1>2. DOMAIN codes = 1 .. 6 /\ Len(codes) = 6
  OBVIOUS
<1>3. ASSUME NEW k \in 1 .. 6
      PROVE  /\ codes[k][1] \in Byte /\ Owner(codes[k][1]) = i
             /\ codes[k][3] \in Modes
             /\ codes[k][3] = "REL" <=> name \in Branches
             /\ codes[k][3] = "ACC" => k = 2 /\ codes[1][3] = "NONE" /\ codes[1][1] = codes[2][1]
  BY <1>1 DEF Byte, Modes, OperandModes
<1>4. ASSUME NEW k \in 1 .. 6, NEW l \in 1 .. 6, k < l
      PROVE  /\ codes[k][3] # codes[l][3]
             /\ codes[k][1] = codes[l][1] => codes[k][3] = "NONE" /\ codes[l][3] = "ACC"
             /\ <<codes[k][3], codes[l][3]>> \notin Shorter
  BY <1>1, <1>4 DEF Byte, Shorter
<1> HIDE DEF codes
<1>5. CodesAt(name, codes, i)
  BY <1>2, <1>3, <1>4 DEF CodesAt
<1> QED BY <1>1, <1>5, Shift6Is DEF codes

LEMMA ImpliedAt ==
    ASSUME NEW name, NEW does, NEW time, NEW i, NEW code \in Byte,
           Place(name) = i, Owner(code) = i, name \notin Branches
    PROVE  EntryAt(Implied(name, code, time, does), i)
<1>1. CodesAt(name, <<<<code, time, "NONE">>>>, i)
  BY DEF CodesAt, Shorter, Modes
<1> QED BY <1>1, EntryIs DEF Implied

-----------------------------------------------------------------------------
(* The groups of the table *)

LEMMA LoadPlaced == Placed(LoadRows, 2, 4)
<1>1. CodesAt("lda", << <<\ha9, 2, "IMM">>, <<\ha5, 2, "ZP">>, <<\hb5, 4, "ZPX">>, <<\had,
           4, "ABS">>, <<\hbd, 4, "ABSX">>, <<\hb9, 4, "ABSY">>,
           <<\ha1, 6, "INDX">>, <<\hb1, 5, "INDY">> >>, 2)
  <2>1. \A c \in {\ha9, \ha5, \hb5, \had, \hbd, \hb9, \ha1, \hb1} : Owner(c) = 2
    BY DEF Owner
  <2>2. Place("lda") = 2 /\ "lda" \notin Branches
    BY DEF Place, Branches
  <2> QED BY <2>1, <2>2 DEF CodesAt, Shorter, Byte, Modes, OperandModes
<1>2. CodesAt("ldx", << <<\ha2, 2, "IMM">>, <<\ha6, 3, "ZP">>, <<\hb6, 4, "ZPY">>, <<\hae,
           4, "ABS">>, <<\hbe, 4, "ABSY">> >>, 3)
  <2>1. \A c \in {\ha2, \ha6, \hb6, \hae, \hbe} : Owner(c) = 3
    BY DEF Owner
  <2>2. Place("ldx") = 3 /\ "ldx" \notin Branches
    BY DEF Place, Branches
  <2> QED BY <2>1, <2>2 DEF CodesAt, Shorter, Byte, Modes, OperandModes
<1>3. CodesAt("ldy", << <<\ha0, 2, "IMM">>, <<\ha4, 3, "ZP">>, <<\hb4, 4, "ZPX">>, <<\hac,
           4, "ABS">>, <<\hbc, 4, "ABSX">> >>, 4)
  <2>1. \A c \in {\ha0, \ha4, \hb4, \hac, \hbc} : Owner(c) = 4
    BY DEF Owner
  <2>2. Place("ldy") = 4 /\ "ldy" \notin Branches
    BY DEF Place, Branches
  <2> QED BY <2>1, <2>2 DEF CodesAt, Shorter, Byte, Modes, OperandModes
<1>4. EntryAt(LoadRows[1], 2) /\ EntryAt(LoadRows[2], 3) /\ EntryAt(LoadRows[3], 4)
  BY <1>1, <1>2, <1>3, EntryIs DEF LoadRows
<1>5. LoadRows \in Seq({LoadRows[i] : i \in DOMAIN LoadRows}) /\ Len(LoadRows) = 3
  BY DEF LoadRows
<1> QED BY <1>4, <1>5 DEF Placed

LEMMA StorePlaced == Placed(StoreRows, 5, 7)
<1>1. CodesAt("sta", << <<\h85, 3, "ZP">>, <<\h95, 4, "ZPX">>, <<\h8d, 4, "ABS">>, <<\h9d,
           4, "ABSX">>, <<\h99, 4, "ABSY">>, <<\h81, 6, "INDX">>,
           <<\h91, 5, "INDY">> >>, 5)
  <2>1. \A c \in {\h85, \h95, \h8d, \h9d, \h99, \h81, \h91} : Owner(c) = 5
    BY DEF Owner
  <2>2. Place("sta") = 5 /\ "sta" \notin Branches
    BY DEF Place, Branches
  <2> QED BY <2>1, <2>2 DEF CodesAt, Shorter, Byte, Modes, OperandModes
<1>2. CodesAt("stx", << <<\h86, 3, "ZP">>, <<\h96, 4, "ZPY">>, <<\h8e, 4, "ABS">> >>, 6)
  <2>1. \A c \in {\h86, \h96, \h8e} : Owner(c) = 6
    BY DEF Owner
  <2>2. Place("stx") = 6 /\ "stx" \notin Branches
    BY DEF Place, Branches
  <2> QED BY <2>1, <2>2 DEF CodesAt, Shorter, Byte, Modes, OperandModes
<1>3. CodesAt("sty", << <<\h84, 3, "ZP">>, <<\h94, 4, "ZPX">>, <<\h8c, 4, "ABS">> >>, 7)
  <2>1. \A c \in {\h84, \h94, \h8c} : Owner(c) = 7
    BY DEF Owner
  <2>2. Place("sty") = 7 /\ "sty" \notin Branches
    BY DEF Place, Branches
  <2> QED BY <2>1, <2>2 DEF CodesAt, Shorter, Byte, Modes, OperandModes
<1>4. EntryAt(StoreRows[1], 5) /\ EntryAt(StoreRows[2], 6) /\ EntryAt(StoreRows[3], 7)
  BY <1>1, <1>2, <1>3, EntryIs DEF StoreRows
<1>5. StoreRows \in Seq({StoreRows[i] : i \in DOMAIN StoreRows}) /\ Len(StoreRows) = 3
  BY DEF StoreRows
<1> QED BY <1>4, <1>5 DEF Placed

LEMMA IncPlaced == Placed(IncRows, 8, 9)
<1>1. CodesAt("dec", Modify4(\hc0), 8)
  <2>1. \A c \in {\hc6, \hd6, \hce, \hde} : Owner(c) = 8
    BY DEF Owner
  <2>2. Place("dec") = 8 /\ "dec" \notin Branches
    BY DEF Place, Branches
  <2> QED BY <2>1, <2>2, Modify4At
<1>2. CodesAt("inc", Modify4(\he0), 9)
  <2>1. \A c \in {\he6, \hf6, \hee, \hfe} : Owner(c) = 9
    BY DEF Owner
  <2>2. Place("inc") = 9 /\ "inc" \notin Branches
    BY DEF Place, Branches
  <2> QED BY <2>1, <2>2, Modify4At
<1>3. EntryAt(IncRows[1], 8) /\ EntryAt(IncRows[2], 9)
  BY <1>1, <1>2, EntryIs DEF IncRows
<1>4. IncRows \in Seq({IncRows[i] : i \in DOMAIN IncRows}) /\ Len(IncRows) = 2
  BY DEF IncRows
<1> QED BY <1>3, <1>4 DEF Placed

LEMMA RegisterPlaced == Placed(RegisterRows, 10, 19)
<1>1. /\ Owner(\haa) = 10 /\ Owner(\h8a) = 11 /\ Owner(\ha8) = 12 /\ Owner(\h98) = 13
      /\ Owner(\h9a) = 14 /\ Owner(\hba) = 15 /\ Owner(\hca) = 16 /\ Owner(\he8) = 17
      /\ Owner(\h88) = 18 /\ Owner(\hc8) = 19
  BY DEF Owner
<1>2. /\ Place("tax") = 10 /\ Place("txa") = 11 /\ Place("tay") = 12 /\ Place("tya") = 13
      /\ Place("txs") = 14 /\ Place("tsx") = 15 /\ Place("dex") = 16 /\ Place("inx") = 17
      /\ Place("dey") = 18 /\ Place("iny") = 19
  BY DEF Place
<1>3. {"tax", "txa", "tay", "tya", "txs", "tsx", "dex", "inx", "dey", "iny"} \cap Branches
       = {}
  BY DEF Branches
<1>4. /\ EntryAt(RegisterRows[1], 10) /\ EntryAt(RegisterRows[2], 11)
      /\ EntryAt(RegisterRows[3], 12) /\ EntryAt(RegisterRows[4], 13)
      /\ EntryAt(RegisterRows[5], 14) /\ EntryAt(RegisterRows[6], 15)
      /\ EntryAt(RegisterRows[7], 16) /\ EntryAt(RegisterRows[8], 17)
      /\ EntryAt(RegisterRows[9], 18) /\ EntryAt(RegisterRows[10], 19)
  BY <1>1, <1>2, <1>3, ImpliedAt DEF RegisterRows, Byte
<1>5. RegisterRows \in Seq({RegisterRows[i] : i \in DOMAIN RegisterRows}) /\ Len(RegisterRows) = 10
  BY DEF RegisterRows
<1> QED BY <1>4, <1>5 DEF Placed

LEMMA StackPlaced == Placed(StackRows, 20, 23)
<1>1. Owner(\h48) = 20 /\ Owner(\h68) = 21 /\ Owner(\h08) = 22 /\ Owner(\h28) = 23
  BY DEF Owner
<1>2. Place("pha") = 20 /\ Place("pla") = 21 /\ Place("php") = 22 /\ Place("plp") = 23
  BY DEF Place
<1>3. {"pha", "pla", "php", "plp"} \cap Branches = {}
  BY DEF Branches
<1>4. /\ EntryAt(StackRows[1], 20) /\ EntryAt(StackRows[2], 21) /\ EntryAt(StackRows[3], 22)
      /\ EntryAt(StackRows[4], 23)
  BY <1>1, <1>2, <1>3, ImpliedAt DEF StackRows, Byte
<1>5. StackRows \in Seq({StackRows[i] : i \in DOMAIN StackRows}) /\ Len(StackRows) = 4
  BY DEF StackRows
<1> QED BY <1>4, <1>5 DEF Placed

LEMMA BranchPlaced == Placed(BranchRows, 24, 31)
<1>1. /\ Owner(\h90) = 24 /\ Owner(\hb0) = 25 /\ Owner(\hd0) = 26 /\ Owner(\hf0) = 27
      /\ Owner(\h10) = 28 /\ Owner(\h30) = 29 /\ Owner(\h50) = 30 /\ Owner(\h70) = 31
  BY DEF Owner
<1>2. /\ Place("bcc") = 24 /\ Place("bcs") = 25 /\ Place("bne") = 26 /\ Place("beq") = 27
      /\ Place("bpl") = 28 /\ Place("bmi") = 29 /\ Place("bvc") = 30 /\ Place("bvs") = 31
  BY DEF Place
<1>3. /\ "bcc" \in Branches /\ "bcs" \in Branches /\ "bne" \in Branches /\ "beq" \in Branches
      /\ "bpl" \in Branches /\ "bmi" \in Branches /\ "bvc" \in Branches /\ "bvs" \in Branches
  BY DEF Branches
<1>4. CodesAt("bcc", <<<<\h90, 2, "REL">>>>, 24)
  BY <1>1, <1>2, <1>3 DEF CodesAt, Shorter, Byte, Modes
<1>5. CodesAt("bcs", <<<<\hb0, 2, "REL">>>>, 25)
  BY <1>1, <1>2, <1>3 DEF CodesAt, Shorter, Byte, Modes
<1>6. CodesAt("bne", <<<<\hd0, 2, "REL">>>>, 26)
  BY <1>1, <1>2, <1>3 DEF CodesAt, Shorter, Byte, Modes
<1>7. CodesAt("beq", <<<<\hf0, 2, "REL">>>>, 27)
  BY <1>1, <1>2, <1>3 DEF CodesAt, Shorter, Byte, Modes
<1>8. CodesAt("bpl", <<<<\h10, 2, "REL">>>>, 28)
  BY <1>1, <1>2, <1>3 DEF CodesAt, Shorter, Byte, Modes
<1>9. CodesAt("bmi", <<<<\h30, 2, "REL">>>>, 29)
  BY <1>1, <1>2, <1>3 DEF CodesAt, Shorter, Byte, Modes
<1>10. CodesAt("bvc", <<<<\h50, 2, "REL">>>>, 30)
  BY <1>1, <1>2, <1>3 DEF CodesAt, Shorter, Byte, Modes
<1>11. CodesAt("bvs", <<<<\h70, 2, "REL">>>>, 31)
  BY <1>1, <1>2, <1>3 DEF CodesAt, Shorter, Byte, Modes
<1>12. /\ EntryAt(BranchRows[1], 24) /\ EntryAt(BranchRows[2], 25)
      /\ EntryAt(BranchRows[3], 26) /\ EntryAt(BranchRows[4], 27)
      /\ EntryAt(BranchRows[5], 28) /\ EntryAt(BranchRows[6], 29)
      /\ EntryAt(BranchRows[7], 30) /\ EntryAt(BranchRows[8], 31)
  BY <1>4, <1>5, <1>6, <1>7, <1>8, <1>9, <1>10, <1>11, EntryIs DEF BranchRows
<1>13. BranchRows \in Seq({BranchRows[i] : i \in DOMAIN BranchRows}) /\ Len(BranchRows) = 8
  BY DEF BranchRows
<1> QED BY <1>12, <1>13 DEF Placed

LEMMA ArithmeticPlaced == \A bcd \in BOOLEAN : Placed(ArithmeticRows(bcd), 32, 36)
<1> TAKE bcd \in BOOLEAN
<1>1. CodesAt("adc", Operand8(\h60), 32)
  <2>1. \A c \in {\h69, \h65, \h75, \h6d, \h7d, \h79, \h61, \h71} : Owner(c) = 32
    BY DEF Owner
  <2>2. Place("adc") = 32 /\ "adc" \notin Branches
    BY DEF Place, Branches
  <2> QED BY <2>1, <2>2, Operand8At
<1>2. CodesAt("sbc", Operand8(\he0), 33)
  <2>1. \A c \in {\he9, \he5, \hf5, \hed, \hfd, \hf9, \he1, \hf1} : Owner(c) = 33
    BY DEF Owner
  <2>2. Place("sbc") = 33 /\ "sbc" \notin Branches
    BY DEF Place, Branches
  <2> QED BY <2>1, <2>2, Operand8At
<1>3. CodesAt("cmp", Operand8(\hc0), 34)
  <2>1. \A c \in {\hc9, \hc5, \hd5, \hcd, \hdd, \hd9, \hc1, \hd1} : Owner(c) = 34
    BY DEF Owner
  <2>2. Place("cmp") = 34 /\ "cmp" \notin Branches
    BY DEF Place, Branches
  <2> QED BY <2>1, <2>2, Operand8At
<1>4. CodesAt("cpx", << <<\he0, 2, "IMM">>, <<\he4, 3, "ZP">>, <<\hec, 4, "ABS">> >>, 35)
  <2>1. \A c \in {\he0, \he4, \hec} : Owner(c) = 35
    BY DEF Owner
  <2>2. Place("cpx") = 35 /\ "cpx" \notin Branches
    BY DEF Place, Branches
  <2> QED BY <2>1, <2>2 DEF CodesAt, Shorter, Byte, Modes, OperandModes
<1>5. CodesAt("cpy", << <<\hc0, 2, "IMM">>, <<\hc4, 3, "ZP">>, <<\hcc, 4, "ABS">> >>, 36)
  <2>1. \A c \in {\hc0, \hc4, \hcc} : Owner(c) = 36
    BY DEF Owner
  <2>2. Place("cpy") = 36 /\ "cpy" \notin Branches
    BY DEF Place, Branches
  <2> QED BY <2>1, <2>2 DEF CodesAt, Shorter, Byte, Modes, OperandModes
<1>6. /\ EntryAt(ArithmeticRows(bcd)[1], 32) /\ EntryAt(ArithmeticRows(bcd)[2], 33)
      /\ EntryAt(ArithmeticRows(bcd)[3], 34) /\ EntryAt(ArithmeticRows(bcd)[4], 35)
      /\ EntryAt(ArithmeticRows(bcd)[5], 36)
  BY <1>1, <1>2, <1>3, <1>4, <1>5, EntryIs DEF ArithmeticRows
<1>7. ArithmeticRows(bcd) \in Seq({ArithmeticRows(bcd)[i] : i \in DOMAIN ArithmeticRows(bcd)}) /\ Len(ArithmeticRows(bcd)) = 5
  BY DEF ArithmeticRows
<1> QED BY <1>6, <1>7 DEF Placed

LEMMA LogicPlaced == Placed(LogicRows, 37, 39)
<1>1. CodesAt("and", Operand8(\h20), 37)
  <2>1. \A c \in {\h29, \h25, \h35, \h2d, \h3d, \h39, \h21, \h31} : Owner(c) = 37
    BY DEF Owner
  <2>2. Place("and") = 37 /\ "and" \notin Branches
    BY DEF Place, Branches
  <2> QED BY <2>1, <2>2, Operand8At
<1>2. CodesAt("eor", Operand8(\h40), 38)
  <2>1. \A c \in {\h49, \h45, \h55, \h4d, \h5d, \h59, \h41, \h51} : Owner(c) = 38
    BY DEF Owner
  <2>2. Place("eor") = 38 /\ "eor" \notin Branches
    BY DEF Place, Branches
  <2> QED BY <2>1, <2>2, Operand8At
<1>3. CodesAt("ora", Operand8(\h00), 39)
  <2>1. \A c \in {\h09, \h05, \h15, \h0d, \h1d, \h19, \h01, \h11} : Owner(c) = 39
    BY DEF Owner
  <2>2. Place("ora") = 39 /\ "ora" \notin Branches
    BY DEF Place, Branches
  <2> QED BY <2>1, <2>2, Operand8At
<1>4. EntryAt(LogicRows[1], 37) /\ EntryAt(LogicRows[2], 38) /\ EntryAt(LogicRows[3], 39)
  BY <1>1, <1>2, <1>3, EntryIs DEF LogicRows
<1>5. LogicRows \in Seq({LogicRows[i] : i \in DOMAIN LogicRows}) /\ Len(LogicRows) = 3
  BY DEF LogicRows
<1> QED BY <1>4, <1>5 DEF Placed

LEMMA FlagPlaced == Placed(FlagRows, 40, 46)
<1>1. /\ Owner(\h38) = 40 /\ Owner(\h18) = 41 /\ Owner(\h58) = 42 /\ Owner(\h78) = 43
      /\ Owner(\hf8) = 44 /\ Owner(\hd8) = 45 /\ Owner(\hb8) = 46
  BY DEF Owner
<1>2. /\ Place("sec") = 40 /\ Place("clc") = 41 /\ Place("sei") = 42 /\ Place("cli") = 43
      /\ Place("sed") = 44 /\ Place("cld") = 45 /\ Place("clv") = 46
  BY DEF Place
<1>3. {"sec", "clc", "sei", "cli", "sed", "cld", "clv"} \cap Branches = {}
  BY DEF Branches
<1>4. /\ EntryAt(FlagRows[1], 40) /\ EntryAt(FlagRows[2], 41) /\ EntryAt(FlagRows[3], 42)
      /\ EntryAt(FlagRows[4], 43) /\ EntryAt(FlagRows[5], 44) /\ EntryAt(FlagRows[6], 45)
      /\ EntryAt(FlagRows[7], 46)
  BY <1>1, <1>2, <1>3, ImpliedAt DEF FlagRows, Byte
<1>5. FlagRows \in Seq({FlagRows[i] : i \in DOMAIN FlagRows}) /\ Len(FlagRows) = 7
  BY DEF FlagRows
<1> QED BY <1>4, <1>5 DEF Placed

LEMMA ShiftPlaced == Placed(ShiftRows, 47, 50)
<1>1. CodesAt("lsr", Shift6(\h40), 47)
  <2>1. \A c \in {\h4a, \h46, \h56, \h4e, \h5e} : Owner(c) = 47
    BY DEF Owner
  <2>2. Place("lsr") = 47 /\ "lsr" \notin Branches
    BY DEF Place, Branches
  <2> QED BY <2>1, <2>2, Shift6At
<1>2. CodesAt("asl", Shift6(\h00), 48)
  <2>1. \A c \in {\h0a, \h06, \h16, \h0e, \h1e} : Owner(c) = 48
    BY DEF Owner
  <2>2. Place("asl") = 48 /\ "asl" \notin Branches
    BY DEF Place, Branches
  <2> QED BY <2>1, <2>2, Shift6At
<1>3. CodesAt("ror", Shift6(\h60), 49)
  <2>1. \A c \in {\h6a, \h66, \h76, \h6e, \h7e} : Owner(c) = 49
    BY DEF Owner
  <2>2. Place("ror") = 49 /\ "ror" \notin Branches
    BY DEF Place, Branches
  <2> QED BY <2>1, <2>2, Shift6At
<1>4. CodesAt("rol", Shift6(\h20), 50)
  <2>1. \A c \in {\h2a, \h26, \h36, \h2e, \h3e} : Owner(c) = 50
    BY DEF Owner
  <2>2. Place("rol") = 50 /\ "rol" \notin Branches
    BY DEF Place, Branches
  <2> QED BY <2>1, <2>2, Shift6At
<1>5. /\ EntryAt(ShiftRows[1], 47) /\ EntryAt(ShiftRows[2], 48) /\ EntryAt(ShiftRows[3], 49)
      /\ EntryAt(ShiftRows[4], 50)
  BY <1>1, <1>2, <1>3, <1>4, EntryIs DEF ShiftRows
<1>6. ShiftRows \in Seq({ShiftRows[i] : i \in DOMAIN ShiftRows}) /\ Len(ShiftRows) = 4
  BY DEF ShiftRows
<1> QED BY <1>5, <1>6 DEF Placed

LEMMA BitPlaced == Placed(BitRows, 51, 51)
<1>1. CodesAt("bit", << <<\h24, 3, "ZP">>, <<\h2c, 4, "ABS">> >>, 51)
  <2>1. \A c \in {\h24, \h2c} : Owner(c) = 51
    BY DEF Owner
  <2>2. Place("bit") = 51 /\ "bit" \notin Branches
    BY DEF Place, Branches
  <2> QED BY <2>1, <2>2 DEF CodesAt, Shorter, Byte, Modes, OperandModes
<1>2. EntryAt(BitRows[1], 51)
  BY <1>1, EntryIs DEF BitRows
<1>3. BitRows \in Seq({BitRows[i] : i \in DOMAIN BitRows}) /\ Len(BitRows) = 1
  BY DEF BitRows
<1> QED BY <1>2, <1>3 DEF Placed

LEMMA ControlPlaced == Placed(ControlRows, 52, 56)
<1>1. Owner(\h40) = 52 /\ Owner(\h00) = 53 /\ Owner(\h60) = 54
  BY DEF Owner
<1>2. Place("rti") = 52 /\ Place("brk") = 53 /\ Place("rts") = 54
  BY DEF Place
<1>3. {"rti", "brk", "rts"} \cap Branches = {}
  BY DEF Branches
<1>4. CodesAt("jmp", << <<\h4c, 3, "ABS">>, <<\h6c, 5, "IND">> >>, 55)
  <2>1. \A c \in {\h4c, \h6c} : Owner(c) = 55
    BY DEF Owner
  <2>2. Place("jmp") = 55 /\ "jmp" \notin Branches
    BY DEF Place, Branches
  <2> QED BY <2>1, <2>2 DEF CodesAt, Shorter, Byte, Modes, OperandModes
<1>5. CodesAt("jsr", << <<\h20, 6, "ABS">> >>, 56)
  <2>1. \A c \in {\h20} : Owner(c) = 56
    BY DEF Owner
  <2>2. Place("jsr") = 56 /\ "jsr" \notin Branches
    BY DEF Place, Branches
  <2> QED BY <2>1, <2>2 DEF CodesAt, Shorter, Byte, Modes, OperandModes
<1>6. EntryAt(ControlRows[1], 52) /\ EntryAt(ControlRows[2], 53) /\ EntryAt(ControlRows[3], 54)
  BY <1>1, <1>2, <1>3, ImpliedAt DEF ControlRows, Byte
<1>7. EntryAt(ControlRows[4], 55) /\ EntryAt(ControlRows[5], 56)
  BY <1>4, <1>5, EntryIs DEF ControlRows
<1>8. ControlRows \in Seq({ControlRows[i] : i \in DOMAIN ControlRows}) /\ Len(ControlRows) = 5
  BY DEF ControlRows
<1> QED BY <1>6, <1>7, <1>8 DEF Placed

LEMMA NopPlaced == Placed(<< Implied("nop", \hea, 2, [fn |-> "Nop"]) >>, 1, 1)
<1>1. Owner(\hea) = 1 /\ Place("nop") = 1 /\ "nop" \notin Branches
  BY DEF Owner, Place, Branches
<1>2. EntryAt(Implied("nop", \hea, 2, [fn |-> "Nop"]), 1)
  BY <1>1, ImpliedAt DEF Byte
<1> QED BY <1>2 DEF Placed

LEMMA Joined ==
    ASSUME NEW s, NEW t, NEW a \in Nat, NEW b \in Nat, NEW c \in Nat, a <= b, b < c,
           Placed(s, a, b), Placed(t, b + 1, c)
    PROVE  Placed(s \o t, a, c)
<1> DEFINE S == {s[i] : i \in DOMAIN s} \cup {t[i] : i \in DOMAIN t}
           st == s \o t
<1>1. s \in Seq(S) /\ t \in Seq(S)
  BY DEF Placed
<1> HIDE DEF S
<1>3. /\ st \in Seq(S) /\ Len(st) = Len(s) + Len(t)
      /\ \A i \in 1 .. Len(s) + Len(t) : st[i] = IF i <= Len(s) THEN s[i] ELSE t[i - Len(s)]
  BY <1>1, ConcatProperties
<1> HIDE DEF st
<1>4. Len(s) = b - a + 1 /\ Len(t) = c - b
  BY DEF Placed
<1>5. ASSUME NEW i \in 1 .. Len(st) PROVE EntryAt(st[i], a - 1 + i)
  <2>1. CASE i <= Len(s)
    BY <1>3, <1>4, <2>1 DEF Placed
  <2>2. CASE i > Len(s)
    <3>1. st[i] = t[i - Len(s)] /\ i - Len(s) \in 1 .. Len(t)
      BY <1>3, <1>4, <2>2
    <3>2. EntryAt(t[i - Len(s)], b + 1 - 1 + (i - Len(s)))
      BY <3>1 DEF Placed
    <3>3. b + 1 - 1 + (i - Len(s)) = a - 1 + i
      BY <1>4
    <3> QED BY <3>1, <3>2, <3>3
  <2> QED BY <1>3, <1>4, <2>1, <2>2
<1>6. Len(st) = c - a + 1
  BY <1>3, <1>4
<1>7. st \in Seq({st[i] : i \in DOMAIN st})
  BY <1>3
<1> QED BY <1>5, <1>6, <1>7 DEF Placed, st

\* The whole table, put together as getInstructions does it.
LEMMA TablePlaced == ASSUME NEW bcd \in BOOLEAN PROVE Placed(getInstructions(bcd), 1, 56)
<1> DEFINE nop == << Implied("nop", \hea, 2, [fn |-> "Nop"]) >>
           arithmetic == ArithmeticRows(bcd)
<1>1. Placed(nop, 1, 1) /\ Placed(arithmetic, 32, 36)
  BY NopPlaced, ArithmeticPlaced
<1>2. getInstructions(bcd) =
         nop \o LoadRows \o StoreRows \o IncRows \o RegisterRows \o StackRows \o BranchRows
         \o arithmetic \o LogicRows \o FlagRows \o ShiftRows \o BitRows \o ControlRows
  BY DEF getInstructions
<1> HIDE DEF nop, arithmetic
<1>3. Placed(nop \o LoadRows, 1, 4)
  BY <1>1, LoadPlaced, Joined
<1>4. Placed(nop \o LoadRows \o StoreRows, 1, 7)
  BY <1>3, StorePlaced, Joined
<1>5. Placed(nop \o LoadRows \o StoreRows \o IncRows, 1, 9)
  BY <1>4, IncPlaced, Joined
<1>6. Placed(nop \o LoadRows \o StoreRows \o IncRows \o RegisterRows, 1, 19)
  BY <1>5, RegisterPlaced, Joined
<1> DEFINE s6 == nop \o LoadRows \o StoreRows \o IncRows \o RegisterRows
<1> HIDE DEF s6
<1>7. Placed(s6 \o StackRows, 1, 23)
  BY <1>6, StackPlaced, Joined DEF s6
<1>8. Placed(s6 \o StackRows \o BranchRows, 1, 31)
  BY <1>7, BranchPlaced, Joined
<1>9. Placed(s6 \o StackRows \o BranchRows \o arithmetic, 1, 36)
  BY <1>1, <1>8, Joined
<1> DEFINE s9 == s6 \o StackRows \o BranchRows \o arithmetic
<1> HIDE DEF s9
<1>10. Placed(s9 \o LogicRows, 1, 39)
  BY <1>9, LogicPlaced, Joined DEF s9
<1>11. Placed(s9 \o LogicRows \o FlagRows, 1, 46)
  BY <1>10, FlagPlaced, Joined
<1>12. Placed(s9 \o LogicRows \o FlagRows \o ShiftRows, 1, 50)
  BY <1>11, ShiftPlaced, Joined
<1>13. Placed(s9 \o LogicRows \o FlagRows \o ShiftRows \o BitRows, 1, 51)
  BY <1>12, BitPlaced, Joined
<1>14. Placed(s9 \o LogicRows \o FlagRows \o ShiftRows \o BitRows \o ControlRows, 1, 56)
  BY <1>13, ControlPlaced, Joined
<1> QED BY <1>2, <1>14 DEF s6, s9

-----------------------------------------------------------------------------
(* Searching the table *)

LEMMA TableEntry ==
    /\ DOMAIN Instructions = 1 .. 56 /\ Len(Instructions) = 56
    /\ \A i \in 1 .. 56 : EntryAt(Instructions[i], i)
<1>1. Placed(Instructions, 1, 56)
  BY TablePlaced DEF Instructions
<1>2. Len(Instructions) = 56 /\ DOMAIN Instructions = 1 .. 56
  BY <1>1 DEF Placed
<1>3. \A i \in 1 .. 56 : EntryAt(Instructions[i], 1 - 1 + i)
  BY <1>1, <1>2 DEF Placed
<1> QED BY <1>2, <1>3

LEMMA RowAlone ==
    ASSUME NEW x, NEW i, EntryAt(x, i), NEW k \in DOMAIN x.opcodes
    PROVE  /\ Place(x.name) = i
           /\ k \in Nat /\ 1 <= k
           /\ x.opcodes[k].code \in Byte /\ Owner(x.opcodes[k].code) = i
           /\ x.opcodes[k].op = x.opcodes[1].op
           /\ x.opcodes[k].mode \in Modes
           /\ x.opcodes[k].mode = "REL" <=> x.name \in Branches
           /\ x.opcodes[k].mode = "ACC" =>
                 k = 2 /\ x.opcodes[1].mode = "NONE" /\ x.opcodes[1].code = x.opcodes[2].code
BY DEF EntryAt

LEMMA RowPair ==
    ASSUME NEW x, NEW i, EntryAt(x, i),
           NEW k \in DOMAIN x.opcodes, NEW l \in DOMAIN x.opcodes, k < l
    PROVE  /\ x.opcodes[k].mode # x.opcodes[l].mode
           /\ <<x.opcodes[k].mode, x.opcodes[l].mode>> \notin Shorter
BY DEF EntryAt

LEMMA CodePair ==
    ASSUME NEW x, NEW i, EntryAt(x, i),
           NEW k \in DOMAIN x.opcodes, NEW l \in DOMAIN x.opcodes, k < l,
           x.opcodes[k].code = x.opcodes[l].code
    PROVE  x.opcodes[k].mode = "NONE" /\ x.opcodes[l].mode = "ACC"
BY DEF EntryAt

LEMMA RowsAre ==
    /\ \A r : r \in Rows <=> \E i \in 1 .. 56 :
                                \E k \in DOMAIN Instructions[i].opcodes : r = <<i, k>>
    /\ Rows \subseteq Nat \X Nat
<1>1. \A r : r \in Rows <=> \E i \in 1 .. 56 :
                               \E k \in DOMAIN Instructions[i].opcodes : r = <<i, k>>
  BY TableEntry DEF Rows
<1>2. \A i \in 1 .. 56 : DOMAIN Instructions[i].opcodes \subseteq Nat
  <2>1. ASSUME NEW i \in 1 .. 56 PROVE DOMAIN Instructions[i].opcodes \subseteq Nat
    BY TableEntry, RowAlone
  <2> QED BY <2>1
<1> QED BY <1>1, <1>2

\* A code belongs to one instruction, and only a mode NONE shares it, with
\* the mode ACC in the next row.
LEMMA CodeShared ==
    ASSUME NEW i \in 1 .. 56, NEW k \in DOMAIN Instructions[i].opcodes,
           NEW j \in 1 .. 56, NEW l \in DOMAIN Instructions[j].opcodes,
           Instructions[i].opcodes[k].code = Instructions[j].opcodes[l].code
    PROVE  /\ i = j
           /\ k < l => /\ Instructions[i].opcodes[k].mode = "NONE"
                       /\ Instructions[j].opcodes[l].mode = "ACC"
<1>1. EntryAt(Instructions[i], i) /\ EntryAt(Instructions[j], j)
  BY TableEntry
<1>2. i = j
  BY <1>1, RowAlone
<1>3. ASSUME k < l
      PROVE  /\ Instructions[i].opcodes[k].mode = "NONE"
             /\ Instructions[j].opcodes[l].mode = "ACC"
  BY <1>1, <1>2, <1>3, CodePair
<1> QED BY <1>2, <1>3

\* What the machine has in its jump table for the code of a row.
LEMMA JumpRow ==
    ASSUME NEW i \in 1 .. 56, NEW k \in DOMAIN Instructions[i].opcodes
    PROVE  LET row  == Instructions[i].opcodes[k]
               jump == JumpTables.normal[row.code]
           IN  /\ jump.op = row.op
               /\ jump = row \/ (row.mode = "NONE" /\ jump.mode = "ACC")
<1> DEFINE x == Instructions[i]
           c == x.opcodes[k].code
           CodesOf(ins) == {ins.opcodes[n].code : n \in DOMAIN ins.opcodes}
           Last(S) == CHOOSE n \in S : \A m \in S : m <= n
           Having == {j \in DOMAIN Instructions : c \in CodesOf(Instructions[j])}
           Places == {n \in DOMAIN x.opcodes : x.opcodes[n].code = c}
<1>1. c \in UNION {CodesOf(Instructions[j]) : j \in DOMAIN Instructions}
  <2>1. i \in DOMAIN Instructions /\ c \in CodesOf(Instructions[i])
    BY TableEntry
  <2> QED BY <2>1
<1>2. EntryAt(x, i)
  BY TableEntry
<1>3. Having = {i}
  <2>1. i \in Having
    BY TableEntry
  <2>2. ASSUME NEW j \in Having PROVE j = i
    <3>1. j \in 1 .. 56
      BY TableEntry
    <3>2. PICK n \in DOMAIN Instructions[j].opcodes : Instructions[j].opcodes[n].code = c
      OBVIOUS
    <3>3. EntryAt(Instructions[j], j)
      BY <3>1, TableEntry
    <3> QED BY <1>2, <3>2, <3>3, RowAlone
  <2> QED BY <2>1, <2>2
<1>4. Last(Having) = i
  <2>1. i <= i
    BY TableEntry
  <2> QED BY <1>3, <2>1
<1>5. JumpTables.normal[c] = x.opcodes[Last(Places)]
  <2> DEFINE Table == jumpTableOf(Instructions)
  <2>1. Table[c] = Instructions[Last(Having)].opcodes[Last({n \in DOMAIN Instructions[Last(Having)].opcodes :
                       Instructions[Last(Having)].opcodes[n].code = c})]
    BY <1>1 DEF jumpTableOf
  <2>2. JumpTables.normal = Table
    BY DEF JumpTables, Instructions
  <2> HIDE DEF Having, Table
  <2> QED BY <1>4, <2>1, <2>2
<1> HIDE DEF x
<1>6. ASSUME NEW n \in DOMAIN x.opcodes
      PROVE  /\ n \in Nat /\ 1 <= n
             /\ x.opcodes[n].mode = "ACC" => n = 2
             /\ x.opcodes[n].op = x.opcodes[1].op
  BY <1>2, RowAlone
<1>7. ASSUME NEW n \in Places, NEW m \in Places, n < m
      PROVE  x.opcodes[n].mode = "NONE" /\ x.opcodes[m].mode = "ACC" /\ m = 2 /\ n = 1
  <2>1. x.opcodes[n].mode = "NONE" /\ x.opcodes[m].mode = "ACC"
    BY <1>2, <1>7, CodePair
  <2> QED BY <1>6, <1>7, <2>1
<1>8. k \in Places
  BY DEF x
<1>9. Places \subseteq Nat
  BY <1>6
<1>10. \E n \in Places : \A m \in Places : m <= n
  <2> HIDE DEF Places
  <2>1. CASE \E n \in Places, m \in Places : n < m
    <3>1. PICK n \in Places, m \in Places : n < m
      BY <2>1
    <3>2. n = 1 /\ m = 2
      BY <1>7, <3>1
    <3>3. ASSUME NEW l \in Places PROVE l <= m
      BY <1>7, <1>9, <3>2, <3>3
    <3> QED BY <3>3
  <2>2. CASE ~ \E n \in Places, m \in Places : n < m
    <3>1. \A m \in Places : m <= k
      BY <1>8, <1>9, <2>2
    <3> QED BY <1>8, <3>1
  <2> QED BY <2>1, <2>2
<1> DEFINE n == Last(Places)
<1>11. n \in Places /\ \A m \in Places : m <= n
  <2> HIDE DEF Places
  <2> QED BY <1>10
<1> HIDE DEF n
<1>12. k = n \/ k < n
  BY <1>8, <1>9, <1>11
<1>13. k < n => x.opcodes[k].mode = "NONE" /\ x.opcodes[n].mode = "ACC"
  BY <1>7, <1>8, <1>11
<1>14. x.opcodes[n].op = x.opcodes[k].op
  BY <1>6, <1>8, <1>11
<1>15. JumpTables.normal[x.opcodes[k].code] = x.opcodes[n]
  BY <1>5 DEF n
<1> QED BY <1>12, <1>13, <1>14, <1>15 DEF x

\* What a row makes of an operand.
Encoded(row, a, pc) ==
    LET v == CASE row.mode = "NONE" -> 0
               [] row.mode = "REL"  -> Distance(a.val, pc)
               [] OTHER             -> a.val
    IN  SubSeq(<<row.code, lo(v), lo(hi(v))>>, 1, opSize(row.mode))

\* The rows of an instruction that take an operand.
Taking(x, a) ==
    {k \in DOMAIN x.opcodes :
        x.opcodes[k].mode \in Accepting(IF a = NoArg THEN "NONE" ELSE parse(a))}

\* The row a line is assembled by.
LEMMA LineChosen ==
    ASSUME NEW i \in 1 .. 56, NEW a, NEW pc
    PROVE  LET x == Instructions[i]
           IN  IF Taking(x, a) = {} THEN assembleLine(x.name, a, pc) = <<>>
               ELSE \E k \in Taking(x, a) :
                       /\ \A l \in Taking(x, a) : ~(l < k)
                       /\ assembleLine(x.name, a, pc) = Encoded(x.opcodes[k], a, pc)
<1> DEFINE x == Instructions[i]
           m == IF a = NoArg THEN "NONE" ELSE parse(a)
           fits == {r \in Rows : Instructions[r[1]].name = x.name /\ RowAt(r).mode \in Accepting(m)}
<1>1. ASSUME NEW j \in 1 .. 56, Instructions[j].name = x.name PROVE j = i
  <2>1. EntryAt(Instructions[j], j) /\ EntryAt(x, i)
    BY TableEntry
  <2> QED BY <1>1, <2>1 DEF EntryAt
<1>2. ASSUME NEW r
      PROVE  r \in fits <=> \E k \in Taking(x, a) : r = <<i, k>>
  <2>1. ASSUME r \in fits PROVE \E k \in Taking(x, a) : r = <<i, k>>
    <3>1. PICK j \in 1 .. 56 : \E k \in DOMAIN Instructions[j].opcodes : r = <<j, k>>
      BY <2>1, RowsAre
    <3>2. PICK k \in DOMAIN Instructions[j].opcodes : r = <<j, k>>
      BY <3>1
    <3>3. Instructions[j].name = x.name /\ Instructions[j].opcodes[k].mode \in Accepting(m)
      BY <2>1, <3>2 DEF RowAt
    <3>4. j = i
      BY <1>1, <3>3
    <3> QED BY <3>2, <3>3, <3>4 DEF Taking
  <2>2. (\E k \in Taking(x, a) : r = <<i, k>>) => r \in fits
    BY RowsAre DEF RowAt, Taking
  <2> QED BY <2>1, <2>2
<1>3. assembleLine(x.name, a, pc) = IF fits = {} THEN <<>> ELSE Encoded(RowAt(FirstOf(fits)), a, pc)
  BY DEF assembleLine, Encoded
<1>4. fits \in SUBSET (Nat \X Nat)
  BY RowsAre
<1> HIDE DEF fits, x
<1>5. CASE Taking(x, a) = {}
  <2>1. fits = {}
    BY <1>2, <1>5
  <2> QED BY <1>3, <1>5, <2>1 DEF x
<1>6. CASE Taking(x, a) # {}
  <2>1. fits # {}
    BY <1>2, <1>6
  <2>2. FirstOf(fits) \in fits /\ \A r \in fits : ~Before(r, FirstOf(fits))
    BY <1>4, <2>1, FirstExists
  <2>3. PICK k \in Taking(x, a) : FirstOf(fits) = <<i, k>>
    BY <1>2, <2>2
  <2>4. ASSUME NEW l \in Taking(x, a) PROVE ~(l < k)
    <3>1. <<i, l>> \in fits
      BY <1>2
    <3>2. ~Before(<<i, l>>, <<i, k>>)
      BY <2>2, <2>3, <3>1
    <3> QED BY <3>2 DEF Before
  <2>5. assembleLine(x.name, a, pc) = Encoded(x.opcodes[k], a, pc)
    BY <1>3, <2>1, <2>3 DEF RowAt, x
  <2> QED BY <1>6, <2>4, <2>5 DEF x
<1> QED BY <1>5, <1>6

\* A line assembles to bytes.
LEMMA BytesOf ==
    ASSUME NEW c \in Byte, NEW v \in Int, NEW n \in {1, 2, 3}
    PROVE  SubSeq(<<c, lo(v), lo(hi(v))>>, 1, n) \in Seq(Byte)
<1> DEFINE t == <<c, lo(v), lo(hi(v))>>
<1>1. lo(v) \in Byte /\ lo(hi(v)) \in Byte
  BY DEF lo, hi, Byte
<1>2. t \in Seq(Byte) /\ Len(t) = 3
  BY <1>1
<1> HIDE DEF t
<1>3. \A i \in 1 .. n : t[i] \in Byte
  BY <1>2
<1> QED BY <1>3, SubSeqProperties DEF t

LEMMA BytesOfLine ==
    ASSUME NEW name, NEW a, NEW pc \in Int, a = NoArg \/ a.val \in Int
    PROVE  assembleLine(name, a, pc) \in Seq(Byte)
<1> DEFINE m == IF a = NoArg THEN "NONE" ELSE parse(a)
           fits == {r \in Rows : Instructions[r[1]].name = name /\ RowAt(r).mode \in Accepting(m)}
           row == RowAt(FirstOf(fits))
           v == CASE row.mode = "NONE" -> 0
                  [] row.mode = "REL"  -> Distance(a.val, pc)
                  [] OTHER             -> a.val
           t == SubSeq(<<row.code, lo(v), lo(hi(v))>>, 1, opSize(row.mode))
<1>1. assembleLine(name, a, pc) = IF fits = {} THEN <<>> ELSE t
  BY DEF assembleLine
<1>2. ASSUME fits # {} PROVE t \in Seq(Byte)
  <2>1. fits \in SUBSET (Nat \X Nat)
    BY RowsAre
  <2>2. FirstOf(fits) \in fits
    <3> HIDE DEF fits
    <3> QED BY <1>2, <2>1, FirstExists
  <2>3. PICK i \in 1 .. 56 : \E k \in DOMAIN Instructions[i].opcodes : FirstOf(fits) = <<i, k>>
    BY <2>2, RowsAre
  <2>4. PICK k \in DOMAIN Instructions[i].opcodes : FirstOf(fits) = <<i, k>>
    BY <2>3
  <2>5. row = Instructions[i].opcodes[k]
    <3>1. row = RowAt(<<i, k>>)
      BY <2>4
    <3> HIDE DEF row
    <3> QED BY <3>1 DEF RowAt
  <2>6. EntryAt(Instructions[i], i)
    BY TableEntry
  <2>7. row.code \in Byte /\ row.mode \in Modes
    BY <2>5, <2>6, RowAlone
  <2>8. row.mode \in Accepting(m)
    BY <2>2
  <2>9. a = NoArg => row.mode = "NONE"
    BY <2>8 DEF Accepting
  <2> HIDE DEF row
  <2>10. v \in Int
    BY <2>9 DEF Distance
  <2>11. opSize(row.mode) \in {1, 2, 3}
    BY DEF opSize
  <2> HIDE DEF v
  <2> QED BY <2>7, <2>10, <2>11, BytesOf
<1>3. <<>> \in Seq(Byte)
  OBVIOUS
<1> QED BY <1>1, <1>2, <1>3

-----------------------------------------------------------------------------
(* Notations *)

\* The notation of a mode: whether it has a "#", its index behind the value,
\* whether there is a ")", and whether an index stands behind that.
LEMMA NotationIs ==
    ASSUME NEW v \in Int
    PROVE  /\ modeTemplate("IMM", v)  = [hash |-> TRUE, val |-> v, index |-> "", close |-> FALSE, outer |-> FALSE, clean |-> v >= 0]
           /\ modeTemplate("ZP", v)   = [hash |-> FALSE, val |-> v, index |-> "", close |-> FALSE, outer |-> FALSE, clean |-> v >= 0]
           /\ modeTemplate("ABS", v)  = [hash |-> FALSE, val |-> v, index |-> "", close |-> FALSE, outer |-> FALSE, clean |-> v >= 0]
           /\ modeTemplate("REL", v)  = [hash |-> FALSE, val |-> v, index |-> "", close |-> FALSE, outer |-> FALSE, clean |-> v >= 0]
           /\ modeTemplate("ZPX", v)  = [hash |-> FALSE, val |-> v, index |-> "x", close |-> FALSE, outer |-> FALSE, clean |-> v >= 0]
           /\ modeTemplate("ABSX", v) = [hash |-> FALSE, val |-> v, index |-> "x", close |-> FALSE, outer |-> FALSE, clean |-> v >= 0]
           /\ modeTemplate("ZPY", v)  = [hash |-> FALSE, val |-> v, index |-> "y", close |-> FALSE, outer |-> FALSE, clean |-> v >= 0]
           /\ modeTemplate("ABSY", v) = [hash |-> FALSE, val |-> v, index |-> "y", close |-> FALSE, outer |-> FALSE, clean |-> v >= 0]
           /\ modeTemplate("INDX", v) = [hash |-> FALSE, val |-> v, index |-> "x", close |-> TRUE, outer |-> FALSE, clean |-> v >= 0]
           /\ modeTemplate("INDY", v) = [hash |-> FALSE, val |-> v, index |-> "", close |-> TRUE, outer |-> TRUE, clean |-> v >= 0]
           /\ modeTemplate("IND", v)  = [hash |-> FALSE, val |-> v, index |-> "", close |-> TRUE, outer |-> FALSE, clean |-> v >= 0]
<1>1. modeTemplate("IMM", v) = [hash |-> TRUE, val |-> v, index |-> "", close |-> FALSE, outer |-> FALSE, clean |-> v >= 0]
  <2>1. /\ ("IMM" = "IMM") = TRUE /\ ("IMM" = "INDY") = FALSE
        /\ ("IMM" \in {"INDX", "INDY", "IND"}) = FALSE
    OBVIOUS
  <2>2. (CASE "IMM" \in {"ZPX", "INDX", "ABSX"} -> "x"
           [] "IMM" \in {"ZPY", "ABSY"}         -> "y"
           [] OTHER -> "") = ""
    OBVIOUS
  <2> QED BY <2>1, <2>2 DEF modeTemplate
<1>2. modeTemplate("ZP", v) = [hash |-> FALSE, val |-> v, index |-> "", close |-> FALSE, outer |-> FALSE, clean |-> v >= 0]
  <2>1. /\ ("ZP" = "IMM") = FALSE /\ ("ZP" = "INDY") = FALSE
        /\ ("ZP" \in {"INDX", "INDY", "IND"}) = FALSE
    OBVIOUS
  <2>2. (CASE "ZP" \in {"ZPX", "INDX", "ABSX"} -> "x"
           [] "ZP" \in {"ZPY", "ABSY"}         -> "y"
           [] OTHER -> "") = ""
    OBVIOUS
  <2> QED BY <2>1, <2>2 DEF modeTemplate
<1>3. modeTemplate("ABS", v) = [hash |-> FALSE, val |-> v, index |-> "", close |-> FALSE, outer |-> FALSE, clean |-> v >= 0]
  <2>1. /\ ("ABS" = "IMM") = FALSE /\ ("ABS" = "INDY") = FALSE
        /\ ("ABS" \in {"INDX", "INDY", "IND"}) = FALSE
    OBVIOUS
  <2>2. (CASE "ABS" \in {"ZPX", "INDX", "ABSX"} -> "x"
           [] "ABS" \in {"ZPY", "ABSY"}         -> "y"
           [] OTHER -> "") = ""
    OBVIOUS
  <2> QED BY <2>1, <2>2 DEF modeTemplate
<1>4. modeTemplate("REL", v) = [hash |-> FALSE, val |-> v, index |-> "", close |-> FALSE, outer |-> FALSE, clean |-> v >= 0]
  <2>1. /\ ("REL" = "IMM") = FALSE /\ ("REL" = "INDY") = FALSE
        /\ ("REL" \in {"INDX", "INDY", "IND"}) = FALSE
    OBVIOUS
  <2>2. (CASE "REL" \in {"ZPX", "INDX", "ABSX"} -> "x"
           [] "REL" \in {"ZPY", "ABSY"}         -> "y"
           [] OTHER -> "") = ""
    OBVIOUS
  <2> QED BY <2>1, <2>2 DEF modeTemplate
<1>5. modeTemplate("ZPX", v) = [hash |-> FALSE, val |-> v, index |-> "x", close |-> FALSE, outer |-> FALSE, clean |-> v >= 0]
  <2>1. /\ ("ZPX" = "IMM") = FALSE /\ ("ZPX" = "INDY") = FALSE
        /\ ("ZPX" \in {"INDX", "INDY", "IND"}) = FALSE
    OBVIOUS
  <2>2. (CASE "ZPX" \in {"ZPX", "INDX", "ABSX"} -> "x"
           [] "ZPX" \in {"ZPY", "ABSY"}         -> "y"
           [] OTHER -> "") = "x"
    OBVIOUS
  <2> QED BY <2>1, <2>2 DEF modeTemplate
<1>6. modeTemplate("ABSX", v) = [hash |-> FALSE, val |-> v, index |-> "x", close |-> FALSE, outer |-> FALSE, clean |-> v >= 0]
  <2>1. /\ ("ABSX" = "IMM") = FALSE /\ ("ABSX" = "INDY") = FALSE
        /\ ("ABSX" \in {"INDX", "INDY", "IND"}) = FALSE
    OBVIOUS
  <2>2. (CASE "ABSX" \in {"ZPX", "INDX", "ABSX"} -> "x"
           [] "ABSX" \in {"ZPY", "ABSY"}         -> "y"
           [] OTHER -> "") = "x"
    OBVIOUS
  <2> QED BY <2>1, <2>2 DEF modeTemplate
<1>7. modeTemplate("ZPY", v) = [hash |-> FALSE, val |-> v, index |-> "y", close |-> FALSE, outer |-> FALSE, clean |-> v >= 0]
  <2>1. /\ ("ZPY" = "IMM") = FALSE /\ ("ZPY" = "INDY") = FALSE
        /\ ("ZPY" \in {"INDX", "INDY", "IND"}) = FALSE
    OBVIOUS
  <2>2. (CASE "ZPY" \in {"ZPX", "INDX", "ABSX"} -> "x"
           [] "ZPY" \in {"ZPY", "ABSY"}         -> "y"
           [] OTHER -> "") = "y"
    OBVIOUS
  <2> QED BY <2>1, <2>2 DEF modeTemplate
<1>8. modeTemplate("ABSY", v) = [hash |-> FALSE, val |-> v, index |-> "y", close |-> FALSE, outer |-> FALSE, clean |-> v >= 0]
  <2>1. /\ ("ABSY" = "IMM") = FALSE /\ ("ABSY" = "INDY") = FALSE
        /\ ("ABSY" \in {"INDX", "INDY", "IND"}) = FALSE
    OBVIOUS
  <2>2. (CASE "ABSY" \in {"ZPX", "INDX", "ABSX"} -> "x"
           [] "ABSY" \in {"ZPY", "ABSY"}         -> "y"
           [] OTHER -> "") = "y"
    OBVIOUS
  <2> QED BY <2>1, <2>2 DEF modeTemplate
<1>9. modeTemplate("INDX", v) = [hash |-> FALSE, val |-> v, index |-> "x", close |-> TRUE, outer |-> FALSE, clean |-> v >= 0]
  <2>1. /\ ("INDX" = "IMM") = FALSE /\ ("INDX" = "INDY") = FALSE
        /\ ("INDX" \in {"INDX", "INDY", "IND"}) = TRUE
    OBVIOUS
  <2>2. (CASE "INDX" \in {"ZPX", "INDX", "ABSX"} -> "x"
           [] "INDX" \in {"ZPY", "ABSY"}         -> "y"
           [] OTHER -> "") = "x"
    OBVIOUS
  <2> QED BY <2>1, <2>2 DEF modeTemplate
<1>10. modeTemplate("INDY", v) = [hash |-> FALSE, val |-> v, index |-> "", close |-> TRUE, outer |-> TRUE, clean |-> v >= 0]
  <2>1. /\ ("INDY" = "IMM") = FALSE /\ ("INDY" = "INDY") = TRUE
        /\ ("INDY" \in {"INDX", "INDY", "IND"}) = TRUE
    OBVIOUS
  <2>2. (CASE "INDY" \in {"ZPX", "INDX", "ABSX"} -> "x"
           [] "INDY" \in {"ZPY", "ABSY"}         -> "y"
           [] OTHER -> "") = ""
    OBVIOUS
  <2> QED BY <2>1, <2>2 DEF modeTemplate
<1>11. modeTemplate("IND", v) = [hash |-> FALSE, val |-> v, index |-> "", close |-> TRUE, outer |-> FALSE, clean |-> v >= 0]
  <2>1. /\ ("IND" = "IMM") = FALSE /\ ("IND" = "INDY") = FALSE
        /\ ("IND" \in {"INDX", "INDY", "IND"}) = TRUE
    OBVIOUS
  <2>2. (CASE "IND" \in {"ZPX", "INDX", "ABSX"} -> "x"
           [] "IND" \in {"ZPY", "ABSY"}         -> "y"
           [] OTHER -> "") = ""
    OBVIOUS
  <2> QED BY <2>1, <2>2 DEF modeTemplate
<1> QED BY <1>1, <1>2, <1>3, <1>4, <1>5, <1>6, <1>7, <1>8, <1>9, <1>10, <1>11

\* What the notations are parsed as.
LEMMA ParsedAs ==
    ASSUME NEW v \in Int
    PROVE  /\ parse([hash |-> TRUE, val |-> v, index |-> "", close |-> FALSE, outer |-> FALSE, clean |-> TRUE]) = "IMM"
           /\ parse([hash |-> FALSE, val |-> v, index |-> "", close |-> FALSE, outer |-> FALSE, clean |-> TRUE])
                 = IF v < 256 THEN "ZP" ELSE "ABS"
           /\ parse([hash |-> FALSE, val |-> v, index |-> "x", close |-> FALSE, outer |-> FALSE, clean |-> TRUE])
                 = IF v < 256 THEN "ZPX" ELSE "ABSX"
           /\ parse([hash |-> FALSE, val |-> v, index |-> "y", close |-> FALSE, outer |-> FALSE, clean |-> TRUE])
                 = IF v < 256 THEN "ZPY" ELSE "ABSY"
           /\ parse([hash |-> FALSE, val |-> v, index |-> "", close |-> TRUE, outer |-> FALSE, clean |-> TRUE]) = "IND"
           /\ parse([hash |-> FALSE, val |-> v, index |-> "x", close |-> TRUE, outer |-> FALSE, clean |-> TRUE])
                 = IF v < 256 THEN "INDX" ELSE "BAD"
           /\ parse([hash |-> FALSE, val |-> v, index |-> "", close |-> TRUE, outer |-> TRUE, clean |-> TRUE])
                 = IF v < 256 THEN "INDY" ELSE "BAD"
<1>1. parse([hash |-> TRUE, val |-> v, index |-> "", close |-> FALSE, outer |-> FALSE, clean |-> TRUE]) = "IMM"
  BY DEF parse
<1>2. parse([hash |-> FALSE, val |-> v, index |-> "", close |-> FALSE, outer |-> FALSE, clean |-> TRUE])
         = IF v < 256 THEN "ZP" ELSE "ABS"
  BY DEF parse
<1>3. parse([hash |-> FALSE, val |-> v, index |-> "x", close |-> FALSE, outer |-> FALSE, clean |-> TRUE])
         = IF v < 256 THEN "ZPX" ELSE "ABSX"
  BY DEF parse
<1>4. parse([hash |-> FALSE, val |-> v, index |-> "y", close |-> FALSE, outer |-> FALSE, clean |-> TRUE])
         = IF v < 256 THEN "ZPY" ELSE "ABSY"
  BY DEF parse
<1>5. parse([hash |-> FALSE, val |-> v, index |-> "", close |-> TRUE, outer |-> FALSE, clean |-> TRUE]) = "IND"
  BY DEF parse
<1>6. parse([hash |-> FALSE, val |-> v, index |-> "x", close |-> TRUE, outer |-> FALSE, clean |-> TRUE])
         = IF v < 256 THEN "INDX" ELSE "BAD"
  BY DEF parse
<1>7. parse([hash |-> FALSE, val |-> v, index |-> "", close |-> TRUE, outer |-> TRUE, clean |-> TRUE])
         = IF v < 256 THEN "INDY" ELSE "BAD"
  BY DEF parse
<1> QED BY <1>1, <1>2, <1>3, <1>4, <1>5, <1>6, <1>7

LEMMA Accepts ==
    /\ Accepting("NONE") = {"NONE"} /\ Accepting("IMM") = {"IMM"} /\ Accepting("BAD") = {"BAD"}
    /\ Accepting("ZP") = {"ZP", "ABS", "REL"} /\ Accepting("ABS") = {"ABS", "REL"}
    /\ Accepting("ZPX") = {"ZPX", "ABSX"} /\ Accepting("ABSX") = {"ABSX"}
    /\ Accepting("ZPY") = {"ZPY", "ABSY"} /\ Accepting("ABSY") = {"ABSY"}
    /\ Accepting("IND") = {"IND"} /\ Accepting("INDX") = {"INDX"} /\ Accepting("INDY") = {"INDY"}
BY DEF Accepting

-----------------------------------------------------------------------------
(* The bytes of a line *)

LEMMA WordsAreInts == Adr \subseteq Nat /\ Byte \subseteq Nat /\ \A b \in Byte : b < 256
BY AdrIs DEF Byte

LEMMA LowLow == ASSUME NEW b \in Byte PROVE lo(b) = b
BY DEF Byte, lo

LEMMA WordBytes ==
    ASSUME NEW v \in Adr
    PROVE  /\ v = lo(v) + 256 * lo(hi(v)) /\ lo(hi(v)) = hi(v)
           /\ lo(v) \in Byte /\ hi(v) \in Byte
           /\ v < 256 => lo(v) = v
           /\ to_adr(lo(v), hi(v)) = v
<1> DEFINE q == v \div 256
           r == v % 256
<1>0. v \in Int /\ 0 <= v /\ v < 65536
  BY AdrIs
<1>1. q \in 0 .. 255 /\ r \in 0 .. 255 /\ v = 256 * q + r
  BY <1>0
<1>2. v < 256 => r = v
  BY <1>0
<1>3. hi(v) = q /\ lo(v) = r
  BY DEF hi, lo
<1> HIDE DEF q, r
<1>4. lo(q) = q
  BY <1>1 DEF lo
<1> QED BY <1>1, <1>2, <1>3, <1>4 DEF Byte, to_adr

LEMMA DistanceReaches ==
    ASSUME NEW target \in Int, NEW pc \in Int
    PROVE  pc + 2 + Signed8(lo(Distance(target, pc))) = target <=> target - pc \in -126 .. 129
<1> DEFINE d == target - pc - 2
<1>1. d \in Int /\ Distance(target, pc) = d
  BY DEF Distance
<1> HIDE DEF d
<1>2. Signed8(lo(d)) = d <=> d \in -128 .. 127
  BY <1>1 DEF Signed8, lo
<1> QED BY <1>1, <1>2 DEF d, Signed8, lo

LEMMA SizeIs == ASSUME NEW mode PROVE opSize(mode) \in {1, 2, 3}
BY DEF opSize

\* The first n bytes of an instruction.
Cut(c, l, h, n) == SubSeq(<<c, l, h>>, 1, n)

LEMMA CutIs ==
    ASSUME NEW c, NEW l, NEW h
    PROVE  /\ Cut(c, l, h, 1) = <<c>>
           /\ Cut(c, l, h, 2) = <<c, l>>
           /\ Cut(c, l, h, 3) = <<c, l, h>>
<1> DEFINE t == <<c, l, h>>
           S == {c, l, h}
           u == <<c>>
           w == <<c, l>>
<1>1. t \in Seq(S) /\ Len(t) = 3 /\ t[1] = c /\ t[2] = l
  OBVIOUS
<1>2. u \in Seq(S) /\ Len(u) = 1 /\ u[1] = c
  OBVIOUS
<1>3. w \in Seq(S) /\ Len(w) = 2 /\ w[1] = c /\ w[2] = l
  OBVIOUS
<1> HIDE DEF t, S, u, w
<1>4. SubSeq(t, 1, 1) = u
  <2> DEFINE s == SubSeq(t, 1, 1)
  <2>1. s \in Seq(S) /\ Len(s) = 1 /\ s[1] = t[1]
    BY <1>1, SubSeqProperties
  <2> HIDE DEF s
  <2>2. \A i \in 1 .. Len(s) : s[i] = u[i]
    BY <1>1, <1>2, <2>1
  <2> QED BY <1>2, <2>1, <2>2, SeqEqual DEF s
<1>5. SubSeq(t, 1, 2) = w
  <2> DEFINE s == SubSeq(t, 1, 2)
  <2>1. s \in Seq(S) /\ Len(s) = 2
    BY <1>1, SubSeqProperties
  <2>2. s[1] = t[1]
    BY <1>1, SubSeqProperties
  <2>3. s[2] = t[2]
    BY <1>1, SubSeqProperties
  <2> HIDE DEF s
  <2>4. \A i \in 1 .. Len(s) : s[i] = w[i]
    BY <1>1, <1>3, <2>1, <2>2, <2>3
  <2> QED BY <1>3, <2>1, <2>4, SeqEqual DEF s
<1>6. SubSeq(t, 1, 3) = t
  BY <1>1, SubSeqFull
<1> QED BY <1>4, <1>5, <1>6 DEF Cut, t, u, w

LEMMA CutLen == ASSUME NEW c, NEW l, NEW h, NEW n \in {1, 2, 3} PROVE Len(Cut(c, l, h, n)) = n
<1>1. Len(<<c>>) = 1 /\ Len(<<c, l>>) = 2 /\ Len(<<c, l, h>>) = 3
  OBVIOUS
<1> QED BY <1>1, CutIs

LEMMA CutAt ==
    ASSUME NEW c, NEW l, NEW h, NEW n \in {1, 2, 3}, NEW s, s = Cut(c, l, h, n)
    PROVE  /\ s # <<>> /\ s[1] = c
           /\ n # 1 => s[2] = l
           /\ n = 3 => s[3] = h
<1>1. n = 1 => s = <<c>>
  BY CutIs
<1>2. n = 2 => s = <<c, l>>
  BY CutIs
<1>3. n = 3 => s = <<c, l, h>>
  BY CutIs
<1> QED BY <1>1, <1>2, <1>3

\* The bytes a row makes of an operand that is not relative.
LEMMA EncodedAs ==
    ASSUME NEW row, NEW a, NEW pc, row.mode # "REL",
           NEW s, s = Encoded(row, a, pc), NEW n, n = opSize(row.mode)
    PROVE  /\ Len(s) = n /\ s # <<>> /\ s[1] = row.code
           /\ n # 1 => s[2] = lo(a.val)
           /\ n = 3 => s[3] = lo(hi(a.val))
           /\ n = 1 => s = <<row.code>>
           /\ n = 2 => s = <<row.code, lo(a.val)>>
           /\ n = 3 => s = <<row.code, lo(a.val), lo(hi(a.val))>>
<1>1. n \in {1, 2, 3}
  BY SizeIs
<1>2. CASE row.mode = "NONE"
  <2>1. n = 1
    BY <1>2 DEF opSize
  <2>2. s = Cut(row.code, lo(0), lo(hi(0)), n)
    BY <1>2 DEF Encoded, Cut
  <2>3. s = <<row.code>>
    BY <2>1, <2>2, CutIs
  <2> QED BY <2>1, <2>3
<1>3. CASE row.mode # "NONE"
  <2>1. s = Cut(row.code, lo(a.val), lo(hi(a.val)), n)
    BY <1>3 DEF Encoded, Cut
  <2>2. Len(s) = n
    BY <1>1, <2>1, CutLen
  <2>3. s # <<>> /\ s[1] = row.code /\ (n # 1 => s[2] = lo(a.val)) /\ (n = 3 => s[3] = lo(hi(a.val)))
    BY <1>1, <2>1, CutAt
  <2>4. n = 1 => s = <<row.code>>
    BY <2>1, CutIs
  <2>5. n = 2 => s = <<row.code, lo(a.val)>>
    BY <2>1, CutIs
  <2>6. n = 3 => s = <<row.code, lo(a.val), lo(hi(a.val))>>
    BY <2>1, CutIs
  <2> QED BY <2>2, <2>3, <2>4, <2>5, <2>6
<1> QED BY <1>2, <1>3

\* The bytes of a branch.
LEMMA EncodedBranch ==
    ASSUME NEW row, NEW a, NEW pc, row.mode = "REL",
           NEW s, s = Encoded(row, a, pc), NEW d, d = Distance(a.val, pc)
    PROVE  Len(s) = 2 /\ s[2] = lo(d) /\ s = <<row.code, lo(d)>>
<1>1. opSize("REL") = 2
  BY DEF opSize
<1>2. s = Cut(row.code, lo(d), lo(hi(d)), 2)
  BY <1>1 DEF Encoded, Cut
<1>3. s = <<row.code, lo(d)>>
  BY <1>2, CutIs
<1> QED BY <1>3

-----------------------------------------------------------------------------
(* Listings *)

\* The row a listing shows for the code of a row.
HaveCodeOf(rows, i, f) == /\ i \in 1 .. 56 /\ f \in DOMAIN Instructions[i].opcodes
                          /\ rows = {r \in Rows : RowAt(r).code = Instructions[i].opcodes[f].code}

FirstShows(rows, i, f) ==
    LET x == Instructions[i]
    IN  /\ rows # {}
        /\ \E k \in DOMAIN x.opcodes :
              /\ FirstOf(rows) = <<i, k>>
              /\ x.opcodes[k].code = x.opcodes[f].code /\ x.opcodes[k].mode # "ACC"
              /\ k = f \/ (x.opcodes[k].mode = "NONE" /\ x.opcodes[f].mode = "ACC")

LEMMA RowShown == ASSUME NEW rows, NEW i, NEW f, HaveCodeOf(rows, i, f) PROVE FirstShows(rows, i, f)
<1> DEFINE x == Instructions[i]
<1>0. /\ i \in 1 .. 56 /\ f \in DOMAIN x.opcodes
      /\ rows = {r \in Rows : RowAt(r).code = x.opcodes[f].code}
  BY DEF HaveCodeOf
<1>1. <<i, f>> \in rows
  BY <1>0, RowsAre DEF RowAt
<1>2. rows \in SUBSET (Nat \X Nat) /\ rows # {}
  BY <1>0, <1>1, RowsAre
<1>3. FirstOf(rows) \in rows /\ \A r \in rows : ~Before(r, FirstOf(rows))
  <2> QED BY <1>2, FirstExists
<1>4. PICK j \in 1 .. 56 : \E k \in DOMAIN Instructions[j].opcodes : FirstOf(rows) = <<j, k>>
  <2>1. FirstOf(rows) \in Rows
    BY <1>0, <1>3
  <2> QED BY <2>1, RowsAre
<1>5. PICK k \in DOMAIN Instructions[j].opcodes : FirstOf(rows) = <<j, k>>
  BY <1>4
<1>6. Instructions[j].opcodes[k].code = x.opcodes[f].code
  <2>1. \A r \in rows : RowAt(r).code = x.opcodes[f].code
    BY <1>0
  <2>2. RowAt(<<j, k>>) = Instructions[j].opcodes[k]
    BY DEF RowAt
  <2>3. RowAt(<<j, k>>).code = x.opcodes[f].code
    BY <1>3, <1>5, <2>1
  <2> QED BY <2>2, <2>3
<1>7. j = i
  BY <1>0, <1>5, <1>6, CodeShared
<1>8. ~Before(<<i, f>>, <<i, k>>)
  <2> QED BY <1>1, <1>3, <1>5, <1>7
<1>9. k \in DOMAIN x.opcodes /\ ~(f < k) /\ f \in Nat /\ k \in Nat
  BY <1>0, <1>5, <1>7, <1>8, RowsAre, TableEntry, RowAlone DEF Before
<1>10. k < f => x.opcodes[k].mode = "NONE" /\ x.opcodes[f].mode = "ACC"
  BY <1>0, <1>6, <1>7, <1>9, TableEntry, CodePair
<1>11. k = f \/ k < f
  BY <1>9
<1>12. ASSUME x.opcodes[k].mode = "ACC" PROVE FALSE
  <2>1. k = 2 /\ x.opcodes[1].code = x.opcodes[2].code
    BY <1>0, <1>6, <1>7, <1>9, <1>12, TableEntry, RowAlone
  <2>2. 1 \in DOMAIN x.opcodes
    <3>1. EntryAt(x, i)
      BY <1>0, TableEntry
    <3> QED BY <3>1 DEF EntryAt
  <2>3. <<i, 1>> \in rows
    BY <1>0, <1>6, <1>7, <2>1, <2>2, RowsAre DEF RowAt
  <2>4. ~Before(<<i, 1>>, <<i, 2>>)
    BY <1>3, <1>5, <1>7, <2>1, <2>3
  <2> QED BY <2>4 DEF Before
<1> QED BY <1>2, <1>5, <1>6, <1>7, <1>9, <1>10, <1>11, <1>12 DEF FirstShows

\* Two rows of an instruction with the same mode are the same row.
LEMMA OneRow ==
    ASSUME NEW x, NEW i, EntryAt(x, i), NEW k \in DOMAIN x.opcodes, NEW l \in DOMAIN x.opcodes,
           x.opcodes[k].mode = x.opcodes[l].mode
    PROVE  k = l
<1>1. k \in Nat /\ l \in Nat
  BY RowAlone
<1>2. ~(k < l) /\ ~(l < k)
  BY RowPair
<1> QED BY <1>1, <1>2

=============================================================================
