------------------------------- MODULE Words -------------------------------
(***************************************************************************)
(* The machine words of src/emulator.h: 8-bit bytes (`Word`), 16-bit       *)
(* addresses (`Adr`), and the bit operations the opcodes perform on them.  *)
(* A bit is named by its weight: BitOf(v, 128) is the sign bit of a byte.  *)
(* TLA+ division rounds down, so BitOf reads a negative number as the      *)
(* two's complement the code's `unsigned` arithmetic leaves behind.        *)
(***************************************************************************)
EXTENDS Integers

Byte == 0 .. 255
Adr  == 0 .. 65535

BitOf(v, w) == (v \div w) % 2

\* The byte whose bit of weight w is set exactly when P(w).
Compose(P(_)) ==
    LET On(w) == IF P(w) THEN w ELSE 0
    IN  On(1) + On(2) + On(4) + On(8) + On(16) + On(32) + On(64) + On(128)

BitAnd(a, b) == Compose(LAMBDA w : BitOf(a, w) = 1 /\ BitOf(b, w) = 1)
BitOr(a, b)  == Compose(LAMBDA w : BitOf(a, w) = 1 \/ BitOf(b, w) = 1)
BitXor(a, b) == Compose(LAMBDA w : BitOf(a, w) # BitOf(b, w))

lo(a) == a % 256
hi(a) == a \div 256
to_adr(l, h) == h * 256 + l

\* int8_t and int16_t, which Branch and setPC convert to.
Signed8(b)  == IF b >= 128 THEN b - 256 ELSE b
Signed16(a) == IF a >= 32768 THEN a - 65536 ELSE a

=============================================================================
