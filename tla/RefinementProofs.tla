-------------------------- MODULE RefinementProofs --------------------------
(***************************************************************************)
(* Machine implements Cpu6502 but for the named departures, and its banks  *)
(* implement FlatMemory, for every opcode table, program, ROM, client and  *)
(* policy.                                                                 *)
(*                                                                         *)
(* Each opcode function of Machine is, with the flags of get_SR() as P, an *)
(* instruction of Cpu6502 or one of Departures: the lemmas below say so    *)
(* one by one.  They rest on the invariants of MachineProofs (the table    *)
(* that run() dispatches through is the one the D flag asks for; S and Z   *)
(* are in `result` alone) and on OperatorLemmas, which says what the       *)
(* arithmetic computes.                                                    *)
(***************************************************************************)
EXTENDS MachineRefinement, MachineProofs, OperatorLemmas

-----------------------------------------------------------------------------
(* Memory, words and flags, which both levels take from the same modules *)

LEMMA SameWords ==
    ASSUME NEW n, NEW m
    PROVE  /\ Cpu!lo(n) = lo(n) /\ Cpu!hi(n) = hi(n) /\ Cpu!to_adr(n, m) = to_adr(n, m)
           /\ Cpu!Signed8(n) = Signed8(n) /\ Cpu!Length(n) = opSize(n)
           /\ Cpu!At(n, m) = At(n, m)
           /\ Cpu!Byte = Byte
BY DEF Cpu!lo, lo, Cpu!hi, hi, Cpu!to_adr, to_adr, Cpu!Signed8, Signed8, Cpu!Length,
       opSize, Cpu!At, At, Cpu!Byte, Byte

LEMMA SameStored ==
    ASSUME NEW d, NEW a, NEW v
    PROVE  Cpu!Stored(d, a, v) = Stored(d, a, v)
BY DEF Cpu!Stored, Stored

LEMMA SameLogic ==
    ASSUME NEW a, NEW b
    PROVE  /\ Cpu!BitAnd(a, b) = BitAnd(a, b)
           /\ Cpu!BitOr(a, b) = BitOr(a, b)
           /\ Cpu!BitXor(a, b) = BitXor(a, b)
BY DEF Cpu!BitAnd, BitAnd, Cpu!BitOr, BitOr, Cpu!BitXor, BitXor, Cpu!Compose, Compose,
       Cpu!BitOf, BitOf

LEMMA SameFlags ==
    ASSUME NEW F, NEW b
    PROVE  Cpu!SrByte(F) = SrByte(F) /\ Cpu!SrFlags(b) = SrFlags(b)
BY DEF Cpu!SrByte, SrByte, Cpu!SrFlags, SrFlags, Cpu!Compose, Compose, Cpu!BitOf, BitOf,
       Cpu!Flags, Flags, Cpu!Weight, Weight

LEMMA SameFetch == ASSUME NEW d, NEW adr PROVE Cpu!Fetch(d, adr) = Fetch(d, adr)
BY DEF Cpu!Fetch, Fetch, Cpu!read_bank, read_bank, Cpu!hi, hi, Cpu!lo, lo, Cpu!At, At,
       Cpu!to_adr, to_adr

LEMMA SameRead == ASSUME NEW adr PROVE Cpu!Read(adr) = Read(adr)
BY DEF Cpu!Read, Read, Cpu!read_bank, read_bank, Cpu!hi, hi, Cpu!lo, lo, Cpu!At, At,
       Cpu!to_adr, to_adr

LEMMA SameWrite == ASSUME NEW adr, NEW v PROVE Cpu!Write(adr, v) = Write(adr, v)
BY DEF Cpu!Write, Write, Cpu!Stored, Stored, Cpu!hi, hi

-----------------------------------------------------------------------------
(* The status a program sees *)

\* S and Z are those of the byte, if the result is the sum of two bytes and a
\* carry, or one less than a byte.
LEMMA ResultFlags ==
    ASSUME NEW res \in -1 .. 511
    PROVE  /\ SignOf(Kept(res)) <=> lo(res) >= 128
           /\ ZeroOf(Kept(res)) <=> lo(res) = 0
           /\ lo(res) \in Byte
<1>1. CASE res < 0
    <2>1. Kept(res) = res + 1024 BY <1>1 DEF Kept, ResultBits
    <2>2. lo(res) = res + 256 BY <1>1 DEF lo
    <2>3. BitOf(res + 1024, 512) = 1 /\ lo(res + 1024) = res + 256
        BY <1>1 DEF BitOf, lo
    <2> QED BY <1>1, <2>1, <2>2, <2>3 DEF SignOf, ZeroOf, Byte
<1>2. CASE res \in 0 .. 511
    <2>1. Kept(res) = res BY <1>2 DEF Kept, ResultBits
    <2> QED BY <1>2, <2>1, SumBits DEF SignOf, ZeroOf, Byte
<1> QED BY <1>1, <1>2

LEMMA WithFlag ==
    ASSUME NEW F, NEW flag, NEW on \in BOOLEAN
    PROVE  /\ flag \in Cpu!With(F, flag, on) <=> on
           /\ \A f : f # flag => (f \in Cpu!With(F, flag, on) <=> f \in F)
BY DEF Cpu!With

LEMMA NZFlags ==
    ASSUME NEW F, NEW v
    PROVE  /\ "SIGN" \in Cpu!NZ(F, v) <=> v >= 128
           /\ "ZERO" \in Cpu!NZ(F, v) <=> v = 0
           /\ \A f : f \notin SZ => (f \in Cpu!NZ(F, v) <=> f \in F)
BY DEF Cpu!NZ, Cpu!With, SZ

\* What set<BITS>(res, arg) makes of the status, for the three BITS in use.
LEMMA SetSeen ==
    ASSUME StatusOK, StatusOK', NEW BITS, NEW a, NEW res \in -1 .. 511, NEW arg,
           set(BITS, a, res, arg), BITS \in {SZ, SZC, SZCV}
    PROVE  /\ "SIGN" \in get_SR' <=> lo(res) >= 128
           /\ "ZERO" \in get_SR' <=> lo(res) = 0
           /\ "CARRY" \in BITS => ("CARRY" \in get_SR' <=> BitOf(res, 256) = 1)
           /\ "OVER" \in BITS => ("OVER" \in get_SR' <=> Overflow(a, res, arg))
           /\ \A f : f \notin BITS => (f \in get_SR' <=> f \in get_SR)
<1>1. result' = Kept(res) BY DEF set
<1>2. \A f : f \in get_SR <=> Seen(f, sr, result) BY FlagsSeen
<1>3. \A f : f \in get_SR' <=> Seen(f, sr', result') BY FlagsSeenAfter
<1>4. /\ "CARRY" \in BITS => ("CARRY" \in sr' <=> BitOf(res, 256) = 1)
      /\ "OVER" \in BITS => ("OVER" \in sr' <=> Overflow(a, res, arg))
    BY DEF set
<1>5. \A f : f \notin BITS => (f \in sr' <=> f \in sr)
    BY DEF set
<1>6. {"SIGN", "ZERO"} \subseteq BITS BY DEF SZCV, SZC, SZ
<1>7. SignOf(result') <=> lo(res) >= 128 BY <1>1, ResultFlags
<1>8. ZeroOf(result') <=> lo(res) = 0 BY <1>1, ResultFlags
<1> QED BY <1>2, <1>3, <1>4, <1>5, <1>6, <1>7, <1>8 DEF Seen

LEMMA SetNZSeen ==
    ASSUME StatusOK, StatusOK', NEW a, NEW res \in -1 .. 511, NEW arg, set(SZ, a, res, arg)
    PROVE  get_SR' = Cpu!NZ(get_SR, lo(res))
<1> DEFINE seen == get_SR'
           goal == Cpu!NZ(get_SR, lo(res))
<1>1. /\ "SIGN" \in seen <=> lo(res) >= 128
      /\ "ZERO" \in seen <=> lo(res) = 0
      /\ \A f : f \notin SZ => (f \in seen <=> f \in get_SR)
    BY SetSeen
<1>2. /\ "SIGN" \in goal <=> lo(res) >= 128
      /\ "ZERO" \in goal <=> lo(res) = 0
      /\ \A f : f \notin SZ => (f \in goal <=> f \in get_SR)
    BY NZFlags
<1> HIDE DEF seen, goal
<1>3. \A f : f \in seen <=> f \in goal BY <1>1, <1>2 DEF SZ
<1>4. seen = goal BY <1>3, SameMembers
<1> QED BY <1>4 DEF seen, goal

LEMMA SetCarrySeen ==
    ASSUME StatusOK, StatusOK', NEW a, NEW res \in -1 .. 511, NEW arg, set(SZC, a, res, arg)
    PROVE  get_SR' = Cpu!With(Cpu!NZ(get_SR, lo(res)), "CARRY", BitOf(res, 256) = 1)
<1> DEFINE seen == get_SR'
           nz   == Cpu!NZ(get_SR, lo(res))
           goal == Cpu!With(nz, "CARRY", BitOf(res, 256) = 1)
<1>1. "CARRY" \in SZC BY DEF SZC
<1>2. /\ "SIGN" \in seen <=> lo(res) >= 128
      /\ "ZERO" \in seen <=> lo(res) = 0
      /\ "CARRY" \in seen <=> BitOf(res, 256) = 1
      /\ \A f : f \notin SZC => (f \in seen <=> f \in get_SR)
    BY <1>1, SetSeen
<1>3. /\ "SIGN" \in nz <=> lo(res) >= 128
      /\ "ZERO" \in nz <=> lo(res) = 0
      /\ \A f : f \notin SZ => (f \in nz <=> f \in get_SR)
    BY NZFlags
<1> HIDE DEF nz
<1>4. /\ "CARRY" \in goal <=> BitOf(res, 256) = 1
      /\ \A f : f # "CARRY" => (f \in goal <=> f \in nz)
    BY WithFlag
<1> HIDE DEF seen, goal
<1>5. \A f : f \in seen <=> f \in goal BY <1>2, <1>3, <1>4 DEF SZC, SZ
<1>6. seen = goal BY <1>5, SameMembers
<1> QED BY <1>6 DEF seen, goal, nz

LEMMA SetAllSeen ==
    ASSUME StatusOK, StatusOK', NEW a, NEW res \in -1 .. 511, NEW arg, set(SZCV, a, res, arg)
    PROVE  get_SR' = Cpu!With(Cpu!With(Cpu!NZ(get_SR, lo(res)), "CARRY", BitOf(res, 256) = 1),
                              "OVER", Overflow(a, res, arg))
<1> DEFINE seen == get_SR'
           nz   == Cpu!NZ(get_SR, lo(res))
           nzc  == Cpu!With(nz, "CARRY", BitOf(res, 256) = 1)
           goal == Cpu!With(nzc, "OVER", Overflow(a, res, arg))
<1>1. "CARRY" \in SZCV /\ "OVER" \in SZCV BY DEF SZCV, SZC
<1>2. /\ "SIGN" \in seen <=> lo(res) >= 128
      /\ "ZERO" \in seen <=> lo(res) = 0
      /\ "CARRY" \in seen <=> BitOf(res, 256) = 1
      /\ "OVER" \in seen <=> Overflow(a, res, arg)
      /\ \A f : f \notin SZCV => (f \in seen <=> f \in get_SR)
    <2>1. SZCV \in {SZ, SZC, SZCV} OBVIOUS
    <2>2. "OVER" \in get_SR' <=> Overflow(a, res, arg)
        BY <1>1, <2>1, SetSeen
    <2>3. /\ "SIGN" \in get_SR' <=> lo(res) >= 128
          /\ "ZERO" \in get_SR' <=> lo(res) = 0
          /\ "CARRY" \in get_SR' <=> BitOf(res, 256) = 1
          /\ \A f : f \notin SZCV => (f \in get_SR' <=> f \in get_SR)
        BY <1>1, <2>1, SetSeen
    <2> QED BY <2>2, <2>3
<1>3. /\ "SIGN" \in nz <=> lo(res) >= 128
      /\ "ZERO" \in nz <=> lo(res) = 0
      /\ \A f : f \notin SZ => (f \in nz <=> f \in get_SR)
    BY NZFlags
<1> HIDE DEF nz
<1>4. /\ "CARRY" \in nzc <=> BitOf(res, 256) = 1
      /\ \A f : f # "CARRY" => (f \in nzc <=> f \in nz)
    BY WithFlag
<1> HIDE DEF nzc
<1>5. /\ "OVER" \in goal <=> Overflow(a, res, arg)
      /\ \A f : f # "OVER" => (f \in goal <=> f \in nzc)
    <2>1. Overflow(a, res, arg) \in BOOLEAN BY DEF Overflow
    <2> QED BY <2>1, WithFlag
<1> HIDE DEF seen, goal
<1>6. \A f : f \in seen <=> f \in goal BY <1>2, <1>3, <1>4, <1>5 DEF SZCV, SZC, SZ
<1>7. seen = goal BY <1>6, SameMembers
<1> QED BY <1>7 DEF seen, goal, nz, nzc

\* Asl, Lsr, Ror and Rol.
LEMMA ShiftSeen ==
    ASSUME StatusOK, StatusOK', NEW res \in 0 .. 511, NEW bit,
           result' = res, sr' = WithCarry(sr, bit)
    PROVE  get_SR' = Cpu!With(Cpu!NZ(get_SR, lo(res)), "CARRY", bit = 1)
<1> DEFINE seen == get_SR'
           nz   == Cpu!NZ(get_SR, lo(res))
           goal == Cpu!With(nz, "CARRY", bit = 1)
<1>1. \A f : f \in get_SR <=> Seen(f, sr, result) BY FlagsSeen
<1>2. \A f : f \in get_SR' <=> Seen(f, sr', result') BY FlagsSeenAfter
<1>3. Kept(res) = res BY DEF Kept, ResultBits
<1>4. SignOf(result') <=> lo(res) >= 128 BY <1>3, ResultFlags
<1>5. ZeroOf(result') <=> lo(res) = 0 BY <1>3, ResultFlags
<1>6. "CARRY" \in sr' <=> bit = 1 BY DEF WithCarry
<1>7. \A f : f # "CARRY" => (f \in sr' <=> f \in sr) BY DEF WithCarry
<1>8. /\ "SIGN" \in seen <=> lo(res) >= 128
      /\ "ZERO" \in seen <=> lo(res) = 0
      /\ "CARRY" \in seen <=> bit = 1
      /\ \A f : f \notin SZC => (f \in seen <=> f \in get_SR)
    BY <1>1, <1>2, <1>4, <1>5, <1>6, <1>7 DEF Seen, SZC, SZ
<1>9. /\ "SIGN" \in nz <=> lo(res) >= 128
      /\ "ZERO" \in nz <=> lo(res) = 0
      /\ \A f : f \notin SZ => (f \in nz <=> f \in get_SR)
    BY NZFlags
<1> HIDE DEF nz
<1>10. /\ "CARRY" \in goal <=> bit = 1
       /\ \A f : f # "CARRY" => (f \in goal <=> f \in nz)
    BY WithFlag
<1> HIDE DEF seen, goal
<1>11. \A f : f \in seen <=> f \in goal BY <1>8, <1>9, <1>10 DEF SZC, SZ
<1>12. seen = goal BY <1>11, SameMembers
<1> QED BY <1>12 DEF seen, goal, nz

\* Sec, Clc, ...
LEMMA SetFlagSeen ==
    ASSUME StatusOK, StatusOK', NEW flag, NEW on \in BOOLEAN, flag \notin SZ,
           UNCHANGED result, sr' = IF on THEN sr \cup {flag} ELSE sr \ {flag}
    PROVE  get_SR' = Cpu!With(get_SR, flag, on)
<1> DEFINE seen == get_SR'
           goal == Cpu!With(get_SR, flag, on)
<1>1. \A f : f \in get_SR <=> Seen(f, sr, result) BY FlagsSeen
<1>2. \A f : f \in get_SR' <=> Seen(f, sr', result) BY FlagsSeenAfter
<1>3. /\ flag \in seen <=> on
      /\ \A f : f # flag => (f \in seen <=> f \in get_SR)
    BY <1>1, <1>2 DEF Seen, SZ
<1>4. /\ flag \in goal <=> on
      /\ \A f : f # flag => (f \in goal <=> f \in get_SR)
    BY WithFlag
<1> HIDE DEF seen, goal
<1>5. \A f : f \in seen <=> f \in goal BY <1>3, <1>4
<1>6. seen = goal BY <1>5, SameMembers
<1> QED BY <1>6 DEF seen, goal

\* Bit: N and V are bits of the operand, Z is of the conjunction.
LEMMA BitFlags ==
    ASSUME NEW z \in Byte, NEW a \in Byte
    PROVE  LET both == BitAnd(z, a)
               res  == both + (IF BitOf(z, 128) = 1 THEN 512 ELSE 0)
           IN  /\ SignOf(res) <=> z >= 128
               /\ ZeroOf(res) <=> both = 0
               /\ BitOf(z, 64) = 1 <=> z % 128 >= 64
<1> DEFINE both == BitAnd(z, a)
           res  == both + (IF BitOf(z, 128) = 1 THEN 512 ELSE 0)
<1>1. both \in Byte BY LogicType
<1>2. z < 128 => both \in 0 .. 127 BY AndBelow
<1>3. /\ BitOf(z, 128) = (IF z >= 128 THEN 1 ELSE 0)
      /\ BitOf(z, 64) = (IF z % 128 >= 64 THEN 1 ELSE 0)
    BY ByteBits
<1> HIDE DEF both
<1>4. res = IF z >= 128 THEN both + 512 ELSE both BY <1>1, <1>3 DEF Byte
<1> HIDE DEF res
<1>5. SignOf(res) <=> z >= 128 BY <1>1, <1>2, <1>4 DEF SignOf, BitOf, Byte
<1>6. ZeroOf(res) <=> both = 0 BY <1>1, <1>4 DEF ZeroOf, lo, Byte
<1> QED BY <1>3, <1>5, <1>6 DEF both, res

LEMMA BitSeen ==
    ASSUME StatusOK, StatusOK', NEW z \in Byte, NEW a \in Byte,
           result' = BitAnd(z, a) + (IF BitOf(z, 128) = 1 THEN 512 ELSE 0),
           sr' = (sr \ {"OVER"}) \cup {f \in {"OVER"} : BitOf(z, 64) = 1}
    PROVE  get_SR' = Cpu!With(Cpu!With(Cpu!With(get_SR, "ZERO", BitAnd(z, a) = 0),
                                       "SIGN", z >= 128), "OVER", z % 128 >= 64)
<1> DEFINE seen == get_SR'
           zero == Cpu!With(get_SR, "ZERO", BitAnd(z, a) = 0)
           sign == Cpu!With(zero, "SIGN", z >= 128)
           goal == Cpu!With(sign, "OVER", z % 128 >= 64)
<1>1. \A f : f \in get_SR <=> Seen(f, sr, result) BY FlagsSeen
<1>2. \A f : f \in get_SR' <=> Seen(f, sr', result') BY FlagsSeenAfter
<1>3. /\ SignOf(result') <=> z >= 128
      /\ ZeroOf(result') <=> BitAnd(z, a) = 0
      /\ BitOf(z, 64) = 1 <=> z % 128 >= 64
    BY BitFlags
<1>4. \A f : f # "OVER" => (f \in sr' <=> f \in sr) OBVIOUS
<1>5. "OVER" \in sr' <=> z % 128 >= 64 BY <1>3
<1>6. /\ "SIGN" \in seen <=> z >= 128
      /\ "ZERO" \in seen <=> BitAnd(z, a) = 0
      /\ "OVER" \in seen <=> z % 128 >= 64
      /\ \A f : f \notin SZ \cup {"OVER"} => (f \in seen <=> f \in get_SR)
    BY <1>1, <1>2, <1>3, <1>4, <1>5 DEF Seen, SZ
<1>7. /\ "ZERO" \in zero <=> BitAnd(z, a) = 0
      /\ \A f : f # "ZERO" => (f \in zero <=> f \in get_SR)
    BY WithFlag
<1> HIDE DEF zero
<1>8. /\ "SIGN" \in sign <=> z >= 128
      /\ \A f : f # "SIGN" => (f \in sign <=> f \in zero)
    <2>1. (z >= 128) \in BOOLEAN BY DEF Byte
    <2> QED BY <2>1, WithFlag, Zenon
<1> HIDE DEF sign
<1>9. /\ "OVER" \in goal <=> z % 128 >= 64
      /\ \A f : f # "OVER" => (f \in goal <=> f \in sign)
    <2>1. (z % 128 >= 64) \in BOOLEAN BY DEF Byte
    <2> QED BY <2>1, WithFlag, Zenon
<1> HIDE DEF seen, goal
<1>10. \A f : f \in seen <=> f \in goal BY <1>6, <1>7, <1>8, <1>9 DEF SZ
<1>11. seen = goal BY <1>10, SameMembers
<1> QED BY <1>11 DEF seen, goal, sign, zero

\* The flags the opcode functions read.
LEMMA ReadFlags ==
    ASSUME StatusOK
    PROVE  /\ carry = Cpu!C
           /\ "DECIMAL" \in get_SR <=> jumpTable = "bcd"
           /\ \A flag \in Flags : check(flag) = (flag \in get_SR)
<1>1. \A f : f \in get_SR <=> Seen(f, sr, result) BY FlagsSeen
<1>2. carry = Cpu!C BY <1>1 DEF carry, Cpu!C, Seen
<1>3. "DECIMAL" \in get_SR <=> jumpTable = "bcd"
    BY <1>1 DEF Seen, StatusOK, DecimalCoherent
<1>4. ASSUME NEW flag \in Flags PROVE check(flag) = (flag \in get_SR)
    <2>1. flag \in get_SR <=> Seen(flag, sr, result) BY <1>1
    <2>2. CASE flag = "SIGN"
        <3>1. check(flag) = ResultSign BY <2>2 DEF check
        <3>2. Seen(flag, sr, result) = ResultSign BY <2>2 DEF Seen, SignOf, ResultSign
        <3>3. ResultSign \in BOOLEAN BY DEF ResultSign
        <3> QED BY <2>1, <3>1, <3>2, <3>3
    <2>3. CASE flag = "ZERO"
        <3>1. check(flag) = ResultZero BY <2>3 DEF check
        <3>2. Seen(flag, sr, result) = ResultZero BY <2>3 DEF Seen, ZeroOf, ResultZero
        <3>3. ResultZero \in BOOLEAN BY DEF ResultZero
        <3> QED BY <2>1, <3>1, <3>2, <3>3
    <2>4. CASE flag \notin SZ
        <3>1. check(flag) = (flag \in sr) BY <2>4 DEF check, SZ
        <3>2. flag \in get_SR <=> flag \in sr BY <2>1, <2>4 DEF Seen, SZ
        <3>3. (flag \in get_SR) = (flag \in sr) BY <3>2
        <3> QED BY <3>1, <3>3, Zenon
    <2> QED BY <2>2, <2>3, <2>4 DEF SZ
<1> QED BY <1>2, <1>3, <1>4

\* The flags of the processor: the unused bits are none.
Shown == get_SR \ {"BRK", "xXx"}

LEMMA ShownWith ==
    ASSUME NEW F, NEW flag, flag \notin {"BRK", "xXx"}, NEW on
    PROVE  Cpu!With(F, flag, on) \ {"BRK", "xXx"} = Cpu!With(F \ {"BRK", "xXx"}, flag, on)
BY DEF Cpu!With

\* The forms in which the lemmas above give the status.
LEMMA ShownFlags ==
    ASSUME NEW v, NEW c, NEW o
    PROVE  /\ get_SR' = Cpu!NZ(get_SR, v) => Shown' = Cpu!NZ(Shown, v)
           /\ get_SR' = Cpu!With(Cpu!NZ(get_SR, v), "CARRY", c)
                 => Shown' = Cpu!With(Cpu!NZ(Shown, v), "CARRY", c)
           /\ get_SR' = Cpu!With(Cpu!With(Cpu!NZ(get_SR, v), "CARRY", c), "OVER", o)
                 => Shown' = Cpu!With(Cpu!With(Cpu!NZ(Shown, v), "CARRY", c), "OVER", o)
<1> DEFINE U == {"BRK", "xXx"}
           sign == Cpu!With(get_SR, "SIGN", v >= 128)
           nz   == Cpu!NZ(get_SR, v)
           nzc  == Cpu!With(nz, "CARRY", c)
           nzco == Cpu!With(nzc, "OVER", o)
<1>1. "SIGN" \notin U /\ "ZERO" \notin U /\ "CARRY" \notin U /\ "OVER" \notin U
    OBVIOUS
<1>2. sign \ U = Cpu!With(Shown, "SIGN", v >= 128) BY <1>1, ShownWith DEF Shown
<1>3. nz \ U = Cpu!NZ(Shown, v)
    <2>1. nz = Cpu!With(sign, "ZERO", v = 0) BY DEF Cpu!NZ
    <2> HIDE DEF sign, nz
    <2>2. nz \ U = Cpu!With(sign \ U, "ZERO", v = 0) BY <1>1, <2>1, ShownWith
    <2> QED BY <1>2, <2>2 DEF Cpu!NZ
<1> HIDE DEF nz
<1>4. nzc \ U = Cpu!With(Cpu!NZ(Shown, v), "CARRY", c) BY <1>1, <1>3, ShownWith
<1> HIDE DEF nzc
<1>5. nzco \ U = Cpu!With(Cpu!With(Cpu!NZ(Shown, v), "CARRY", c), "OVER", o)
    BY <1>1, <1>4, ShownWith
<1> HIDE DEF nzco
<1>6. Shown' = get_SR' \ U BY DEF Shown
<1> QED BY <1>3, <1>4, <1>5, <1>6 DEF nz, nzc, nzco

LEMMA ShownKept == ASSUME UNCHANGED status PROVE Shown' = Shown
BY SameStatusSeen DEF Shown

\* The byte PHP and BRK push.
LEMMA ShownByte ==
    ASSUME StatusOK
    PROVE  Cpu!StatusByte = SrByte(get_SR) /\ SrByte(get_SR) % 256 = SrByte(get_SR)
<1>1. {"BRK", "xXx"} \subseteq get_SR BY DEF StatusOK, StatusShape, get_SR
<1>2. (get_SR \ {"BRK", "xXx"}) \cup {"BRK", "xXx"} = get_SR BY <1>1
<1>3. Cpu!StatusByte = SrByte(get_SR) BY <1>2, SameFlags DEF Cpu!StatusByte, Cpu!Unused
<1>4. SrByte(get_SR) \in Byte BY SrByteType
<1> QED BY <1>3, <1>4 DEF Byte

\* The flags PLP and RTI pull.
LEMMA ShownPulled ==
    ASSUME StatusOK, StatusOK', NEW b, set_SR(SrFlags(b))
    PROVE  Shown' = Cpu!Pulled(b)
<1>1. get_SR' = SrFlags(b) \cup {"BRK", "xXx"} BY PulledSeen
<1>2. Shown' = SrFlags(b) \ {"BRK", "xXx"} BY <1>1 DEF Shown
<1> QED BY <1>2, SameFlags DEF Cpu!Pulled, Cpu!Unused

-----------------------------------------------------------------------------
(* The arithmetic, in the words of Cpu6502 *)

LEMMA ToBcdOfDigits ==
    ASSUME NEW h \in 0 .. 9, NEW l \in 0 .. 9, NEW total \in Int,
           total \in {10 * h + l - 100, 10 * h + l, 10 * h + l + 100}
    PROVE  Cpu!ToBcd(total % 100) = 16 * h + l
<1> DEFINE n == 10 * h + l
<1>1. n \in 0 .. 99 OBVIOUS
<1>2. n \div 10 = h /\ n % 10 = l OBVIOUS
<1>3. total \in {n - 100, n, n + 100} OBVIOUS
<1> HIDE DEF n
<1>4. total % 100 = n BY <1>1, <1>3
<1> QED BY <1>2, <1>4 DEF Cpu!ToBcd

LEMMA CpuBcdIsDecimal ==
    ASSUME NEW b \in Byte, Cpu!IsBcd(b)
    PROVE  Decimal(b) /\ Cpu!Value(b) = Number(b)
BY Digits DEF Cpu!IsBcd, Decimal, Cpu!Value, Number

LEMMA DecimalSum ==
    ASSUME NEW a \in Byte, NEW z \in Byte, NEW c \in {0, 1}, Cpu!IsBcd(a), Cpu!IsBcd(z)
    PROVE  LET rc    == AdcDecimalSum(a, z, c)
               total == Cpu!Value(a) + Cpu!Value(z) + c
           IN  /\ lo(rc) = Cpu!ToBcd(total % 100)
               /\ BitOf(rc, 256) = 1 <=> total > 99
<1> DEFINE rc    == AdcDecimalSum(a, z, c)
           total == Number(a) + Number(z) + c
<1>1. /\ Decimal(a) /\ Cpu!Value(a) = Number(a)
      /\ Decimal(z) /\ Cpu!Value(z) = Number(z)
    BY CpuBcdIsDecimal
<1>2. PICK h \in 0 .. 9, l \in 0 .. 9, K \in {0, 1} :
         /\ lo(rc) = 16 * h + l /\ BitOf(rc, 256) = K
         /\ 10 * h + l + 100 * K = total
    BY <1>1, AdcDecimalNumber
<1> HIDE DEF rc, total
<1>3. total \in Int /\ total \in {10 * h + l, 10 * h + l + 100} BY <1>2
<1>4. lo(rc) = Cpu!ToBcd(total % 100) BY <1>2, <1>3, ToBcdOfDigits
<1>5. BitOf(rc, 256) = 1 <=> total > 99 BY <1>2
<1> QED BY <1>1, <1>4, <1>5 DEF rc, total

LEMMA DecimalDifference ==
    ASSUME NEW a \in Byte, NEW z \in Byte, NEW c \in {0, 1}, Cpu!IsBcd(a), Cpu!IsBcd(z)
    PROVE  LET total == Cpu!Value(a) - Cpu!Value(z) - (1 - c)
           IN  /\ SbcDecimalDigits(a, z, c) = Cpu!ToBcd(total % 100)
               /\ BitOf(SbcDecimalRc(a, z, c), 256) = 1 <=> total >= 0
<1> DEFINE digits == SbcDecimalDigits(a, z, c)
           rc     == SbcDecimalRc(a, z, c)
           total  == Number(a) - Number(z) - (1 - c)
<1>1. /\ Decimal(a) /\ Cpu!Value(a) = Number(a)
      /\ Decimal(z) /\ Cpu!Value(z) = Number(z)
    BY CpuBcdIsDecimal
<1>2. PICK h \in 0 .. 9, l \in 0 .. 9, B \in {0, 1} :
         /\ digits = 16 * h + l /\ BitOf(rc, 256) = 1 - B
         /\ 10 * h + l - 100 * B = total
    BY <1>1, SbcDecimalNumber
<1> HIDE DEF digits, rc, total
<1>3. total \in Int /\ total \in {10 * h + l, 10 * h + l - 100} BY <1>2
<1>4. digits = Cpu!ToBcd(total % 100) BY <1>2, <1>3, ToBcdOfDigits
<1>5. BitOf(rc, 256) = 1 <=> total >= 0 BY <1>2
<1> QED BY <1>1, <1>4, <1>5 DEF digits, rc, total

LEMMA CompareFlags ==
    ASSUME NEW r \in Byte, NEW m \in Byte
    PROVE  LET rc == r + Complement(m) + 1
           IN  /\ rc \in 0 .. 511
               /\ lo(rc) = (r - m) % 256
               /\ BitOf(rc, 256) = 1 <=> r >= m
<1> DEFINE rc == r + Complement(m) + 1
           d == r - m
<1>1. rc = d + 256 /\ d \in -255 .. 255 BY DEF Complement, Byte
<1>2. d % 256 = (IF d < 0 THEN d + 256 ELSE d)
    <2> HIDE DEF d
    <2> QED BY <1>1
<1> HIDE DEF rc
<1>3. rc \in 0 .. 511 BY <1>1
<1>4. /\ lo(rc) = (IF rc > 255 THEN rc - 256 ELSE rc)
      /\ BitOf(rc, 256) = (IF rc > 255 THEN 1 ELSE 0)
    BY <1>3, SumBits
<1>5. d < 0 <=> ~(r >= m) BY DEF Byte
<1> HIDE DEF d
<1> QED BY <1>1, <1>2, <1>3, <1>4, <1>5 DEF rc, d

-----------------------------------------------------------------------------
(* The instruction at pc *)

entry == Sheet[Fetch(ram, pc)]

\* What run() dispatches to and what the sheet lists at the code.
Agrees ==
    /\ Cpu!name = entry.name
    /\ Cpu!mode = row.mode
    /\ Matches(row, entry)

LEMMA SameCodes == ASSUME IInv PROVE DOMAIN Opcodes[jumpTable] = DOMAIN Sheet
<1>1. jumpTable \in DOMAIN Opcodes BY OpcodesAssumption DEF IInv, TypeOK
<1> QED BY <1>1, TablesAssumption

LEMMA AdrWraps == ASSUME NEW a \in Adr PROVE a % 65536 = a /\ a \in Int
<1>1. a \in Int /\ 0 <= a /\ a < 65536 BY AdrIs
<1> QED BY <1>1

LEMMA InsideIsPC == ASSUME pc \in Adr PROVE pc % 65536 = pc /\ pc \in Int
BY AdrWraps

LEMMA RowsAgree ==
    ASSUME IInv, pc \in Adr, Fetch(ram, pc) \in DOMAIN Opcodes[jumpTable]
    PROVE  Agrees
<1> DEFINE code == Fetch(ram, pc)
<1>1. jumpTable \in DOMAIN Opcodes BY OpcodesAssumption DEF IInv, TypeOK
<1>2. code \in DOMAIN Sheet BY SameCodes
<1>3. Matches(Opcodes[jumpTable][code], Sheet[code]) BY <1>1, <1>2, TablesAssumption
<1>4. Opcodes[jumpTable][code].mode = Sheet[code].mode BY <1>3 DEF Matches
<1>5. Cpu!Fetch(ram, pc % 65536) = code BY SameFetch, InsideIsPC
<1>6. Cpu!name = Sheet[code].name /\ Cpu!mode = Sheet[code].mode
    BY <1>5 DEF Cpu!name, Cpu!mode
<1> QED BY <1>3, <1>4, <1>6 DEF Agrees, entry, row

\* One of the opcode functions executes, and run() goes on.
Executing ==
    /\ IInv /\ IInv'
    /\ RowOK(row, jumpTable)
    /\ Agrees
    /\ pc \in Adr
    /\ pc + (IF op.fn = "Brk" THEN 2 ELSE opSize(row.mode)) <= 65536
    /\ row.mode = "IND" => PC16(pc + 1) < 65535
    /\ phase' = "running"

LEMMA StatusHere == ASSUME Executing PROVE StatusOK /\ StatusOK'
BY Parts DEF Executing, IInv, TypeOK, StatusOK

LEMMA Here ==
    ASSUME Executing
    PROVE  /\ StatusOK /\ StatusOK'
           /\ reg["A"] \in Byte /\ reg["X"] \in Byte /\ reg["Y"] \in Byte
           /\ reg["SP"] \in Byte
           /\ reg \in [Registers -> Byte] /\ RamOK(ram) /\ RamOK(ram')
           /\ pc \in Adr /\ pc \in Int /\ pc % 65536 = pc
           /\ carry \in {0, 1} /\ carry = Cpu!C
<1>1. StatusOK /\ reg \in [Registers -> Byte] /\ RamOK(ram)
    BY Parts DEF Executing, CpuOK
<1>2. StatusOK' /\ RamOK(ram') BY DEF Executing, IInv, TypeOK, StatusOK
<1>3. pc \in Adr /\ pc \in Int /\ pc % 65536 = pc BY InsideIsPC DEF Executing
<1>4. reg["A"] \in Byte /\ reg["X"] \in Byte /\ reg["Y"] \in Byte /\ reg["SP"] \in Byte
    BY RegType DEF Executing
<1> QED BY <1>1, <1>2, <1>3, <1>4, CarryBit, ReadFlags

\* What the sheet calls the instruction.
LEMMA Named ==
    ASSUME Executing
    PROVE  /\ op.fn \in DOMAIN Alone => Cpu!name = Alone[op.fn]
           /\ op.fn = "Load" => Cpu!name \in DOMAIN Cpu!Loads /\ op.reg = Cpu!Loads[Cpu!name]
           /\ op.fn = "Store" => Cpu!name \in DOMAIN Cpu!Stores /\ op.reg = Cpu!Stores[Cpu!name]
           /\ op.fn = "Cmp" => /\ Cpu!name \in DOMAIN Cpu!Comparisons
                               /\ op.reg = Cpu!Comparisons[Cpu!name]
           /\ op.fn = "Transfer" => /\ Cpu!name \in DOMAIN Cpu!Transfers
                                    /\ <<op.from, op.to>> = Cpu!Transfers[Cpu!name]
           /\ op.fn = "Inc" /\ row.mode = "NONE" =>
                 /\ Cpu!name \in DOMAIN Cpu!RegisterSteps
                 /\ <<op.reg, op.inc>> = Cpu!RegisterSteps[Cpu!name]
           /\ op.fn = "Inc" /\ row.mode # "NONE" =>
                 /\ Cpu!name \in DOMAIN Cpu!MemorySteps
                 /\ op.inc = Cpu!MemorySteps[Cpu!name]
           /\ op.fn = "Branch" => /\ Cpu!name \in DOMAIN Cpu!Branches
                                  /\ <<op.flag, op.on>> = Cpu!Branches[Cpu!name]
           /\ op.fn = "Set" => /\ Cpu!name \in DOMAIN Cpu!FlagChanges
                               /\ <<op.flag, op.on>> = Cpu!FlagChanges[Exchanged(Cpu!name)]
<1>1. Matches(row, entry) /\ Cpu!name = entry.name BY DEF Executing, Agrees
<1> QED BY <1>1, Zenon DEF Matches, op

LEMMA NamedAlone ==
    ASSUME Executing, NEW fn \in DOMAIN Alone, Executes(fn)
    PROVE  Cpu!name = Alone[fn]
BY Named DEF Executes

LEMMA Going == ASSUME Executing PROVE Cpu!GoesOn
BY DEF Executing, Cpu!GoesOn

LEMMA Proceeding == ASSUME Executing, Proceed PROVE Cpu!Proceeds
<1>1. Cpu!Length(Cpu!mode) = opSize(row.mode) BY SameWords DEF Executing, Agrees
<1>2. pc % 65536 = pc BY Here
<1>3. pc' % 65536 = (pc + opSize(row.mode)) % 65536 BY DEF Proceed
<1>4. Cpu!Following(Cpu!Length(Cpu!mode)) = (pc + opSize(row.mode)) % 65536
    BY <1>1, <1>2 DEF Cpu!Following
<1> QED BY <1>3, <1>4, Going DEF Cpu!Proceeds

LEMMA InCode ==
    ASSUME Executing, NEW n \in 1 .. 2, pc + n <= 65535
    PROVE  Cpu!Following(n) = pc + n /\ Cpu!CodeByte(n) = PC8(pc + n)
<1>1. pc \in Adr /\ pc % 65536 = pc BY Here
<1>2. pc + n \in Adr BY <1>1, AdrIs
<1>3. (pc + n) % 65536 = pc + n BY <1>2, AdrWraps
<1>4. Cpu!Following(n) = pc + n BY <1>1, <1>3 DEF Cpu!Following
<1> QED BY <1>4, SameFetch DEF Cpu!CodeByte, PC8

LEMMA FollowingIs ==
    ASSUME Executing, NEW n
    PROVE  Cpu!Following(n) = (pc + n) % 65536
BY Here DEF Cpu!Following

LEMMA FirstByte ==
    ASSUME Executing, op.fn # "Brk", opSize(row.mode) \in {2, 3}
    PROVE  Cpu!Following(1) = pc + 1 /\ Cpu!CodeByte(1) = PC8(pc + 1)
<1>1. pc + 1 <= 65535 BY Here DEF Executing
<1> QED BY <1>1, InCode

LEMMA OperandWord ==
    ASSUME Executing, op.fn # "Brk", opSize(row.mode) = 3
    PROVE  /\ Cpu!Following(2) = pc + 2 /\ Cpu!CodeWord = PC16(pc + 1)
           /\ PC8(pc + 1) \in Byte /\ PC8(pc + 2) \in Byte
           /\ PC16(pc + 1) = to_adr(PC8(pc + 1), PC8(pc + 2))
<1>1. pc + 2 <= 65535 BY Here DEF Executing
<1>2. pc + 1 + 1 = pc + 2 BY Here
<1>3. /\ Cpu!Following(2) = pc + 2
      /\ Cpu!CodeByte(1) = PC8(pc + 1) /\ Cpu!CodeByte(2) = PC8(pc + 2)
    BY <1>1, InCode, FirstByte
<1>4. PC16(pc + 1) = to_adr(PC8(pc + 1), PC8(pc + 2)) BY <1>2 DEF PC16, PC8
<1>5. PC8(pc + 1) \in Byte /\ PC8(pc + 2) \in Byte
    BY Here, FetchType DEF PC8, Executing, IInv
<1> QED BY <1>3, <1>4, <1>5, SameWords DEF Cpu!CodeWord

LEMMA WordType == ASSUME NEW l \in Byte, NEW h \in Byte PROVE to_adr(l, h) \in Adr
<1>1. l \in 0 .. 255 /\ h \in 0 .. 255 BY DEF Byte
<1>2. h * 256 + l \in Int /\ 0 <= h * 256 + l /\ h * 256 + l < 65536 BY <1>1
<1> QED BY <1>2, AdrIs DEF to_adr

LEMMA AddressOf ==
    ASSUME Executing, row.mode \in OperandModes, op.fn # "Brk",
           NEW ea \in EA(row.mode)
    PROVE  ea \in Cpu!Addresses
<1>1. Cpu!mode = row.mode /\ ea \in ReadEA(row.mode) /\ ea \in Adr
    BY DEF Executing, Agrees, EA
<1>2. ea % 65536 = ea BY <1>1, AdrWraps
<1>3. Cpu!Following(1) = pc + 1 /\ Cpu!CodeByte(1) = PC8(pc + 1)
    BY FirstByte DEF OperandModes, opSize
<1>4. row.mode \in {"ABS", "ABSX", "ABSY"} => Cpu!CodeWord = PC16(pc + 1)
    BY OperandWord DEF opSize
<1>5. \A r : Cpu!Wrapped(r) = lo(PC8(pc + 1) + reg[r])
    BY <1>3 DEF Cpu!Wrapped, lo
<1>6. ASSUME NEW z, NEW p \in Read16(z) PROVE p \in Cpu!Pointers(z)
    <2>1. PICK l \in Read(z), h \in Read(z + 1) : p = to_adr(l, h) BY <1>6 DEF Read16
    <2>2. l \in Cpu!Read(z) /\ h \in Cpu!Read(z + 1) /\ p = Cpu!to_adr(l, h)
        BY <2>1, SameRead, SameWords
    <2> QED BY <2>2 DEF Cpu!Pointers
<1>7. CASE row.mode = "IMM"
    <2>1. ea = pc + 1 BY <1>1, <1>7 DEF ReadEA
    <2>2. Cpu!Addresses = {Cpu!Following(1)} BY <1>1, <1>7 DEF Cpu!Addresses
    <2> QED BY <1>3, <2>1, <2>2
<1>8. CASE row.mode = "ZP"
    <2>1. ea = PC8(pc + 1) BY <1>1, <1>8 DEF ReadEA
    <2>2. Cpu!Addresses = {Cpu!CodeByte(1)} BY <1>1, <1>8 DEF Cpu!Addresses
    <2> QED BY <1>3, <2>1, <2>2
<1>9. CASE row.mode \in {"ZPX", "ZPY"}
    <2>1. ea = lo(PC8(pc + 1) + reg[IF row.mode = "ZPX" THEN "X" ELSE "Y"])
        BY <1>1, <1>9 DEF ReadEA
    <2>2. Cpu!Addresses = {Cpu!Wrapped(IF row.mode = "ZPX" THEN "X" ELSE "Y")}
        BY <1>1, <1>9 DEF Cpu!Addresses
    <2> QED BY <1>5, <2>1, <2>2
<1>10. CASE row.mode = "ABS"
    <2>1. ea = PC16(pc + 1) BY <1>1, <1>10 DEF ReadEA
    <2>2. Cpu!Addresses = {Cpu!CodeWord} BY <1>1, <1>10 DEF Cpu!Addresses
    <2> QED BY <1>4, <1>10, <2>1, <2>2
<1>11. CASE row.mode \in {"ABSX", "ABSY"}
    <2>1. ea = PC16(pc + 1) + reg[IF row.mode = "ABSX" THEN "X" ELSE "Y"]
        BY <1>1, <1>11 DEF ReadEA
    <2>2. Cpu!Addresses = {Cpu!Indexed(Cpu!CodeWord, IF row.mode = "ABSX" THEN "X" ELSE "Y")}
        BY <1>1, <1>11 DEF Cpu!Addresses
    <2> QED BY <1>2, <1>4, <1>11, <2>1, <2>2 DEF Cpu!Indexed
<1>12. CASE row.mode = "INDX"
    <2>1. ea \in Read16(lo(PC8(pc + 1) + reg["X"])) BY <1>1, <1>12 DEF ReadEA
    <2>2. Cpu!Addresses = Cpu!Pointers(Cpu!Wrapped("X")) BY <1>1, <1>12 DEF Cpu!Addresses
    <2> QED BY <1>5, <1>6, <2>1, <2>2
<1>13. CASE row.mode = "INDY"
    <2>1. PICK p \in Read16(PC8(pc + 1)) : ea = p + reg["Y"] BY <1>1, <1>13 DEF ReadEA
    <2>2. Cpu!Addresses = {Cpu!Indexed(q, "Y") : q \in Cpu!Pointers(Cpu!CodeByte(1))}
        BY <1>1, <1>13 DEF Cpu!Addresses
    <2>3. p \in Cpu!Pointers(Cpu!CodeByte(1)) /\ ea = Cpu!Indexed(p, "Y")
        BY <1>2, <1>3, <1>6, <2>1 DEF Cpu!Indexed
    <2> QED BY <2>2, <2>3
<1> QED BY <1>7, <1>8, <1>9, <1>10, <1>11, <1>12, <1>13 DEF OperandModes

LEMMA Operand ==
    ASSUME Executing, row.mode \in OperandModes, op.fn # "Brk", NEW v \in Operands(row.mode)
    PROVE  v \in Byte /\ v \in Cpu!Operand
<1>1. v \in Byte BY OperandType DEF Executing, IInv
<1>2. PICK ea \in EA(row.mode) : v \in Read(ea) BY DEF Operands
<1>3. ea \in Cpu!Addresses /\ v \in Cpu!Read(ea) BY <1>2, AddressOf, SameRead
<1> QED BY <1>1, <1>3 DEF Cpu!Operand

-----------------------------------------------------------------------------
(* One lemma per opcode function: loads, stores, branches and flags *)

LEMMA NopRefines == ASSUME Executing, Nop PROVE Cpu!Nop
<1>1. Cpu!Proceeds BY Proceeding DEF Nop
<1>2. Cpu!name = "NOP" BY NamedAlone DEF Nop, Alone
<1>3. Shown' = Shown BY ShownKept DEF Nop
<1> QED BY <1>1, <1>2, <1>3 DEF Nop, Cpu!Nop, Shown

LEMMA ByteBounds == ASSUME NEW v \in Byte PROVE v \in -1 .. 511 /\ lo(v) = v
BY ByteBits DEF Byte

\* The functions that read an operand.
LEMMA WithOperand ==
    ASSUME Executing, op.fn \in {"Load", "Cmp", "Adc", "Sbc", "And", "Ora", "Eor", "Bit"}
    PROVE  row.mode \in OperandModes /\ op.fn # "Brk"
BY DEF Executing, RowOK, op

LEMMA LoadRefines == ASSUME Executing, Load PROVE Cpu!Load
<1>1. PICK v \in Operands(row.mode) : Assign(op.reg, v) /\ set(SZ, reg["A"], v, 0)
    BY DEF Load
<1>2. v \in Byte /\ v \in Cpu!Operand BY WithOperand, Operand DEF Load, Executes
<1>3. Shown' = Cpu!NZ(Shown, v)
    <2>1. get_SR' = Cpu!NZ(get_SR, lo(v)) BY <1>1, <1>2, ByteBounds, StatusHere, SetNZSeen
    <2> QED BY <1>2, <2>1, ByteBounds, ShownFlags
<1>4. Cpu!Proceeds BY Proceeding DEF Load
<1>5. Cpu!name \in DOMAIN Cpu!Loads /\ op.reg = Cpu!Loads[Cpu!name]
    BY Named DEF Load, Executes
<1>6. reg' = [reg EXCEPT ![Cpu!Loads[Cpu!name]] = v] BY <1>1, <1>5 DEF Assign
<1>7. UNCHANGED ram BY DEF Load
<1> QED BY <1>2, <1>3, <1>4, <1>5, <1>6, <1>7 DEF Cpu!Load, Shown

LEMMA StoreRefines == ASSUME Executing, Store PROVE Cpu!Store
<1>1. PICK ea \in EA(row.mode) : ram' \in Write(ea, reg[op.reg]) BY DEF Store
<1>2. row.mode \in OperandModes /\ op.fn # "Brk"
    BY DEF Store, Executes, Executing, RowOK, op, MemoryModes
<1>3. Cpu!name \in DOMAIN Cpu!Stores /\ op.reg = Cpu!Stores[Cpu!name]
    BY Named DEF Store, Executes
<1>4. ea \in Cpu!Addresses /\ ram' \in Cpu!Write(ea, reg[Cpu!Stores[Cpu!name]])
    BY <1>1, <1>2, <1>3, AddressOf, SameWrite
<1>5. Cpu!Proceeds BY Proceeding DEF Store
<1>6. Shown' = Shown /\ reg' = reg BY ShownKept DEF Store
<1> QED BY <1>3, <1>4, <1>5, <1>6 DEF Cpu!Store, Shown

LEMMA BranchFlags ==
    ASSUME NEW n \in DOMAIN Cpu!Branches
    PROVE  Cpu!Branches[n][1] \in {"SIGN", "OVER", "CARRY", "ZERO"}
<1>1. CASE n = "BPL" \/ n = "BMI" BY <1>1 DEF Cpu!Branches
<1>2. CASE n = "BVC" \/ n = "BVS" BY <1>2 DEF Cpu!Branches
<1>3. CASE n = "BCC" \/ n = "BCS" BY <1>3 DEF Cpu!Branches
<1>4. CASE n = "BNE" \/ n = "BEQ" BY <1>4 DEF Cpu!Branches
<1> QED BY <1>1, <1>2, <1>3, <1>4 DEF Cpu!Branches

LEMMA BranchRefines == ASSUME Executing, Branch PROVE Cpu!Branch
<1> DEFINE flag == Cpu!Branches[Cpu!name][1]
           on   == Cpu!Branches[Cpu!name][2]
           jump == Signed8(PC8(pc + 1))
<1>1. Cpu!name \in DOMAIN Cpu!Branches /\ <<op.flag, op.on>> = Cpu!Branches[Cpu!name]
    BY Named DEF Branch, Executes
<1>2. op.flag = flag /\ op.on = on BY <1>1
<1>3. opSize(row.mode) = 2 /\ op.fn # "Brk"
    BY DEF Branch, Executes, op, Executing, RowOK, opSize
<1>4. flag \in Flags /\ flag \notin {"BRK", "xXx"} BY <1>1, BranchFlags, FlagsAre
<1> HIDE DEF flag, on
<1>5. check(op.flag) = (flag \in Shown)
    <2>1. check(op.flag) = (flag \in get_SR) BY <1>2, <1>4, Here, ReadFlags
    <2>2. (flag \in get_SR) = (flag \in Shown) BY <1>4 DEF Shown
    <2> QED BY <2>1, <2>2
<1>6. PC8(pc + 1) \in Byte BY Here, FetchType DEF PC8, Executing, IInv
<1>7. jump \in Int BY <1>6 DEF Signed8, Byte
<1>8. Cpu!Signed8(Cpu!CodeByte(1)) = jump BY <1>3, FirstByte, SameWords
<1> HIDE DEF jump
<1> DEFINE taken == (flag \in Shown) = on
<1>9. pc' = pc + (2 + (IF taken THEN jump ELSE 0))
    <2>1. taken = (check(op.flag) = op.on) BY <1>2, <1>5
    <2>2. CASE taken
        <3>1. pc' = pc + 2 + jump BY <2>1, <2>2 DEF Branch, jump
        <3> QED BY <1>7, <2>2, <3>1, Here
    <2>3. CASE ~taken
        <3>1. pc' = pc + 2 BY <1>3, <2>1, <2>3 DEF Branch, Proceed
        <3> QED BY <2>3, <3>1, Here
    <2> QED BY <2>2, <2>3
<1> HIDE DEF taken
<1>10. pc' % 65536 = Cpu!Following(2 + (IF taken THEN jump ELSE 0))
    BY <1>9, FollowingIs
<1>11. Shown' = Shown /\ reg' = reg /\ ram' = ram BY ShownKept DEF Branch
<1>12. Cpu!GoesOn BY Going
<1> QED BY <1>1, <1>8, <1>10, <1>11, <1>12 DEF Cpu!Branch, Shown, flag, on, taken

LEMMA ToStackPointer ==
    ASSUME NEW n \in DOMAIN Cpu!Transfers
    PROVE  Cpu!Transfers[n][2] = "SP" <=> n = "TXS"
BY DEF Cpu!Transfers

LEMMA TransferRefines == ASSUME Executing, Transfer PROVE Cpu!Transfer
<1> DEFINE v == reg[Cpu!Transfers[Cpu!name][1]]
<1>1. /\ Cpu!name \in DOMAIN Cpu!Transfers
      /\ <<op.from, op.to>> = Cpu!Transfers[Cpu!name]
    BY Named DEF Transfer, Executes
<1>2. op.from = Cpu!Transfers[Cpu!name][1] /\ op.to = Cpu!Transfers[Cpu!name][2]
    BY <1>1
<1>3. op.to = "SP" <=> Cpu!name = "TXS" BY <1>1, <1>2, ToStackPointer
<1>4. v \in Byte /\ reg[op.from] = v
    BY <1>2, Here DEF Transfer, Executes, op, Executing, RowOK, Registers
<1>5. reg' = [reg EXCEPT ![Cpu!Transfers[Cpu!name][2]] = v] /\ UNCHANGED ram
    BY <1>2 DEF Transfer, Assign
<1> HIDE DEF v
<1>6. CASE Cpu!name = "TXS"
    <2>1. Shown' = Shown BY <1>3, <1>6, ShownKept DEF Transfer, status
    <2> QED BY <1>1, <1>5, <1>6, <2>1, Proceeding DEF Cpu!Transfer, Transfer, Shown, v
<1>7. CASE Cpu!name # "TXS"
    <2>1. set(SZ, reg["A"], v, 0) BY <1>3, <1>4, <1>7 DEF Transfer
    <2>2. get_SR' = Cpu!NZ(get_SR, lo(v)) BY <1>4, <2>1, ByteBounds, StatusHere, SetNZSeen
    <2>3. Shown' = Cpu!NZ(Shown, v) BY <1>4, <2>2, ByteBounds, ShownFlags
    <2>4. Shown' \in CASE Cpu!name = "TXS" -> {Shown}
                       [] Cpu!name = "TSX" -> {Shown, Cpu!NZ(Shown, v)}
                       [] OTHER            -> {Cpu!NZ(Shown, v)}
        BY <1>7, <2>3
    <2> QED BY <1>1, <1>5, <2>4, Proceeding DEF Cpu!Transfer, Transfer, Shown, v
<1> QED BY <1>6, <1>7

LEMMA FlagChangesAre ==
    ASSUME NEW n \in DOMAIN Cpu!FlagChanges
    PROVE  /\ n = "CLI" => Cpu!FlagChanges[Exchanged(n)] = <<"IRQ", TRUE>>
           /\ n = "SEI" => Cpu!FlagChanges[Exchanged(n)] = <<"IRQ", FALSE>>
           /\ n \notin {"CLI", "SEI"} => Exchanged(n) = n
<1>1. n = "CLI" => Exchanged(n) = "SEI" BY DEF Exchanged
<1>2. n = "SEI" => Exchanged(n) = "CLI" BY DEF Exchanged
<1>3. n \notin {"CLI", "SEI"} => Exchanged(n) = n BY DEF Exchanged
<1>4. Cpu!FlagChanges["SEI"] = <<"IRQ", TRUE>> /\ Cpu!FlagChanges["CLI"] = <<"IRQ", FALSE>>
    BY DEF Cpu!FlagChanges
<1> QED BY <1>1, <1>2, <1>3, <1>4

\* SEI and CLI do what the sheet says of each other.
LEMMA SetRefines ==
    ASSUME Executing, Set
    PROVE  Cpu!SetFlag \/ Cpu!FlagCodesExchanged
<1>1. /\ Cpu!name \in DOMAIN Cpu!FlagChanges
      /\ <<op.flag, op.on>> = Cpu!FlagChanges[Exchanged(Cpu!name)]
    BY Named DEF Set, Executes
<1>2. op.flag \notin SZ \cup {"BRK", "xXx"} /\ op.on \in BOOLEAN
    BY DEF Set, Executes, op, Executing, RowOK
<1>3. Shown' = Cpu!With(Shown, op.flag, op.on)
    <2>1. sr' = (IF op.on THEN sr \cup {op.flag} ELSE sr \ {op.flag}) /\ UNCHANGED result
        BY DEF Set
    <2>2. get_SR' = Cpu!With(get_SR, op.flag, op.on) BY <1>2, <2>1, StatusHere, SetFlagSeen
    <2> QED BY <1>2, <2>2, ShownWith DEF Shown
<1>4. UNCHANGED <<reg, ram>> /\ Cpu!Proceeds BY Proceeding DEF Set
<1>5. CASE Cpu!name \notin {"CLI", "SEI"}
    <2>1. <<op.flag, op.on>> = Cpu!FlagChanges[Cpu!name] BY <1>1, <1>5, FlagChangesAre
    <2>2. op.flag = Cpu!FlagChanges[Cpu!name][1] /\ op.on = Cpu!FlagChanges[Cpu!name][2]
        BY <2>1
    <2> QED BY <1>1, <1>3, <1>4, <2>2 DEF Cpu!SetFlag, Shown
<1>6. CASE Cpu!name \in {"CLI", "SEI"}
    <2>1. <<op.flag, op.on>> = IF Cpu!name = "CLI" THEN <<"IRQ", TRUE>> ELSE <<"IRQ", FALSE>>
        BY <1>1, <1>6, FlagChangesAre
    <2>2. op.flag = "IRQ" /\ op.on = (Cpu!name = "CLI") BY <1>6, <2>1
    <2> QED BY <1>3, <1>4, <1>6, <2>2 DEF Cpu!FlagCodesExchanged, Shown
<1> QED BY <1>5, <1>6

LEMMA BitRefines == ASSUME Executing, Bit PROVE Cpu!BitTest
<1>1. PICK z \in Operands(row.mode) :
         /\ result' = BitAnd(z, reg["A"]) + (IF BitOf(z, 128) = 1 THEN 512 ELSE 0)
         /\ sr' = (sr \ {"OVER"}) \cup {f \in {"OVER"} : BitOf(z, 64) = 1}
    BY DEF Bit
<1>2. z \in Byte /\ z \in Cpu!Operand BY WithOperand, Operand DEF Bit, Executes
<1> DEFINE zero(F) == Cpu!With(F, "ZERO", BitAnd(z, reg["A"]) = 0)
           sign(F) == Cpu!With(zero(F), "SIGN", z >= 128)
           goal(F) == Cpu!With(sign(F), "OVER", z % 128 >= 64)
           U       == {"BRK", "xXx"}
<1>3. get_SR' = goal(get_SR) BY <1>1, <1>2, Here, BitSeen
<1>4. goal(get_SR) \ U = goal(Shown)
    <2>1. zero(get_SR) \ U = zero(Shown) BY ShownWith DEF Shown
    <2> HIDE DEF zero
    <2>2. sign(get_SR) \ U = sign(Shown) BY <2>1, ShownWith
    <2> HIDE DEF sign
    <2> QED BY <2>2, ShownWith
<1> HIDE DEF goal
<1>5. Shown' = goal(Shown) BY <1>3, <1>4 DEF Shown
<1>6. Cpu!BitAnd(z, reg["A"]) = BitAnd(z, reg["A"]) BY SameLogic
<1>7. UNCHANGED <<reg, ram>> /\ Cpu!Proceeds BY Proceeding DEF Bit
<1>8. Cpu!name = "BIT" BY NamedAlone DEF Bit, Alone
<1> QED BY <1>2, <1>5, <1>6, <1>7, <1>8 DEF Cpu!BitTest, goal, Shown

LEMMA CmpRefines == ASSUME Executing, Cmp PROVE Cpu!Compare
<1>1. Cpu!name \in DOMAIN Cpu!Comparisons /\ op.reg = Cpu!Comparisons[Cpu!name]
    BY Named DEF Cmp, Executes
<1>2. reg[op.reg] \in Byte BY Here DEF Cmp, Executes, op, Executing, RowOK
<1> DEFINE rc(m) == reg[op.reg] + Complement(m) + 1
<1>3. PICK m \in Operands(row.mode) : set(SZC, reg["A"], rc(m), 0) BY DEF Cmp
<1>4. m \in Byte /\ m \in Cpu!Operand BY WithOperand, Operand DEF Cmp, Executes
<1>5. /\ rc(m) \in 0 .. 511
      /\ lo(rc(m)) = (reg[op.reg] - m) % 256
      /\ BitOf(rc(m), 256) = 1 <=> reg[op.reg] >= m
    BY <1>2, <1>4, CompareFlags
<1> HIDE DEF rc
<1>6. rc(m) \in -1 .. 511 BY <1>5
<1>7. get_SR' = Cpu!With(Cpu!NZ(get_SR, lo(rc(m))), "CARRY", BitOf(rc(m), 256) = 1)
    BY <1>3, <1>6, StatusHere, SetCarrySeen
<1>8. (BitOf(rc(m), 256) = 1) = (reg[op.reg] >= m) BY <1>5
<1>9. Shown' = Cpu!With(Cpu!NZ(Shown, lo(rc(m))), "CARRY", BitOf(rc(m), 256) = 1)
    BY <1>7, ShownFlags
<1>10. Shown' = Cpu!With(Cpu!NZ(Shown, (reg[op.reg] - m) % 256), "CARRY", reg[op.reg] >= m)
    BY <1>5, <1>8, <1>9
<1>11. UNCHANGED <<reg, ram>> /\ Cpu!Proceeds BY Proceeding DEF Cmp
<1> QED BY <1>1, <1>4, <1>10, <1>11 DEF Cpu!Compare, Shown

-----------------------------------------------------------------------------
(* Arithmetic and logic *)

\* A shift leaves the byte and the carry that Cpu6502 says.
LEMMA ShiftedByte ==
    ASSUME NEW fn \in Shifts, NEW v \in Byte, NEW c \in {0, 1}
    PROVE  LET s == Shifted(fn, v, c)
           IN  /\ s.rc \in 0 .. 511
               /\ fn = "Asl" => lo(s.rc) = (2 * v) % 256 /\ ((s.out = 1) = (v >= 128))
               /\ fn = "Lsr" => lo(s.rc) = v \div 2 /\ ((s.out = 1) = (v % 2 = 1))
               /\ fn = "Rol" => lo(s.rc) = ((2 * v) % 256) + c /\ ((s.out = 1) = (v >= 128))
               /\ fn = "Ror" => lo(s.rc) = v \div 2 + 128 * c /\ ((s.out = 1) = (v % 2 = 1))
<1>1. CASE fn = "Asl"
    <2>1. Shifted(fn, v, c) = [rc |-> 2 * v, out |-> BitOf(2 * v, 256)] BY <1>1 DEF Shifted
    <2>2. 2 * v \in 0 .. 511 /\ ((BitOf(2 * v, 256) = 1) = (v >= 128)) BY DEF Byte, BitOf
    <2> QED BY <1>1, <2>1, <2>2 DEF lo
<1>2. CASE fn = "Lsr"
    <2>1. Shifted(fn, v, c) = [rc |-> v \div 2, out |-> v % 2] BY <1>2 DEF Shifted
    <2>2. v \div 2 \in 0 .. 127 BY DEF Byte
    <2>3. lo(v \div 2) = v \div 2 BY <2>2 DEF lo
    <2> QED BY <1>2, <2>1, <2>2, <2>3
<1>3. CASE fn = "Ror"
    <2>1. Shifted(fn, v, c) = [rc |-> (256 * c + v) \div 2, out |-> v % 2] BY <1>3 DEF Shifted
    <2>2. (256 * c + v) \div 2 = v \div 2 + 128 * c BY DEF Byte
    <2>3. v \div 2 + 128 * c \in 0 .. 255 BY DEF Byte
    <2>4. lo(v \div 2 + 128 * c) = v \div 2 + 128 * c BY <2>3 DEF lo
    <2> QED BY <1>3, <2>1, <2>2, <2>3, <2>4
<1>4. CASE fn = "Rol"
    <2>1. Shifted(fn, v, c) = [rc |-> 2 * v + c, out |-> BitOf(2 * v + c, 256)]
        BY <1>4 DEF Shifted
    <2>2. /\ 2 * v + c \in 0 .. 511
          /\ (BitOf(2 * v + c, 256) = 1) = (v >= 128)
          /\ (2 * v + c) % 256 = ((2 * v) % 256) + c
        BY DEF Byte, BitOf
    <2> QED BY <1>4, <2>1, <2>2 DEF lo
<1> QED BY <1>1, <1>2, <1>3, <1>4 DEF Shifts

LEMMA CpuInc ==
    ASSUME Cpu!name \in DOMAIN Cpu!MemorySteps, NEW v
    PROVE  /\ Cpu!Modified(v) = (v + Cpu!MemorySteps[Cpu!name]) % 256
           /\ Cpu!CarryOf(v) = ("CARRY" \in Shown)
<1>1. Cpu!name \notin {"ASL", "LSR", "ROL", "ROR"} BY DEF Cpu!MemorySteps
<1> QED BY <1>1 DEF Cpu!Modified, Cpu!CarryOf, Shown

LEMMA CpuShift ==
    ASSUME NEW fn \in Shifts, Cpu!name = Alone[fn], NEW v \in Byte
    PROVE  LET s == Shifted(fn, v, Cpu!C)
           IN  Cpu!Modified(v) = lo(s.rc) /\ Cpu!CarryOf(v) = (s.out = 1)
<1> DEFINE s == Shifted(fn, v, Cpu!C)
<1>1. Cpu!C \in {0, 1} BY DEF Cpu!C
<1>0. \A n \in {"ASL", "LSR", "ROL", "ROR"} : n \notin DOMAIN Cpu!MemorySteps
    BY DEF Cpu!MemorySteps
<1>2. /\ fn = "Asl" => lo(s.rc) = (2 * v) % 256 /\ ((s.out = 1) = (v >= 128))
      /\ fn = "Lsr" => lo(s.rc) = v \div 2 /\ ((s.out = 1) = (v % 2 = 1))
      /\ fn = "Rol" => lo(s.rc) = ((2 * v) % 256) + Cpu!C /\ ((s.out = 1) = (v >= 128))
      /\ fn = "Ror" => lo(s.rc) = v \div 2 + 128 * Cpu!C /\ ((s.out = 1) = (v % 2 = 1))
    BY <1>1, ShiftedByte
<1> HIDE DEF s
<1>3. CASE fn = "Asl"
    <2>1. Cpu!name = "ASL" /\ Cpu!name \notin DOMAIN Cpu!MemorySteps
        BY <1>0, <1>3 DEF Alone
    <2>2. Cpu!Modified(v) = (2 * v) % 256 BY <2>1 DEF Cpu!Modified
    <2>3. Cpu!CarryOf(v) = (v >= 128) BY <2>1 DEF Cpu!CarryOf
    <2> QED BY <1>2, <1>3, <2>2, <2>3 DEF s
<1>4. CASE fn = "Lsr"
    <2>1. Cpu!name = "LSR" /\ Cpu!name \notin DOMAIN Cpu!MemorySteps
        BY <1>0, <1>4 DEF Alone
    <2>2. Cpu!Modified(v) = v \div 2 BY <2>1 DEF Cpu!Modified
    <2>3. Cpu!CarryOf(v) = (v % 2 = 1) BY <2>1 DEF Cpu!CarryOf
    <2> QED BY <1>2, <1>4, <2>2, <2>3 DEF s
<1>5. CASE fn = "Rol"
    <2>1. Cpu!name = "ROL" /\ Cpu!name \notin DOMAIN Cpu!MemorySteps
        BY <1>0, <1>5 DEF Alone
    <2>2. Cpu!Modified(v) = ((2 * v) % 256) + Cpu!C BY <2>1 DEF Cpu!Modified
    <2>3. Cpu!CarryOf(v) = (v >= 128) BY <2>1 DEF Cpu!CarryOf
    <2> QED BY <1>2, <1>5, <2>2, <2>3 DEF s
<1>6. CASE fn = "Ror"
    <2>1. Cpu!name = "ROR" /\ Cpu!name \notin DOMAIN Cpu!MemorySteps
        BY <1>0, <1>6 DEF Alone
    <2>2. Cpu!Modified(v) = v \div 2 + 128 * Cpu!C BY <2>1 DEF Cpu!Modified
    <2>3. Cpu!CarryOf(v) = (v % 2 = 1) BY <2>1 DEF Cpu!CarryOf
    <2> QED BY <1>2, <1>6, <2>2, <2>3 DEF s
<1> QED BY <1>3, <1>4, <1>5, <1>6 DEF Shifts

\* Inc and Dec keep the carry.
LEMMA CarryKept ==
    ASSUME NEW F, NEW v
    PROVE  Cpu!With(Cpu!NZ(F, v), "CARRY", "CARRY" \in F) = Cpu!NZ(F, v)
<1> DEFINE nz == Cpu!NZ(F, v)
<1>1. "CARRY" \in nz <=> "CARRY" \in F BY NZFlags DEF SZ
<1> HIDE DEF nz
<1>2. Cpu!With(nz, "CARRY", "CARRY" \in F) = nz BY <1>1 DEF Cpu!With
<1> QED BY <1>2 DEF nz

\* Writing reduces its argument to a byte.
LEMMA WriteLo == ASSUME NEW ea, NEW n \in Int PROVE Write(ea, lo(n)) = Write(ea, n)
<1>1. lo(n) % 256 = n % 256 BY DEF lo
<1> QED BY <1>1 DEF Write

LEMMA IncRegisterRefines == ASSUME Executing, IncRegister PROVE Cpu!StepRegister
<1>1. /\ Cpu!name \in DOMAIN Cpu!RegisterSteps
      /\ <<op.reg, op.inc>> = Cpu!RegisterSteps[Cpu!name]
    BY Named DEF IncRegister, Executes
<1>2. op.reg = Cpu!RegisterSteps[Cpu!name][1] /\ op.inc = Cpu!RegisterSteps[Cpu!name][2]
    BY <1>1
<1>3. op.reg \in {"X", "Y"} /\ op.inc \in {-1, 1}
    BY DEF IncRegister, Executes, op, Executing, RowOK
<1> DEFINE n == reg[op.reg] + op.inc
           v == lo(n)
<1>4. n \in -1 .. 511 BY <1>3, Here DEF Byte
<1>5. v = (reg[Cpu!RegisterSteps[Cpu!name][1]] + Cpu!RegisterSteps[Cpu!name][2]) % 256
    BY <1>2 DEF lo
<1> HIDE DEF n
<1>6. v \in Byte BY <1>4, ResultFlags
<1> HIDE DEF v
<1>7. set(SZ, reg["A"], v, 0) /\ Assign(op.reg, v) BY DEF IncRegister, n, v
<1>8. v \in -1 .. 511 /\ lo(v) = v BY <1>6, ByteBounds
<1>9. get_SR' = Cpu!NZ(get_SR, lo(v)) BY <1>7, <1>8, StatusHere, SetNZSeen
<1>10. Shown' = Cpu!NZ(Shown, v) BY <1>8, <1>9, ShownFlags
<1>11. reg' = [reg EXCEPT ![Cpu!RegisterSteps[Cpu!name][1]] = v] BY <1>2, <1>7 DEF Assign
<1>12. UNCHANGED ram /\ Cpu!Proceeds BY Proceeding DEF IncRegister
<1> QED BY <1>1, <1>5, <1>10, <1>11, <1>12 DEF Cpu!StepRegister, Shown

LEMMA IncMemoryRefines == ASSUME Executing, IncMemory PROVE Cpu!ModifyMemory
<1>1. /\ Cpu!name \in DOMAIN Cpu!MemorySteps
      /\ op.inc = Cpu!MemorySteps[Cpu!name]
    BY Named DEF IncMemory, Executes
<1>2. op.inc \in {-1, 1} /\ row.mode \in OperandModes /\ op.fn # "Brk"
    BY DEF IncMemory, Executes, op, Executing, RowOK, MemoryModes
<1>3. PICK ea \in EA(row.mode) : \E v \in Read(ea) :
         ram' \in Write(ea, v + op.inc) /\ set(SZ, reg["A"], v + op.inc, 0)
    BY DEF IncMemory
<1>4. PICK v \in Read(ea) :
         ram' \in Write(ea, v + op.inc) /\ set(SZ, reg["A"], v + op.inc, 0)
    BY <1>3
<1>5. v \in Byte BY ReadType DEF Executing, IInv
<1>6. ea \in Cpu!Addresses /\ v \in Cpu!Read(ea) BY <1>2, AddressOf, SameRead
<1>7. v + op.inc \in -1 .. 511 /\ v + op.inc \in Int BY <1>2, <1>5 DEF Byte
<1>8. lo(v + op.inc) = Cpu!Modified(v) /\ Cpu!CarryOf(v) = ("CARRY" \in Shown)
    BY <1>1, CpuInc DEF lo
<1>9. get_SR' = Cpu!NZ(get_SR, lo(v + op.inc)) BY <1>4, <1>7, StatusHere, SetNZSeen
<1>10. Shown' = Cpu!NZ(Shown, lo(v + op.inc)) BY <1>9, ShownFlags
<1>11. Shown' = Cpu!With(Cpu!NZ(Shown, Cpu!Modified(v)), "CARRY", Cpu!CarryOf(v))
    BY <1>8, <1>10, CarryKept
<1>12. ram' \in Cpu!Write(ea, Cpu!Modified(v))
    BY <1>4, <1>7, <1>8, WriteLo, SameWrite
<1>13. UNCHANGED reg /\ Cpu!Proceeds BY Proceeding DEF IncMemory
<1>14. Cpu!Modifies BY <1>1 DEF Cpu!Modifies
<1>15. Cpu!mode # "ACC" BY <1>2 DEF Executing, Agrees, OperandModes
<1> QED BY <1>6, <1>11, <1>12, <1>13, <1>14, <1>15 DEF Cpu!ModifyMemory, Shown

LEMMA ShiftNames ==
    ASSUME Executing, NEW fn \in Shifts, op.fn = fn
    PROVE  Cpu!name = Alone[fn] /\ Cpu!Modifies
<1>1. fn \in DOMAIN Alone /\ Alone[fn] \in {"ASL", "LSR", "ROL", "ROR"} BY DEF Shifts, Alone
<1>2. Cpu!name = Alone[fn] BY <1>1, Named
<1> QED BY <1>1, <1>2 DEF Cpu!Modifies

LEMMA ShiftRegisterRefines ==
    ASSUME Executing, NEW fn \in Shifts, ShiftRegister(fn)
    PROVE  Cpu!ModifyAccumulator
<1>1. Cpu!Proceeds /\ Cpu!name = Alone[fn] /\ Cpu!Modifies
    BY Proceeding, ShiftNames DEF ShiftRegister, Executes
<1>2. Cpu!mode = "ACC" BY DEF ShiftRegister, Executing, Agrees
<1> DEFINE s == Shifted(fn, reg["A"], carry)
<1>3. Assign("A", lo(s.rc)) /\ result' = s.rc /\ sr' = WithCarry(sr, s.out)
    BY DEF ShiftRegister
<1>4. s.rc \in 0 .. 511 BY Here, ShiftedByte
<1>5. Cpu!Modified(reg["A"]) = lo(s.rc) /\ Cpu!CarryOf(reg["A"]) = (s.out = 1)
    BY <1>1, Here, CpuShift
<1> HIDE DEF s
<1>6. get_SR' = Cpu!With(Cpu!NZ(get_SR, lo(s.rc)), "CARRY", s.out = 1)
    BY <1>3, <1>4, StatusHere, ShiftSeen
<1>7. Shown' = Cpu!With(Cpu!NZ(Shown, lo(s.rc)), "CARRY", s.out = 1) BY <1>6, ShownFlags
<1>8. Shown' = Cpu!With(Cpu!NZ(Shown, Cpu!Modified(reg["A"])), "CARRY",
                        Cpu!CarryOf(reg["A"]))
    BY <1>5, <1>7
<1>9. reg' = [reg EXCEPT !["A"] = Cpu!Modified(reg["A"])] BY <1>3, <1>5 DEF Assign
<1>10. UNCHANGED ram BY DEF ShiftRegister
<1> QED BY <1>1, <1>2, <1>8, <1>9, <1>10 DEF Cpu!ModifyAccumulator, Shown

LEMMA ShiftMemoryRefines ==
    ASSUME Executing, NEW fn \in Shifts, ShiftMemory(fn)
    PROVE  Cpu!ModifyMemory
<1>1. Cpu!Proceeds /\ Cpu!name = Alone[fn] /\ Cpu!Modifies
    BY Proceeding, ShiftNames DEF ShiftMemory, Executes
<1>2. row.mode \in OperandModes /\ op.fn # "Brk"
    BY DEF ShiftMemory, Executes, op, Executing, RowOK, MemoryModes, Shifts
<1>3. Cpu!mode # "ACC" BY <1>2 DEF Executing, Agrees, OperandModes
<1> DEFINE s(v) == Shifted(fn, v, carry)
<1>4. PICK ea \in EA(row.mode) : \E v \in Read(ea) :
         ram' \in Write(ea, s(v).rc) /\ result' = s(v).rc /\ sr' = WithCarry(sr, s(v).out)
    BY DEF ShiftMemory
<1>5. PICK v \in Read(ea) :
         ram' \in Write(ea, s(v).rc) /\ result' = s(v).rc /\ sr' = WithCarry(sr, s(v).out)
    BY <1>4
<1>6. v \in Byte BY ReadType DEF Executing, IInv
<1>7. ea \in Cpu!Addresses /\ v \in Cpu!Read(ea) BY <1>2, AddressOf, SameRead
<1>8. s(v).rc \in 0 .. 511 BY <1>6, Here, ShiftedByte
<1>9. Cpu!Modified(v) = lo(s(v).rc) /\ Cpu!CarryOf(v) = (s(v).out = 1)
    BY <1>1, <1>6, Here, CpuShift
<1> HIDE DEF s
<1>10. get_SR' = Cpu!With(Cpu!NZ(get_SR, lo(s(v).rc)), "CARRY", s(v).out = 1)
    BY <1>5, <1>8, StatusHere, ShiftSeen
<1>11. Shown' = Cpu!With(Cpu!NZ(Shown, lo(s(v).rc)), "CARRY", s(v).out = 1)
    BY <1>10, ShownFlags
<1>12. Shown' = Cpu!With(Cpu!NZ(Shown, Cpu!Modified(v)), "CARRY", Cpu!CarryOf(v))
    BY <1>9, <1>11
<1>13. s(v).rc \in Int BY <1>8
<1>14. ram' \in Cpu!Write(ea, Cpu!Modified(v)) BY <1>5, <1>9, <1>13, WriteLo, SameWrite
<1>15. UNCHANGED reg BY DEF ShiftMemory
<1> QED BY <1>1, <1>3, <1>7, <1>12, <1>14, <1>15 DEF Cpu!ModifyMemory, Shown

\* The three operations of Cpu!Logical on the accumulator and m.
Combined(fn, m) ==
    IF fn = "And" THEN BitAnd(reg["A"], m)
    ELSE IF fn = "Ora" THEN BitOr(reg["A"], m) ELSE BitXor(reg["A"], m)

LEMMA LogicRefines ==
    ASSUME Executing, NEW fn \in {"And", "Ora", "Eor"}, op.fn = fn, Proceed, UNCHANGED ram,
           NEW m \in Operands(row.mode),
           Assign("A", Combined(fn, m)), set(SZ, reg["A"], Combined(fn, m), 0)
    PROVE  Cpu!Logical
<1> DEFINE v == Combined(fn, m)
           w == CASE Cpu!name = "AND" -> Cpu!BitAnd(reg["A"], m)
                  [] Cpu!name = "ORA" -> Cpu!BitOr(reg["A"], m)
                  [] Cpu!name = "EOR" -> Cpu!BitXor(reg["A"], m)
<1>1. Cpu!Proceeds /\ Cpu!name = Alone[fn]
    BY Proceeding, NamedAlone DEF Alone, Executes
<1>2. m \in Byte /\ m \in Cpu!Operand BY WithOperand, Operand
<1>3. v \in Byte BY <1>2, Here, LogicType DEF Combined
<1>4. w = v
    <2>1. CASE fn = "And"
        <3>1. Cpu!name = "AND" BY <1>1, <2>1 DEF Alone
        <3>2. w = Cpu!BitAnd(reg["A"], m) BY <3>1, Zenon
        <3> QED BY <2>1, <3>2, SameLogic DEF Combined
    <2>2. CASE fn = "Ora"
        <3>1. Cpu!name = "ORA" BY <1>1, <2>2 DEF Alone
        <3>2. w = Cpu!BitOr(reg["A"], m) BY <3>1, Zenon
        <3> QED BY <2>2, <3>2, SameLogic DEF Combined
    <2>3. CASE fn = "Eor"
        <3>1. Cpu!name = "EOR" BY <1>1, <2>3 DEF Alone
        <3>2. w = Cpu!BitXor(reg["A"], m) BY <3>1, Zenon
        <3> QED BY <2>3, <3>2, SameLogic DEF Combined
    <2> QED BY <2>1, <2>2, <2>3
<1> HIDE DEF v, w
<1>5. v \in -1 .. 511 /\ lo(v) = v BY <1>3, ByteBounds
<1>6. get_SR' = Cpu!NZ(get_SR, lo(v)) BY <1>5, StatusHere, SetNZSeen DEF v
<1>7. Shown' = Cpu!NZ(Shown, w) BY <1>4, <1>5, <1>6, ShownFlags
<1>8. reg' = [reg EXCEPT !["A"] = w] BY <1>4 DEF Assign, v
<1>9. Cpu!name \in {"AND", "ORA", "EOR"} BY <1>1 DEF Alone
<1> QED BY <1>1, <1>2, <1>7, <1>8, <1>9, Zenon DEF Cpu!Logical, w, Shown

LEMMA AndRefines == ASSUME Executing, And PROVE Cpu!Logical
<1>1. op.fn = "And" /\ Proceed /\ UNCHANGED ram BY DEF And, Logic, Executes
<1>2. PICK m \in Operands(row.mode) :
         /\ Assign("A", BitAnd(reg["A"], m))
         /\ set(SZ, reg["A"], BitAnd(reg["A"], m), 0)
    BY DEF And, Logic
<1>3. Combined("And", m) = BitAnd(reg["A"], m) BY DEF Combined
<1> QED BY <1>1, <1>2, <1>3, LogicRefines

LEMMA OraRefines == ASSUME Executing, Ora PROVE Cpu!Logical
<1>1. op.fn = "Ora" /\ Proceed /\ UNCHANGED ram BY DEF Ora, Logic, Executes
<1>2. PICK m \in Operands(row.mode) :
         /\ Assign("A", BitOr(reg["A"], m))
         /\ set(SZ, reg["A"], BitOr(reg["A"], m), 0)
    BY DEF Ora, Logic
<1>3. Combined("Ora", m) = BitOr(reg["A"], m) BY DEF Combined
<1> QED BY <1>1, <1>2, <1>3, LogicRefines

LEMMA EorRefines == ASSUME Executing, Eor PROVE Cpu!Logical
<1>1. op.fn = "Eor" /\ Proceed /\ UNCHANGED ram BY DEF Eor, Logic, Executes
<1>2. PICK m \in Operands(row.mode) :
         /\ Assign("A", BitXor(reg["A"], m))
         /\ set(SZ, reg["A"], BitXor(reg["A"], m), 0)
    BY DEF Eor, Logic
<1>3. Combined("Eor", m) = BitXor(reg["A"], m) BY DEF Combined
<1> QED BY <1>1, <1>2, <1>3, LogicRefines

\* run() dispatches ADC and SBC through the table that D asks for.
LEMMA DecimalMode ==
    ASSUME Executing, op.fn \in {"Adc", "Sbc"}
    PROVE  op.dec <=> "DECIMAL" \in Shown
<1>1. op.dec = (jumpTable = "bcd") BY DEF Executing, RowOK, op
<1>2. "DECIMAL" \in get_SR <=> jumpTable = "bcd" BY StatusHere, ReadFlags
<1>3. "DECIMAL" \in get_SR <=> "DECIMAL" \in Shown BY DEF Shown
<1> QED BY <1>1, <1>2, <1>3

LEMMA ResultRefines ==
    ASSUME Executing, NEW rc \in 0 .. 511, NEW z, NEW total, NEW carries, NEW signed,
           Assign("A", lo(rc)), set(SZCV, reg["A"], rc, z),
           lo(rc) = total % 256,
           (BitOf(rc, 256) = 1) = carries,
           Overflow(reg["A"], rc, z) = (signed \notin -128 .. 127)
    PROVE  Cpu!Result(total, carries, signed)
<1>1. rc \in -1 .. 511 OBVIOUS
<1>2. get_SR' = Cpu!With(Cpu!With(Cpu!NZ(get_SR, lo(rc)), "CARRY", BitOf(rc, 256) = 1),
                         "OVER", Overflow(reg["A"], rc, z))
    BY <1>1, StatusHere, SetAllSeen
<1>3. Shown' = Cpu!With(Cpu!With(Cpu!NZ(Shown, lo(rc)), "CARRY", BitOf(rc, 256) = 1),
                        "OVER", Overflow(reg["A"], rc, z))
    BY <1>2, ShownFlags
<1>4. Shown' = Cpu!With(Cpu!With(Cpu!NZ(Shown, total % 256), "CARRY", carries),
                        "OVER", signed \notin -128 .. 127)
    BY <1>3, Zenon
<1>5. reg' = [reg EXCEPT !["A"] = total % 256] BY Zenon DEF Assign
<1> QED BY <1>4, <1>5, Zenon DEF Cpu!Result, Shown

LEMMA AdcRefines == ASSUME Executing, Adc PROVE Cpu!AddBinary
<1> DEFINE a == reg["A"]
           c == carry
           rc(m) == AdcBinary(a, m, c)
<1>1. PICK m \in Operands(row.mode) : Assign("A", lo(rc(m))) /\ set(SZCV, a, rc(m), m)
    BY DEF Adc
<1>2. m \in Byte /\ m \in Cpu!Operand /\ a \in Byte /\ c \in {0, 1} /\ c = Cpu!C
    BY WithOperand, Operand, Here DEF Adc, Executes
<1>3. rc(m) = a + m + c /\ rc(m) \in 0 .. 511 BY <1>2, AdcSum
<1>4. lo(rc(m)) = (a + m + c) % 256 BY <1>3 DEF lo
<1>5. (BitOf(rc(m), 256) = 1) = (a + m + c > 255)
    <2>1. BitOf(rc(m), 256) = (IF rc(m) > 255 THEN 1 ELSE 0) BY <1>3, SumBits
    <2> QED BY <1>3, <2>1
<1>6. Overflow(a, rc(m), m) = (Signed8(a) + Signed8(m) + c \notin -128 .. 127)
    <2>1. Overflow(a, rc(m), m) <=> Signed8(a) + Signed8(m) + c \notin -128 .. 127
        BY <1>2, <1>3, OverflowIsSigned
    <2>2. Overflow(a, rc(m), m) \in BOOLEAN BY DEF Overflow
    <2> QED BY <2>1, <2>2
<1> HIDE DEF rc
<1>7. Cpu!Result(a + m + c, a + m + c > 255, Signed8(a) + Signed8(m) + c)
    BY <1>1, <1>3, <1>4, <1>5, <1>6, ResultRefines
<1>8. Cpu!Signed8(a) = Signed8(a) /\ Cpu!Signed8(m) = Signed8(m) BY SameWords
<1>9. Cpu!Proceeds /\ Cpu!name = "ADC" /\ UNCHANGED ram
    BY Proceeding, NamedAlone DEF Adc, Alone
<1>10. "DECIMAL" \notin Shown BY DecimalMode DEF Adc, Executes
<1>11. Cpu!Result(a + m + Cpu!C, a + m + Cpu!C > 255,
                  Cpu!Signed8(a) + Cpu!Signed8(m) + Cpu!C)
    BY <1>2, <1>7, <1>8, Zenon
<1> QED BY <1>2, <1>9, <1>10, <1>11, Zenon DEF Cpu!AddBinary, Shown

LEMMA SbcRefines == ASSUME Executing, Sbc PROVE Cpu!SubtractBinary
<1> DEFINE a == reg["A"]
           c == carry
           rc(m) == AdcBinary(a, Complement(m), c)
<1>1. PICK m \in Operands(row.mode) :
         Assign("A", lo(rc(m))) /\ set(SZCV, a, rc(m), Complement(m))
    BY DEF Sbc
<1>2. m \in Byte /\ m \in Cpu!Operand /\ a \in Byte /\ c \in {0, 1} /\ c = Cpu!C
    BY WithOperand, Operand, Here DEF Sbc, Executes
<1> DEFINE d == a - m - (1 - c)
<1>3. rc(m) = 256 + d /\ rc(m) \in 0 .. 511 /\ d \in Int
    <2>1. rc(m) = 256 + d /\ rc(m) \in 0 .. 511 BY <1>2, SbcDifference
    <2> HIDE DEF rc
    <2>2. d \in Int BY <1>2 DEF Byte
    <2> QED BY <2>1, <2>2
<1>4. Overflow(a, rc(m), Complement(m)) =
         (Signed8(a) - Signed8(m) - (1 - c) \notin -128 .. 127)
    <2>1. Overflow(a, rc(m), Complement(m)) <=>
             Signed8(a) - Signed8(m) - (1 - c) \notin -128 .. 127
        BY <1>2, SbcOverflow
    <2>2. Overflow(a, rc(m), Complement(m)) \in BOOLEAN BY DEF Overflow
    <2> QED BY <2>1, <2>2
<1> HIDE DEF rc, d
<1>5. lo(rc(m)) = d % 256
    <2>1. (256 + d) % 256 = d % 256 BY <1>3
    <2> QED BY <1>3, <2>1 DEF lo
<1>6. (BitOf(rc(m), 256) = 1) = (d >= 0)
    <2>1. BitOf(rc(m), 256) = (IF rc(m) > 255 THEN 1 ELSE 0) BY <1>3, SumBits
    <2> QED BY <1>3, <2>1
<1>7. Cpu!Result(d, d >= 0, Signed8(a) - Signed8(m) - (1 - c))
    BY <1>1, <1>3, <1>4, <1>5, <1>6, ResultRefines
<1>8. Cpu!Signed8(a) = Signed8(a) /\ Cpu!Signed8(m) = Signed8(m) BY SameWords
<1>9. Cpu!Proceeds /\ Cpu!name = "SBC" /\ UNCHANGED ram
    BY Proceeding, NamedAlone DEF Sbc, Alone
<1>10. "DECIMAL" \notin Shown BY DecimalMode DEF Sbc, Executes
<1>11. Cpu!Result(a - m - (1 - Cpu!C), a - m - (1 - Cpu!C) >= 0,
                  Cpu!Signed8(a) - Cpu!Signed8(m) - (1 - Cpu!C))
    BY <1>2, <1>7, <1>8, Zenon DEF d
<1> QED BY <1>2, <1>9, <1>10, <1>11, Zenon DEF Cpu!SubtractBinary, Shown

\* All that decimal arithmetic says of the flags.
LEMMA DecimalFlags ==
    ASSUME StatusOK, StatusOK', NEW a, NEW res, NEW z, set(SZCV, a, res, z)
    PROVE  /\ ("CARRY" \in Shown') = (BitOf(res, 256) = 1)
           /\ Shown' \ (Cpu!Open \cup {"CARRY"}) = Shown \ (Cpu!Open \cup {"CARRY"})
<1> DEFINE seen == get_SR'
           flags == get_SR
<1>1. \A f : f \in flags <=> Seen(f, sr, result) BY FlagsSeen
<1>2. \A f : f \in seen <=> Seen(f, sr', result') BY FlagsSeenAfter
<1>3. /\ ("CARRY" \in sr') = (BitOf(res, 256) = 1)
      /\ \A f : f \notin SZCV => (f \in sr' <=> f \in sr)
    BY DEF set, SZCV, SZC, SZ
<1>4. ("CARRY" \in seen) = (BitOf(res, 256) = 1) BY <1>2, <1>3 DEF Seen
<1>5. \A f : f \notin SZCV => (f \in seen <=> f \in flags)
    BY <1>1, <1>2, <1>3 DEF Seen, SZCV, SZC, SZ
<1> HIDE DEF seen, flags
<1>6. seen \ (Cpu!Open \cup {"CARRY"}) = flags \ (Cpu!Open \cup {"CARRY"})
    BY <1>5 DEF Cpu!Open, SZCV, SZC, SZ
<1>7. ("CARRY" \in Shown') = ("CARRY" \in seen) BY DEF Shown, seen
<1>8. Shown' = seen \ {"BRK", "xXx"} /\ Shown = flags \ {"BRK", "xXx"}
    BY DEF Shown, seen, flags
<1>9. \A S, T, U, W : S \ U = T \ U => (S \ W) \ U = (T \ W) \ U OBVIOUS
<1> QED BY <1>4, <1>6, <1>7, <1>8, <1>9

LEMMA AdcDecimalRefines == ASSUME Executing, AdcDecimal PROVE Cpu!AddDecimal
<1> DEFINE a == reg["A"]
           c == carry
           rc(m) == AdcDecimalSum(a, m, c)
           total(m) == Cpu!Value(a) + Cpu!Value(m) + c
<1>1. PICK m \in Operands(row.mode) : Assign("A", lo(rc(m))) /\ set(SZCV, a, rc(m), m)
    BY DEF AdcDecimal
<1>2. m \in Byte /\ m \in Cpu!Operand /\ a \in Byte /\ c \in {0, 1} /\ c = Cpu!C
    BY WithOperand, Operand, Here DEF AdcDecimal, Executes
<1>3. Cpu!IsBcd(a) /\ Cpu!IsBcd(m) =>
         /\ lo(rc(m)) = Cpu!ToBcd(total(m) % 100)
         /\ (BitOf(rc(m), 256) = 1) = (total(m) > 99)
    BY <1>2, DecimalSum
<1>4. lo(rc(m)) \in Cpu!Byte
    <2>1. rc(m) \in Int BY <1>2, AluType
    <2> QED BY <2>1, LoByte, SameWords
<1> HIDE DEF rc, total
<1>5. /\ ("CARRY" \in Shown') = (BitOf(rc(m), 256) = 1)
      /\ Shown' \ (Cpu!Open \cup {"CARRY"}) = Shown \ (Cpu!Open \cup {"CARRY"})
    BY <1>1, StatusHere, DecimalFlags
<1>6. reg' = [reg EXCEPT !["A"] = lo(rc(m))] BY <1>1 DEF Assign
<1>7. \E v \in Cpu!Byte :
         /\ Cpu!IsBcd(a) /\ Cpu!IsBcd(m) => v = Cpu!ToBcd(total(m) % 100)
         /\ reg' = [reg EXCEPT !["A"] = v]
    BY <1>3, <1>4, <1>6
<1>8. Cpu!IsBcd(a) /\ Cpu!IsBcd(m) => ("CARRY" \in Shown') = (total(m) > 99)
    BY <1>3, <1>5
<1>9. Cpu!DecimalResult(m, total(m), total(m) > 99)
    BY <1>5, <1>7, <1>8, Zenon DEF Cpu!DecimalResult, Shown
<1>10. Cpu!Proceeds /\ Cpu!name = "ADC" /\ UNCHANGED ram
    BY Proceeding, NamedAlone DEF AdcDecimal, Alone
<1>11. "DECIMAL" \in Shown BY DecimalMode DEF AdcDecimal, Executes
<1>12. total(m) = Cpu!Value(reg["A"]) + Cpu!Value(m) + Cpu!C BY <1>2 DEF total
<1> QED BY <1>2, <1>9, <1>10, <1>11, <1>12, Zenon DEF Cpu!AddDecimal, Shown

LEMMA SbcDecimalRefines == ASSUME Executing, SbcDecimal PROVE Cpu!SubtractDecimal
<1> DEFINE a == reg["A"]
           c == carry
           digits(m) == SbcDecimalDigits(a, m, c)
           rc(m) == SbcDecimalRc(a, m, c)
           total(m) == Cpu!Value(a) - Cpu!Value(m) - (1 - c)
<1>1. PICK m \in Operands(row.mode) : Assign("A", digits(m)) /\ set(SZCV, a, rc(m), m)
    BY DEF SbcDecimal
<1>2. m \in Byte /\ m \in Cpu!Operand /\ a \in Byte /\ c \in {0, 1} /\ c = Cpu!C
    BY WithOperand, Operand, Here DEF SbcDecimal, Executes
<1>3. Cpu!IsBcd(a) /\ Cpu!IsBcd(m) =>
         /\ digits(m) = Cpu!ToBcd(total(m) % 100)
         /\ (BitOf(rc(m), 256) = 1) = (total(m) >= 0)
    BY <1>2, DecimalDifference
<1>4. digits(m) \in Cpu!Byte BY <1>2, SbcDigitsType, SameWords
<1> HIDE DEF digits, rc, total
<1>5. /\ ("CARRY" \in Shown') = (BitOf(rc(m), 256) = 1)
      /\ Shown' \ (Cpu!Open \cup {"CARRY"}) = Shown \ (Cpu!Open \cup {"CARRY"})
    BY <1>1, StatusHere, DecimalFlags
<1>6. reg' = [reg EXCEPT !["A"] = digits(m)] BY <1>1 DEF Assign
<1>7. \E v \in Cpu!Byte :
         /\ Cpu!IsBcd(a) /\ Cpu!IsBcd(m) => v = Cpu!ToBcd(total(m) % 100)
         /\ reg' = [reg EXCEPT !["A"] = v]
    BY <1>3, <1>4, <1>6
<1>8. Cpu!IsBcd(a) /\ Cpu!IsBcd(m) => ("CARRY" \in Shown') = (total(m) >= 0)
    BY <1>3, <1>5
<1>9. Cpu!DecimalResult(m, total(m), total(m) >= 0)
    BY <1>5, <1>7, <1>8, Zenon DEF Cpu!DecimalResult, Shown
<1>10. Cpu!Proceeds /\ Cpu!name = "SBC" /\ UNCHANGED ram
    BY Proceeding, NamedAlone DEF SbcDecimal, Alone
<1>11. "DECIMAL" \in Shown BY DecimalMode DEF SbcDecimal, Executes
<1>12. total(m) = Cpu!Value(reg["A"]) - Cpu!Value(m) - (1 - Cpu!C) BY <1>2 DEF total
<1> QED BY <1>2, <1>9, <1>10, <1>11, <1>12, Zenon DEF Cpu!SubtractDecimal, Shown

-----------------------------------------------------------------------------
(* Stack and control *)

\* The cells of the stack: inside page one, both ways to index it agree.
LEMMA Cells ==
    ASSUME Executing
    PROVE  /\ \A i \in -3 .. 3 : Cpu!Slot(i) = 256 + (reg["SP"] + i)
           /\ \A i \in -3 .. 3 : reg["SP"] + i \in 0 .. 255 => Cpu!Cell(i) = Cpu!Slot(i)
           /\ Cpu!Cell(0) = 256 + reg["SP"] /\ Cpu!Cell(1) = 256 + SP(1)
           /\ \A n : Cpu!SP(n) = SP(n)
<1>1. reg["SP"] \in 0 .. 255 BY Here DEF Byte
<1>2. \A i \in -3 .. 3 : reg["SP"] + i \in 0 .. 255 => (reg["SP"] + i) % 256 = reg["SP"] + i
    BY <1>1
<1>3. (reg["SP"] + 0) % 256 = reg["SP"] BY <1>1
<1> QED BY <1>2, <1>3 DEF Cpu!Slot, Cpu!Cell, Cpu!SP, SP

LEMMA ByteKept == ASSUME NEW v \in Byte PROVE v % 256 = v
BY DEF Byte

LEMMA PhaRefines == ASSUME Executing, Pha PROVE Cpu!PushA
<1>1. Cpu!Proceeds BY Proceeding DEF Pha
<1>2. Cpu!name = "PHA" BY NamedAlone DEF Pha, Alone
<1>3. Shown' = Shown BY ShownKept DEF Pha
<1>4. reg["A"] % 256 = reg["A"] BY Here, ByteKept
<1>5. ram' = Cpu!Stored(ram, Cpu!Cell(0), reg["A"])
    BY <1>4, Cells, SameStored DEF Pha, Push
<1>6. reg' = [reg EXCEPT !["SP"] = Cpu!SP(-1)] BY Cells DEF Pha, Assign
<1> QED BY <1>1, <1>2, <1>3, <1>5, <1>6 DEF Cpu!PushA, Shown

LEMMA PlaRefines == ASSUME Executing, Pla PROVE Cpu!PullA
<1>1. Cpu!Proceeds BY Proceeding DEF Pla
<1>2. Cpu!name = "PLA" BY NamedAlone DEF Pla, Alone
<1>3. Shown' = Shown BY ShownKept DEF Pla
<1>4. Cpu!Top(1) = Stack(SP(1)) BY Cells, SameWords DEF Cpu!Top, Stack
<1>5. reg' = [reg EXCEPT !["SP"] = Cpu!SP(1), !["A"] = Cpu!Top(1)] BY <1>4, Cells DEF Pla
<1>6. UNCHANGED ram BY DEF Pla
<1> QED BY <1>1, <1>2, <1>3, <1>5, <1>6 DEF Cpu!PullA, Shown

LEMMA PhpRefines == ASSUME Executing, Php PROVE Cpu!PushP
<1>1. Cpu!Proceeds BY Proceeding DEF Php
<1>2. Cpu!name = "PHP" BY NamedAlone DEF Php, Alone
<1>3. Shown' = Shown BY ShownKept DEF Php
<1>4. SrByte(get_SR) % 256 = Cpu!StatusByte BY StatusHere, ShownByte
<1>5. ram' = Cpu!Stored(ram, Cpu!Cell(0), Cpu!StatusByte)
    BY <1>4, Cells, SameStored DEF Php, Push
<1>6. reg' = [reg EXCEPT !["SP"] = Cpu!SP(-1)] BY Cells DEF Php, Assign
<1> QED BY <1>1, <1>2, <1>3, <1>5, <1>6 DEF Cpu!PushP, Shown

LEMMA PlpRefines == ASSUME Executing, Plp PROVE Cpu!PullP
<1>1. Cpu!Proceeds BY Proceeding DEF Plp
<1>2. Cpu!name = "PLP" BY NamedAlone DEF Plp, Alone
<1>3. Cpu!Top(1) = Stack(SP(1)) BY Cells, SameWords DEF Cpu!Top, Stack
<1>4. Shown' = Cpu!Pulled(Cpu!Top(1)) BY <1>3, StatusHere, ShownPulled DEF Plp
<1>5. reg' = [reg EXCEPT !["SP"] = Cpu!SP(1)] BY Cells DEF Plp, Assign
<1>6. UNCHANGED ram BY DEF Plp
<1> QED BY <1>1, <1>2, <1>4, <1>5, <1>6 DEF Cpu!PullP, Shown

\* What Rti and Rts pull.
LEMMA HeldIs ==
    ASSUME Executing, NEW i \in 1 .. 3
    PROVE  /\ Cpu!Held(i) = Stack(reg["SP"] + i) /\ Cpu!Held(i) \in Byte
           /\ reg["SP"] + i <= 255 => Cpu!Top(i) = Cpu!Held(i)
<1>1. Cpu!Slot(i) = 256 + (reg["SP"] + i) BY Cells
<1>2. Cpu!Held(i) = Stack(reg["SP"] + i) BY <1>1, SameWords DEF Cpu!Held, Stack
<1>3. Cpu!Held(i) \in Byte BY <1>2, StackType DEF Executing, IInv
<1>4. ASSUME reg["SP"] + i <= 255 PROVE Cpu!Top(i) = Cpu!Held(i)
    <2>1. reg["SP"] + i \in 0 .. 255 BY <1>4, Here DEF Byte
    <2>2. Cpu!Cell(i) = Cpu!Slot(i) BY <2>1, Cells
    <2> QED BY <2>2 DEF Cpu!Top, Cpu!Held
<1> QED BY <1>2, <1>3, <1>4

LEMMA WordWraps ==
    ASSUME NEW l \in Byte, NEW h \in Byte
    PROVE  to_adr(l, h) % 65536 = to_adr(l, h) /\ to_adr(l, h) \in Int
BY WordType, AdrWraps

LEMMA RtiRefines ==
    ASSUME Executing, Rti
    PROVE  Cpu!ReturnFromInterrupt \/ Cpu!InterruptReturnsOffPage
<1>1. Cpu!name = "RTI" BY NamedAlone DEF Rti, Alone
<1>2. Shown' = Cpu!Pulled(Cpu!Held(1)) BY StatusHere, ShownPulled, HeldIs DEF Rti
<1>3. pc' = to_adr(Cpu!Held(2), Cpu!Held(3)) BY HeldIs DEF Rti
<1>4. pc' % 65536 = Cpu!to_adr(Cpu!Held(2), Cpu!Held(3))
    <2>1. Cpu!Held(2) \in Byte /\ Cpu!Held(3) \in Byte BY HeldIs
    <2> QED BY <1>3, <2>1, WordWraps, SameWords
<1>5. reg' = [reg EXCEPT !["SP"] = Cpu!SP(3)] BY Cells DEF Rti, Assign
<1>6. UNCHANGED ram /\ Cpu!GoesOn BY Going DEF Rti
<1>7. CASE reg["SP"] >= 253
    BY <1>1, <1>2, <1>4, <1>5, <1>6, <1>7 DEF Cpu!InterruptReturnsOffPage, Shown
<1>8. CASE ~(reg["SP"] >= 253)
    <2>1. reg["SP"] + 1 <= 255 /\ reg["SP"] + 2 <= 255 /\ reg["SP"] + 3 <= 255
        BY <1>8, Here DEF Byte
    <2>2. /\ Cpu!Top(1) = Cpu!Held(1) /\ Cpu!Top(2) = Cpu!Held(2)
          /\ Cpu!Top(3) = Cpu!Held(3)
        BY <2>1, HeldIs
    <2> QED BY <1>1, <1>2, <1>4, <1>5, <1>6, <2>2 DEF Cpu!ReturnFromInterrupt, Shown
<1> QED BY <1>7, <1>8

LEMMA RtsRefines ==
    ASSUME Executing, Rts
    PROVE  Cpu!Return \/ Cpu!ReturnsOffPage
<1>1. Cpu!name = "RTS" BY NamedAlone DEF Rts, Alone
<1>2. Shown' = Shown BY ShownKept DEF Rts
<1>3. pc' = to_adr(Cpu!Held(1), Cpu!Held(2)) + 1 BY HeldIs DEF Rts
<1>4. pc' % 65536 = (Cpu!to_adr(Cpu!Held(1), Cpu!Held(2)) + 1) % 65536
    BY <1>3, SameWords
<1>5. reg' = [reg EXCEPT !["SP"] = Cpu!SP(2)] BY Cells DEF Rts, Assign
<1>6. UNCHANGED ram /\ Cpu!GoesOn /\ ~(ExitOnStackWrap /\ reg["SP"] = 255)
    BY Going DEF Rts
<1>7. CASE reg["SP"] >= 254
    BY <1>1, <1>2, <1>4, <1>5, <1>6, <1>7 DEF Cpu!ReturnsOffPage, Shown
<1>8. CASE ~(reg["SP"] >= 254)
    <2>1. reg["SP"] + 1 <= 255 /\ reg["SP"] + 2 <= 255 BY <1>8, Here DEF Byte
    <2>2. Cpu!Top(1) = Cpu!Held(1) /\ Cpu!Top(2) = Cpu!Held(2) BY <2>1, HeldIs
    <2> QED BY <1>1, <1>2, <1>4, <1>5, <1>6, <2>2 DEF Cpu!Return, Shown
<1> QED BY <1>7, <1>8

\* An RTS with an empty stack sets cycles past every budget.
LEMMA RtsExitRefines ==
    ASSUME Executing, RtsExit, toCycles + 26 <= CyclesMax, UNCHANGED toCycles
    PROVE  Cpu!EmptyStackEnds
<1>1. Cpu!name = "RTS" BY NamedAlone DEF RtsExit, Alone
<1>2. row.cycles = 6 BY DEF RtsExit, Executes, op, Executing, RowOK
<1>3. CyclesMax \in Nat /\ CyclesMax > 64 BY ClientAssumption
<1>4. cycles' = CyclesMax - 26
    <2>1. (CyclesMax - 32 + 6) % (CyclesMax + 1) = CyclesMax - 26
        <3>1. \A i, m \in Nat : i < m => i % m = i OBVIOUS
        <3> QED BY <1>3, <3>1
    <2> QED BY <1>2, <2>1 DEF RtsExit
<1>5. toCycles \in Int BY <1>3 DEF Executing, IInv, TypeOK
<1>6. cycles' >= toCycles' BY <1>3, <1>4, <1>5
<1>7. phase' = "running" BY DEF Executing
<1>8. Shown' = Shown BY ShownKept DEF RtsExit
<1>9. pc' % 65536 = Cpu!Following(1) BY FollowingIs DEF RtsExit
<1>10. ExitOnStackWrap /\ reg["SP"] = 255 /\ UNCHANGED <<reg, ram>> BY DEF RtsExit
<1> QED BY <1>1, <1>6, <1>7, <1>8, <1>9, <1>10 DEF Cpu!EmptyStackEnds, Shown

\* The two bytes Brk and Jsr push.
LEMMA WordPushed ==
    ASSUME Executing, pc + 2 <= 65536
    PROVE  /\ Push(Push(ram, reg["SP"], hi(pc + 2)), reg["SP"] - 1, pc + 2)
                 = Cpu!PutWord(Cpu!Following(2))
           /\ reg["SP"] >= 1 =>
                 Cpu!PutWord(Cpu!Following(2)) = Cpu!PushedWord(Cpu!Following(2))
<1> DEFINE w == Cpu!Following(2)
           n == pc + 2
<1>1. n \in Int /\ 2 <= n /\ n <= 65536
    <2>1. pc \in Int /\ 0 <= pc BY AdrIs DEF Executing
    <2> QED BY <2>1
<1>2. w = (IF n = 65536 THEN 0 ELSE n)
    <2>1. w = n % 65536 BY FollowingIs
    <2> HIDE DEF n, w
    <2> QED BY <1>1, <2>1
<1> HIDE DEF w, n
<1>3. w \div 256 = hi(n) % 256
    <2>1. CASE n = 65536 BY <1>2, <2>1 DEF hi
    <2>2. CASE n # 65536
        <3>1. w = n /\ 2 <= n /\ n < 65536 BY <1>1, <1>2, <2>2
        <3>2. n \div 256 \in 0 .. 255 BY <1>1, <3>1
        <3>3. (n \div 256) % 256 = n \div 256 BY <3>2
        <3> QED BY <3>1, <3>3 DEF hi
    <2> QED BY <2>1, <2>2
<1>4. w % 256 = n % 256
    <2>1. CASE n = 65536 BY <1>2, <2>1
    <2>2. CASE n # 65536 BY <1>2, <2>2
    <2> QED BY <2>1, <2>2
<1>5. Cpu!Slot(0) = 256 + reg["SP"] /\ Cpu!Slot(-1) = 256 + (reg["SP"] - 1)
    <2>1. reg["SP"] + 0 = reg["SP"] /\ reg["SP"] + (-1) = reg["SP"] - 1 BY Here DEF Byte
    <2>2. Cpu!Slot(0) = 256 + (reg["SP"] + 0) /\ Cpu!Slot(-1) = 256 + (reg["SP"] + (-1))
        BY DEF Cpu!Slot
    <2> QED BY <2>1, <2>2
<1>6. Push(Push(ram, reg["SP"], hi(n)), reg["SP"] - 1, n) = Cpu!PutWord(w)
    BY <1>3, <1>4, <1>5, SameStored DEF Push, Cpu!PutWord
<1>7. ASSUME reg["SP"] >= 1 PROVE Cpu!PutWord(w) = Cpu!PushedWord(w)
    <2>1. reg["SP"] + 0 \in 0 .. 255 /\ reg["SP"] + (-1) \in 0 .. 255
        BY <1>7, Here DEF Byte
    <2>2. Cpu!Cell(0) = Cpu!Slot(0) /\ Cpu!Cell(-1) = Cpu!Slot(-1) BY <2>1, Cells
    <2> QED BY <2>2 DEF Cpu!PutWord, Cpu!PushedWord
<1> QED BY <1>6, <1>7 DEF w, n

\* A word that is read through a pointer.
LEMMA PointedAt ==
    ASSUME Executing, NEW z, NEW p \in Read16(z)
    PROVE  /\ p % 65536 = p
           /\ p \in {Cpu!to_adr(l, h) : l \in Cpu!Read(z), h \in Cpu!Read(z + 1)}
<1>1. PICK l \in Read(z), h \in Read(z + 1) : p = to_adr(l, h) BY DEF Read16
<1>2. l \in Byte /\ h \in Byte BY ReadType DEF Executing, IInv
<1>3. l \in Cpu!Read(z) /\ h \in Cpu!Read(z + 1) /\ p = Cpu!to_adr(l, h)
    BY <1>1, SameRead, SameWords
<1>4. p % 65536 = p BY <1>1, <1>2, WordWraps
<1> QED BY <1>3, <1>4

LEMMA BrkRefines == ASSUME Executing, Brk PROVE Cpu!Break \/ Cpu!BreakKeepsI
<1>1. Cpu!name = "BRK" BY NamedAlone DEF Brk, Alone
<1>2. Shown' = Shown BY ShownKept DEF Brk
<1>3. to_adr(\hfe, \hff) = 65534 /\ 65534 + 1 = 65535 BY DEF to_adr
<1>4. pc' % 65536 \in {Cpu!to_adr(l, h) : l \in Cpu!Read(65534), h \in Cpu!Read(65535)}
    BY <1>3, PointedAt DEF Brk
<1>5. reg' = [reg EXCEPT !["SP"] = Cpu!SP(-3)] BY Cells DEF Brk, Assign
<1>6. Cpu!GoesOn BY Going
<1>7. pc + 2 <= 65536 BY DEF Executing, Brk, Executes
<1>8. ram' = Push(Cpu!PutWord(Cpu!Following(2)), reg["SP"] - 2, SrByte(get_SR))
    BY <1>7, WordPushed DEF Brk
<1>9. Cpu!Slot(-2) = 256 + (reg["SP"] - 2)
    <2>1. reg["SP"] + (-2) = reg["SP"] - 2 BY Here DEF Byte
    <2>2. Cpu!Slot(-2) = 256 + (reg["SP"] + (-2)) BY DEF Cpu!Slot
    <2> QED BY <2>1, <2>2
<1>10. ram' = Cpu!Stored(Cpu!PutWord(Cpu!Following(2)), Cpu!Slot(-2), Cpu!StatusByte)
    BY <1>8, <1>9, StatusHere, ShownByte, SameStored DEF Push
<1>11. CASE "IRQ" \notin Shown \/ reg["SP"] < 2
    BY <1>1, <1>2, <1>4, <1>5, <1>6, <1>10, <1>11 DEF Cpu!BreakKeepsI, Shown
<1>12. CASE "IRQ" \in Shown /\ ~(reg["SP"] < 2)
    <2>1. reg["SP"] >= 1 /\ reg["SP"] + (-2) \in 0 .. 255 BY <1>12, Here DEF Byte
    <2>2. Cpu!Cell(-2) = Cpu!Slot(-2) BY <2>1, Cells
    <2>3. ram' = Cpu!Stored(Cpu!PushedWord(Cpu!Following(2)), Cpu!Cell(-2), Cpu!StatusByte)
        BY <1>7, <1>10, <2>1, <2>2, WordPushed
    <2>4. Shown' = Shown \cup {"IRQ"} BY <1>2, <1>12
    <2> QED BY <1>1, <1>4, <1>5, <1>6, <2>3, <2>4 DEF Cpu!Break, Shown
<1> QED BY <1>11, <1>12

\* The next byte, if the pointer does not end its page.
LEMMA NextInPage ==
    ASSUME NEW a \in Adr, a % 256 # 255
    PROVE  Cpu!SamePage(a) = a + 1
<1>1. a \in Int /\ 0 <= a /\ a < 65536 BY AdrIs
<1>2. PICK q \in Int, r \in 0 .. 255 : a = 256 * q + r /\ a \div 256 = q /\ a % 256 = r
    <2>1. a % 256 \in 0 .. 255 /\ a \div 256 \in Int BY <1>1
    <2>2. a = 256 * (a \div 256) + (a % 256) BY <1>1
    <2> QED BY <2>1, <2>2
<1>3. r \in 0 .. 254 BY <1>2
<1>4. (256 * q + r + 1) % 256 = r + 1 BY <1>2, <1>3
<1> QED BY <1>2, <1>3, <1>4 DEF Cpu!SamePage

LEMMA JmpRefines == ASSUME Executing, Jmp PROVE Cpu!Jump \/ Cpu!JumpCarries
<1>1. Cpu!name = "JMP" BY NamedAlone DEF Jmp, Alone
<1>2. Shown' = Shown BY ShownKept DEF Jmp
<1>3. row.mode \in {"ABS", "IND"} /\ op.fn # "Brk" /\ Cpu!mode = row.mode
    BY DEF Jmp, Executes, Executing, RowOK, op, Agrees
<1>4. opSize(row.mode) = 3 BY <1>3 DEF opSize
<1> DEFINE word == PC16(pc + 1)
<1>5. Cpu!CodeWord = word /\ word \in Adr BY <1>3, <1>4, OperandWord, WordType
<1>6. pc' \in ReadEA(row.mode) BY DEF Jmp, EA
<1>7. UNCHANGED <<reg, ram>> /\ Cpu!GoesOn BY Going DEF Jmp
<1>8. CASE row.mode = "ABS"
    <2>1. pc' = word BY <1>6, <1>8 DEF ReadEA
    <2>2. pc' % 65536 = Cpu!CodeWord BY <1>5, <2>1, AdrWraps
    <2>3. Cpu!mode # "IND" BY <1>3, <1>8
    <2> QED BY <1>1, <1>2, <1>7, <2>2, <2>3 DEF Cpu!Jump, Shown
<1>9. CASE row.mode = "IND"
    <2>1. pc' \in Read16(word) BY <1>6, <1>9 DEF ReadEA
    <2> HIDE DEF word
    <2>2. pc' % 65536 \in {Cpu!to_adr(l, h) : l \in Cpu!Read(word), h \in Cpu!Read(word + 1)}
        BY <2>1, PointedAt
    <2>3. Cpu!mode = "IND" BY <1>3, <1>9
    <2>4. CASE word % 256 = 255
        BY <1>1, <1>2, <1>5, <1>7, <2>2, <2>3, <2>4 DEF Cpu!JumpCarries, Shown
    <2>5. CASE word % 256 # 255
        <3>1. Cpu!SamePage(word) = word + 1 BY <1>5, <2>5, NextInPage
        <3> QED BY <1>1, <1>2, <1>5, <1>7, <2>2, <2>3, <3>1 DEF Cpu!Jump, Shown
    <2> QED BY <2>4, <2>5
<1> QED BY <1>3, <1>8, <1>9

\* A code byte that a store does not touch.
LEMMA FetchPast ==
    ASSUME NEW d, NEW b, NEW v, NEW a, a # b
    PROVE  Fetch(Stored(d, b, v), a) = Fetch(d, a)
<1>1. At(Stored(d, b, v), a) = At(d, a) BY DEF At, Stored
<1>2. read_bank(Stored(d, b, v), a) = read_bank(d, a) BY <1>1 DEF read_bank
<1> QED BY <1>1, <1>2 DEF Fetch

LEMMA JsrRefines == ASSUME Executing, Jsr PROVE Cpu!Call \/ Cpu!CallReadsLate
<1>1. Cpu!name = "JSR" BY NamedAlone DEF Jsr, Alone
<1>2. Shown' = Shown BY ShownKept DEF Jsr
<1>3. opSize(row.mode) = 3 /\ op.fn # "Brk"
    BY DEF Jsr, Executes, Executing, RowOK, op, opSize
<1>4. /\ Cpu!Following(1) = pc + 1 /\ Cpu!Following(2) = pc + 2
      /\ Cpu!CodeWord = PC16(pc + 1)
      /\ PC16(pc + 1) = to_adr(PC8(pc + 1), PC8(pc + 2))
    BY <1>3, FirstByte, OperandWord
<1>5. pc + 2 <= 65536 BY <1>3, Here DEF Executing
<1>6. ram' = Cpu!PutWord(Cpu!Following(2)) BY <1>5, WordPushed DEF Jsr
<1>7. pc' = to_adr(Fetch(ram', pc + 1), Fetch(ram', pc + 2)) BY DEF Jsr
<1>8. pc' % 65536 = pc'
    <2>1. Fetch(ram', pc + 1) \in Byte /\ Fetch(ram', pc + 2) \in Byte
        BY Here, FetchType DEF Executing, IInv
    <2> QED BY <1>7, <2>1, WordWraps
<1>9. reg' = [reg EXCEPT !["SP"] = Cpu!SP(-2)] BY Cells DEF Jsr, Assign
<1>10. Cpu!GoesOn BY Going
<1> DEFINE over == {Cpu!Slot(0), Cpu!Slot(-1)} \cap {Cpu!Following(1), Cpu!Following(2)}
<1>11. CASE reg["SP"] = 0 \/ over # {}
    <2>1. pc' % 65536 = Cpu!to_adr(Cpu!Fetch(ram', Cpu!Following(1)),
                                   Cpu!Fetch(ram', Cpu!Following(2)))
        BY <1>4, <1>7, <1>8, SameFetch, SameWords
    <2> QED BY <1>1, <1>2, <1>6, <1>9, <1>10, <1>11, <2>1 DEF Cpu!CallReadsLate, Shown
<1>12. CASE reg["SP"] # 0 /\ over = {}
    <2>1. reg["SP"] >= 1 BY <1>12, Here DEF Byte
    <2>2. ram' = Cpu!PushedWord(Cpu!Following(2)) BY <1>5, <1>6, <2>1, WordPushed
    <2>3. ASSUME NEW a \in {pc + 1, pc + 2} PROVE Fetch(ram', a) = Fetch(ram, a)
        <3>1. a # Cpu!Slot(0) /\ a # Cpu!Slot(-1) BY <1>4, <1>12
        <3> DEFINE w == Cpu!Following(2)
                   d == Stored(ram, Cpu!Slot(0), w \div 256)
        <3>2. ram' = Stored(d, Cpu!Slot(-1), w % 256)
            BY <1>6, SameStored DEF Cpu!PutWord
        <3>3. Fetch(d, a) = Fetch(ram, a) BY <3>1, FetchPast
        <3> HIDE DEF d
        <3>4. Fetch(Stored(d, Cpu!Slot(-1), w % 256), a) = Fetch(d, a) BY <3>1, FetchPast
        <3> QED BY <3>2, <3>3, <3>4
    <2>4. pc' % 65536 = Cpu!CodeWord BY <1>4, <1>7, <1>8, <2>3 DEF PC8
    <2> QED BY <1>1, <1>2, <1>9, <1>10, <2>2, <2>4 DEF Cpu!Call, Shown
<1> QED BY <1>11, <1>12

-----------------------------------------------------------------------------
(* The run loop and the client *)

Departing ==
    \/ Cpu!FlagCodesExchanged \/ Cpu!BreakKeepsI \/ Cpu!InterruptReturnsOffPage
    \/ Cpu!ReturnsOffPage \/ Cpu!EmptyStackEnds \/ Cpu!CallReadsLate \/ Cpu!JumpCarries

LEMMA ExecuteRefines ==
    ASSUME Executing, Execute, toCycles + 26 <= CyclesMax, UNCHANGED toCycles
    PROVE  Cpu!Execute \/ Departing
<1>1. CASE Nop \/ Load \/ Store \/ Branch \/ Transfer \/ Bit \/ Cmp
    BY <1>1, NopRefines, LoadRefines, StoreRefines, BranchRefines, TransferRefines,
       BitRefines, CmpRefines DEF Cpu!Execute
<1>2. CASE IncRegister \/ IncMemory \/ \E fn \in Shifts : ShiftRegister(fn) \/ ShiftMemory(fn)
    BY <1>2, IncRegisterRefines, IncMemoryRefines, ShiftRegisterRefines,
       ShiftMemoryRefines DEF Cpu!Execute
<1>3. CASE Adc \/ AdcDecimal \/ Sbc \/ SbcDecimal \/ And \/ Ora \/ Eor
    BY <1>3, AdcRefines, AdcDecimalRefines, SbcRefines, SbcDecimalRefines, AndRefines,
       OraRefines, EorRefines DEF Cpu!Execute
<1>4. CASE Pha \/ Pla \/ Php \/ Plp
    BY <1>4, PhaRefines, PlaRefines, PhpRefines, PlpRefines DEF Cpu!Execute
<1>5. CASE Set \/ Rti \/ Brk \/ Rts \/ Jmp \/ Jsr
    BY <1>5, SetRefines, RtiRefines, BrkRefines, RtsRefines, JmpRefines, JsrRefines
       DEF Cpu!Execute, Departing
<1>6. CASE RtsExit BY <1>6, RtsExitRefines DEF Departing
<1> QED BY <1>1, <1>2, <1>3, <1>4, <1>5, <1>6 DEF Execute

LEMMA StepRefines ==
    ASSUME IInv, Step, toCycles + 26 <= CyclesMax
    PROVE  Cpu!Instruction \/ Cpu!Departs
<1>1. phase = "running" /\ ~(cycles >= toCycles)
    BY ClientAssumption DEF Step, InLoop, IInv, TypeOK
<1>2. Decodes(Opcodes[jumpTable]) /\ Execute BY DEF Step
<1>3. UNCHANGED <<mapping, toCycles, phase>> BY DEF Step, client, mapping
<1>4. IInv' BY StepKeeps, Parts DEF IInv
<1>5. pc \in Adr /\ Fetch(ram, pc) \in DOMAIN Opcodes[jumpTable] BY <1>2 DEF Decodes
<1>6. RowOK(row, jumpTable) /\ Agrees BY <1>2, <1>5, RowLemma, RowsAgree
<1>7. /\ pc + (IF op.fn = "Brk" THEN 2 ELSE opSize(row.mode)) <= 65536
      /\ row.mode = "IND" => PC16(pc + 1) < 65535
    BY <1>2 DEF Decodes, row, op
<1>8. Executing BY <1>1, <1>3, <1>4, <1>5, <1>6, <1>7 DEF Executing
<1>9. Cpu!Execute \/ Departing BY <1>2, <1>3, <1>8, ExecuteRefines
<1>10. Cpu!Fetch(ram, pc % 65536) \in DOMAIN Sheet
    BY <1>5, SameCodes, SameFetch, InsideIsPC
<1>11. UNCHANGED Cpu!mapping BY <1>3 DEF mapping, Cpu!mapping
<1> QED BY <1>1, <1>9, <1>10, <1>11 DEF Cpu!Instruction, Cpu!Departs, Departing

\* Nothing that the addressing modes compute is negative.
LEMMA AddressIsNat ==
    ASSUME IInv, pc \in Adr, NEW m, NEW ea \in ReadEA(m)
    PROVE  ea \in Nat
<1>1. pc + 1 \in Nat BY AdrIs
<1>2. \A a : PC8(a) \in Byte BY Parts, FetchType DEF PC8, IInv, CpuOK
<1>3. \A r \in {"X", "Y"} : reg[r] \in Byte BY RegType
<1>4. \A b \in Byte : b \in Nat BY DEF Byte
<1>5. \A l, h \in Byte : to_adr(l, h) \in Nat BY DEF to_adr, Byte
<1>6. PC16(pc + 1) \in Nat
    <2>1. PC16(pc + 1) = to_adr(PC8(pc + 1), PC8(pc + 1 + 1)) BY DEF PC16, PC8
    <2> QED BY <1>2, <1>5, <2>1
<1>7. ASSUME NEW z, NEW p \in Read16(z) PROVE p \in Nat
    <2>1. PICK l \in Read(z), h \in Read(z + 1) : p = to_adr(l, h) BY <1>7 DEF Read16
    <2>2. l \in Byte /\ h \in Byte BY ReadType DEF IInv
    <2> QED BY <1>5, <2>1, <2>2
<1>8. \A b \in Byte : \A r \in {"X", "Y"} : lo(b + reg[r]) \in Nat
    BY <1>3, <1>4 DEF lo
<1>9. \A n \in Nat : \A r \in {"X", "Y"} : n + reg[r] \in Nat BY <1>3, <1>4
<1>10. CASE m \in {"IMM", "ZP", "ZPX", "ZPY"}
    BY <1>1, <1>2, <1>4, <1>8, <1>10 DEF ReadEA
<1>11. CASE m \in {"ABS", "ABSX", "ABSY"} BY <1>6, <1>9, <1>11 DEF ReadEA
<1>12. CASE m = "INDX" BY <1>7, <1>12 DEF ReadEA
<1>13. CASE m = "INDY"
    <2>1. PICK p \in Read16(PC8(pc + 1)) : ea = p + reg["Y"] BY <1>13 DEF ReadEA
    <2> QED BY <1>7, <1>9, <2>1
<1>14. CASE m = "IND" BY <1>7, <1>14 DEF ReadEA
<1>15. CASE m \notin {"IMM", "ZP", "ZPX", "ZPY", "ABS", "ABSX", "ABSY", "INDX", "INDY", "IND"}
    BY <1>15 DEF ReadEA
<1> QED BY <1>10, <1>11, <1>12, <1>13, <1>14, <1>15

LEMMA UndefinedRefines ==
    ASSUME IInv, Undefined
    PROVE  Cpu!Strays \/ LeavesMemory
<1>1. phase = "running" /\ InLoop /\ ~(cycles >= toCycles)
    BY ClientAssumption DEF Undefined, InLoop, IInv, TypeOK
<1>2. Shown' = Shown BY ShownKept DEF Undefined
<1>3. UNCHANGED <<reg, pc, memory, status>> /\ phase' = "undefined" BY DEF Undefined
<1>4. CASE pc \notin Adr BY <1>1, <1>3, <1>4 DEF LeavesMemory
<1>5. CASE pc \in Adr /\ Fetch(ram, pc) \notin DOMAIN Sheet
    <2>1. Cpu!Fetch(ram, pc % 65536) \notin DOMAIN Sheet BY <1>5, SameFetch, InsideIsPC
    <2> QED BY <1>1, <1>2, <1>3, <2>1 DEF Cpu!Strays, memory, Cpu!memory, Shown
<1>6. CASE pc \in Adr /\ Fetch(ram, pc) \in DOMAIN Sheet
    <2>1. Fetch(ram, pc) \in DOMAIN Opcodes[jumpTable] BY <1>6, SameCodes
    <2>2. Matches(row, entry) /\ Cpu!mode = row.mode /\ Cpu!mode = Sheet[Fetch(ram, pc)].mode
        <3>1. Cpu!Fetch(ram, pc % 65536) = Fetch(ram, pc) BY <1>6, SameFetch, InsideIsPC
        <3> QED BY <1>6, <2>1, <3>1, RowsAgree DEF Agrees, Cpu!mode
    <2>3. row.mode = entry.mode BY <2>2 DEF entry
    <2>4. op.fn = "Brk" <=> entry.name = "BRK"
        <3>1. "Brk" \in DOMAIN Alone /\ Alone["Brk"] = "BRK" BY DEF Alone
        <3>2. op.fn \in DOMAIN Alone => entry.name = Alone[op.fn] BY <2>2 DEF Matches, op
        <3>3. entry.name = "BRK" => op.fn = "Brk" BY <2>2 DEF Matches, op
        <3> QED BY <3>1, <3>2, <3>3
    <2>5. BytesRead(entry) = IF op.fn = "Brk" THEN 2 ELSE opSize(row.mode)
        BY <2>3, <2>4, SameWords DEF BytesRead
    <2>6. \/ pc + BytesRead(entry) > 65536
          \/ entry.mode = "IND" /\ PC16(pc + 1) = 65535
          \/ \E ea \in ReadEA(entry.mode) : ea > 65535
        <3>1. CASE ~Decodes(Opcodes[jumpTable])
            <4>1. ~(/\ pc + BytesRead(entry) <= 65536
                    /\ entry.mode = "IND" => PC16(pc + 1) < 65535)
                BY <1>6, <2>1, <2>3, <2>5, <3>1 DEF Decodes, row, op
            <4>2. pc + BytesRead(entry) \in Int
                <5>1. pc \in Int BY <1>6, AdrIs
                <5>2. BytesRead(entry) \in Int BY <2>5 DEF opSize
                <5> QED BY <5>1, <5>2
            <4>3. PC16(pc + 1) \in Int /\ PC16(pc + 1) < 65536
                <5>1. Fetch(ram, pc + 1) \in Byte /\ Fetch(ram, pc + 1 + 1) \in Byte
                    BY Parts, FetchType DEF IInv, CpuOK
                <5> QED BY <5>1, WordType, AdrIs DEF PC16
            <4> QED BY <4>1, <4>2, <4>3
        <3>2. CASE Decodes(Opcodes[jumpTable])
            <4>1. ~StaysInside(row.mode) BY <3>2 DEF Undefined
            <4>2. PICK ea \in ReadEA(entry.mode) : ea \notin Adr
                BY <2>3, <4>1 DEF StaysInside
            <4>3. ea \in Nat BY <1>6, AddressIsNat
            <4>4. ea > 65535 BY <4>2, <4>3, AdrIs
            <4> QED BY <4>4
        <3> QED BY <3>1, <3>2
    <2> QED BY <1>1, <1>3, <1>6, <2>6 DEF LeavesMemory, entry
<1> QED BY <1>4, <1>5, <1>6

LEMMA ReturnRefines == ASSUME RunReturns PROVE Cpu!Leaves
<1>1. Shown' = Shown BY ShownKept DEF RunReturns
<1> QED BY <1>1 DEF RunReturns, Cpu!Leaves, memory, Cpu!memory, Shown

LEMMA ClientRefines == ASSUME Client PROVE Cpu!Idles
<1>1. UNCHANGED status BY DEF Client, WriteRam, SetPC, Run, MapMemory
<1>2. Shown' = Shown BY <1>1, ShownKept
<1>3. phase = "idle" /\ phase' \in {"idle", "running"} /\ UNCHANGED reg
    BY DEF Client, WriteRam, SetPC, Run, MapMemory
<1> QED BY <1>2, <1>3 DEF Cpu!Idles, Shown

LEMMA InitRefines == ASSUME Init PROVE Cpu!Init
<1>1. lo(0) = 0 /\ BitOf(0, 128) = 0 /\ BitOf(0, 512) = 0 BY DEF lo, BitOf
<1>2. get_SR = {"ZERO", "BRK", "xXx"}
    BY <1>1 DEF Init, get_SR, SZ, ResultSign, ResultZero
<1>3. Shown = {"ZERO"} BY <1>2 DEF Shown
<1>4. "ZERO" \in Cpu!Flags \ Cpu!Unused BY DEF Cpu!Flags, Cpu!Weight, Cpu!Unused
<1>5. reg \in [Cpu!Registers -> Cpu!Byte] BY DEF Init, Cpu!Registers, Cpu!Byte
<1>6. phase = "idle" BY DEF Init
<1> QED BY <1>3, <1>4, <1>5, <1>6 DEF Cpu!Init, Shown

\* What the refinement needs of the client: an RTS with an empty stack, which
\* sets cycles to 26 below its maximum, ends the run.
BudgetLow == toCycles + 26 <= CyclesMax

LEMMA BudgetStaysLow ==
    ASSUME \A b \in Budgets : b + 26 <= CyclesMax
    PROVE  Spec => []BudgetLow
<1>1. Init => BudgetLow BY ClientAssumption DEF Init, BudgetLow
<1>2. BudgetLow /\ [Next]_vars => BudgetLow'
    BY DEF Next, Loop, Client, Step, Undefined, RunReturns, WriteRam, SetPC, Run, MapMemory,
       client, vars, BudgetLow
<1> QED BY <1>1, <1>2, PTL DEF Spec

\* If no budget comes within 26 cycles of the largest uint32_t, the lazily
\* evaluated flags, the two jump tables that D swaps and the cycle-counting
\* loop are, to the program they run, the processor that opcodes.txt describes,
\* or depart from it in one of the ways that Departures and LeavesMemory name,
\* whatever the program, the memory mapping and the policy (emulator.h, all of
\* Machine).
THEOREM ImplementsTheProcessor ==
    ASSUME \A b \in Budgets : b + 26 <= CyclesMax
    PROVE  Spec => ImplementsCpu6502
<1> DEFINE CpuNext == Cpu!Next \/ Cpu!Departs \/ LeavesMemory
<1>1. Init => Cpu!Init BY InitRefines
<1>2. IInv /\ BudgetLow /\ [Next]_vars => [CpuNext]_(Cpu!vars)
    <2> SUFFICES ASSUME IInv, BudgetLow, [Next]_vars PROVE [CpuNext]_(Cpu!vars)
        OBVIOUS
    <2>1. CASE Step BY <2>1, StepRefines DEF BudgetLow, Cpu!Next
    <2>2. CASE Undefined BY <2>2, UndefinedRefines DEF Cpu!Next
    <2>3. CASE RunReturns BY <2>3, ReturnRefines DEF Cpu!Next
    <2>4. CASE Client BY <2>4, ClientRefines DEF Cpu!Next
    <2>5. CASE UNCHANGED vars
        <3>1. UNCHANGED status BY <2>5 DEF vars, status
        <3>2. get_SR' = get_SR BY <3>1, SameStatusSeen
        <3> QED BY <2>5, <3>2 DEF vars, Cpu!vars
    <2> QED BY <2>1, <2>2, <2>3, <2>4, <2>5 DEF Next, Loop
<1> QED BY <1>1, <1>2, Invariance, BudgetStaysLow, PTL DEF Spec, ImplementsCpu6502

-----------------------------------------------------------------------------
(* The banks *)

\* An address relative to the start of a bank, by pages and within one.
LEMMA Offset ==
    ASSUME NEW a \in Adr, NEW bank \in Page
    PROVE  /\ hi(a) \in Page /\ (hi(a) - bank) % 256 \in Page
           /\ (a - 256 * bank) % 65536 = to_adr(lo(a), (hi(a) - bank) % 256)
<1> DEFINE h == hi(a)
           l == lo(a)
           p == (h - bank) % 256
<1>1. h \in 0 .. 255 /\ l \in 0 .. 255 /\ a = 256 * h + l
    <2>1. a \in Int /\ 0 <= a /\ a < 65536 BY AdrIs
    <2>2. a \div 256 \in 0 .. 255 BY <2>1
    <2>3. a % 256 \in 0 .. 255 BY <2>1
    <2>4. a = 256 * (a \div 256) + (a % 256) BY <2>1
    <2> QED BY <2>2, <2>3, <2>4 DEF hi, lo
<1>2. bank \in 0 .. 255 BY DEF Page
<1> HIDE DEF h, l
<1>3. CASE h >= bank
    <2> DEFINE d == h - bank
    <2>1. d \in 0 .. 255 /\ a - 256 * bank = 256 * d + l BY <1>1, <1>2, <1>3
    <2> HIDE DEF d
    <2>2. d % 256 = d /\ (256 * d + l) % 65536 = 256 * d + l BY <1>1, <2>1
    <2> QED BY <1>1, <2>1, <2>2 DEF to_adr, Page, h, l, d
<1>4. CASE h < bank
    <2> DEFINE d == h - bank + 256
    <2>1. d \in 0 .. 255 /\ a - 256 * bank = 256 * d + l - 65536 BY <1>1, <1>2, <1>4
    <2>2. (h - bank) % 256 = d BY <1>1, <1>2, <1>4
    <2> HIDE DEF d
    <2>3. (256 * d + l - 65536) % 65536 = 256 * d + l BY <1>1, <2>1
    <2> QED BY <1>1, <2>1, <2>2, <2>3 DEF to_adr, Page, h, l
<1> QED BY <1>1, <1>2, <1>3, <1>4

\* The pages a ROM of n pages covers.
LEMMA CoveredPages ==
    ASSUME NEW q \in Page, NEW bank \in Page, NEW n \in 1 .. 256
    PROVE  q \in PagesFrom(bank, 256 * n) <=> (q - bank) % 256 < n
<1>1. (256 * n + 255) \div 256 = n OBVIOUS
<1>2. PagesFrom(bank, 256 * n) = {(bank + i) % 256 : i \in 0 .. n - 1}
    BY <1>1 DEF PagesFrom
<1>3. ASSUME NEW i \in 0 .. n - 1, q = (bank + i) % 256 PROVE (q - bank) % 256 < n
    <2>1. i \in 0 .. 255 /\ bank \in 0 .. 255 BY DEF Page
    <2>2. q = (IF bank + i > 255 THEN bank + i - 256 ELSE bank + i) BY <1>3, <2>1
    <2>3. (q - bank) % 256 = i BY <2>1, <2>2
    <2> QED BY <2>3
<1>4. ASSUME (q - bank) % 256 < n PROVE \E i \in 0 .. n - 1 : q = (bank + i) % 256
    <2> DEFINE i == (q - bank) % 256
    <2>1. i \in 0 .. n - 1 BY <1>4 DEF Page
    <2>2. i = (IF q < bank THEN q - bank + 256 ELSE q - bank) BY DEF Page
    <2> HIDE DEF i
    <2>3. q = (bank + i) % 256 BY <2>2 DEF Page
    <2> QED BY <2>1, <2>3
<1> QED BY <1>2, <1>3, <1>4

LEMMA Fetched ==
    ASSUME PC_AccessMode = "BANKED", NEW a
    PROVE  /\ Fetch(ram, a) =
                 IF hi(a) \in DOMAIN rbank
                    THEN At(Roms[rbank[hi(a)].rom].data, to_adr(lo(a), rbank[hi(a)].page))
                    ELSE At(ram, a)
           /\ Fetch(ram, a)' =
                 IF hi(a) \in DOMAIN rbank'
                    THEN At(Roms[rbank'[hi(a)].rom].data, to_adr(lo(a), rbank'[hi(a)].page))
                    ELSE At(ram', a)
BY DEF Fetch, read_bank, At

\* While the banks stay, what a ROM shows stays.
LEMMA StoreIsFlat == ASSUME PC_AccessMode = "BANKED", UNCHANGED rbank PROVE Flat!Store
<1> DEFINE covered == {a \in Watched : hi(a) \in DOMAIN rbank}
           shown   == [a \in Watched |-> Fetch(ram, a)]
<1>1. covered' = covered OBVIOUS
<1>2. ASSUME NEW a \in covered PROVE shown'[a] = shown[a]
    <2>1. a \in Watched /\ hi(a) \in DOMAIN rbank OBVIOUS
    <2>2. Fetch(ram, a)' = Fetch(ram, a) BY <2>1, Fetched
    <2> QED BY <2>1, <2>2
<1> QED BY <1>1, <1>2 DEF Flat!Store

LEMMA MapIsFlat ==
    ASSUME PC_AccessMode = "BANKED", Banks \subseteq Page,
           NEW bank \in Banks, NEW r \in DOMAIN Roms, mapRom(bank, r)
    PROVE  Flat!Map
<1> DEFINE place   == 256 * bank
           window  == Flat!Window(place, Roms[r])
           covered == {a \in Watched : hi(a) \in DOMAIN rbank}
           shown   == [a \in Watched |-> Fetch(ram, a)]
<1>1. PICK n \in 1 .. 256 : Roms[r].len = 256 * n BY MemoryAssumption DEF RomOK
<1>2. bank \in Page OBVIOUS
<1> DEFINE pages == PagesFrom(bank, Roms[r].len)
<1>3. rbank' = [p \in DOMAIN rbank \cup pages |->
                   IF p \in pages THEN [rom |-> r, page |-> (p - bank) % 256] ELSE rbank[p]]
    BY DEF mapRom
<1>4. ram' = ram BY DEF mapRom
<1> HIDE DEF pages
<1>5. ASSUME NEW a \in Watched PROVE hi(a) \in pages <=> a \in window
    <2>1. a \in Adr BY WatchedAssumption
    <2>2. /\ hi(a) \in Page
          /\ (a - place) % 65536 = to_adr(lo(a), (hi(a) - bank) % 256)
        BY <1>2, <2>1, Offset
    <2>3. hi(a) \in pages <=> (hi(a) - bank) % 256 < n
        BY <1>1, <1>2, <2>2, CoveredPages DEF pages
    <2> DEFINE p == (hi(a) - bank) % 256
    <2>4. p \in 0 .. 255 /\ lo(a) \in 0 .. 255
        <3>1. lo(a) \in Byte BY <2>1, LoByte DEF Adr
        <3>2. p \in Page BY <1>2, <2>1, Offset
        <3> HIDE DEF p
        <3> QED BY <3>1, <3>2 DEF Page, Byte
    <2> HIDE DEF p
    <2>5. to_adr(lo(a), p) < 256 * n <=> p < n BY <2>4 DEF to_adr
    <2> QED BY <1>1, <2>2, <2>3, <2>5 DEF Flat!Window, p
<1>6. covered' = covered \cup window
    <2>1. DOMAIN rbank' = DOMAIN rbank \cup pages BY <1>3
    <2>2. window \subseteq Watched BY DEF Flat!Window
    <2> QED BY <1>5, <2>1, <2>2
<1>7. ASSUME NEW a \in Watched
      PROVE  Fetch(ram, a)' = IF a \in window THEN Flat!Byte(Roms[r], (a - place) % 65536)
                                              ELSE Fetch(ram, a)
    <2>1. CASE hi(a) \in pages
        <3>1. hi(a) \in DOMAIN rbank' /\ rbank'[hi(a)] = [rom |-> r, page |-> (hi(a) - bank) % 256]
            BY <1>3, <2>1
        <3>2. Fetch(ram, a)' = At(Roms[r].data, to_adr(lo(a), (hi(a) - bank) % 256))
            BY <3>1, Fetched
        <3>3. a \in Adr BY WatchedAssumption
        <3>4. Fetch(ram, a)' = At(Roms[r].data, (a - place) % 65536)
            BY <1>2, <3>2, <3>3, Offset
        <3> QED BY <1>5, <2>1, <3>4 DEF Flat!Byte, At
    <2>2. CASE hi(a) \notin pages
        <3>1. /\ hi(a) \in DOMAIN rbank' <=> hi(a) \in DOMAIN rbank
              /\ hi(a) \in DOMAIN rbank => rbank'[hi(a)] = rbank[hi(a)]
            BY <1>3, <2>2
        <3>2. Fetch(ram, a)' = Fetch(ram, a) BY <1>4, <3>1, Fetched
        <3> QED BY <1>5, <2>2, <3>2
    <2> QED BY <2>1, <2>2
<1>8. shown' = [a \in Watched |-> IF a \in window
                                     THEN Flat!Byte(Roms[r], (a - place) % 65536)
                                     ELSE shown[a]]
    BY <1>7
<1>9. place \in {256 * b : b \in Banks} OBVIOUS
<1> QED BY <1>6, <1>8, <1>9 DEF Flat!Map

LEMMA NextIsFlat ==
    ASSUME PC_AccessMode = "BANKED", [Next]_vars
    PROVE  Flat!Map \/ Flat!Store
<1>1. CASE UNCHANGED rbank BY <1>1, StoreIsFlat
<1>2. CASE \E bank \in Banks, r \in DOMAIN Roms : mapRom(bank, r)
    BY <1>2, ClientAssumption, MapIsFlat
<1>3. [Next]_vars => \/ UNCHANGED rbank
                     \/ \E bank \in Banks, r \in DOMAIN Roms : mapRom(bank, r)
    BY DEF Next, Loop, Client, Step, client, Undefined, RunReturns, WriteRam, SetPC, Run,
       MapMemory, mapReadCallback, mapWriteCallback, vars, memory, mapping
<1> QED BY <1>1, <1>2, <1>3

\* Under every policy that reads code through the banks, ROMs mapped at any
\* banks, in any order, wrapping and overlapping, make up one flat address
\* space in which no store or callback changes a mapped byte (emulator.h
\* mapRom, read_bank, write_bank).
THEOREM MemoryIsFlatlyMapped == ASSUME PC_AccessMode = "BANKED" PROVE Spec => MemoryIsFlat
<1>1. ASSUME Init PROVE Flat!Init
    <2>1. ram = <<>> /\ rbank = <<>> BY <1>1 DEF Init, MemoryInit
    <2>2. \A a : hi(a) \notin DOMAIN rbank /\ At(ram, a) = 0 BY <2>1 DEF At
    <2>3. \A a \in Watched : Fetch(ram, a) = 0 BY <2>2, Fetched
    <2> QED BY <2>2, <2>3 DEF Flat!Init
<1>2. [Next]_vars => [Flat!Store \/ Flat!Map]_<<[a \in Watched |-> Fetch(ram, a)],
                                                {a \in Watched : hi(a) \in DOMAIN rbank}>>
    BY NextIsFlat
<1> QED BY <1>1, <1>2, PTL DEF Spec, MemoryIsFlat, Flat!Spec

=============================================================================
