--------------------------- MODULE AssemblerProofs ---------------------------
(***************************************************************************)
(* What holds of the line assembler for every operand and address: what a  *)
(* line is encoded as, where a branch lands, and that a listing assembles  *)
(* to the bytes it was made from.                                          *)
(*                                                                         *)
(* The argument: the table is known entry by entry, and so are the row a   *)
(* line is assembled by (OperatorLemmas, LineChosen) and the row the       *)
(* machine jumps by (JumpRow).  What remains is which notations a mode     *)
(* takes (FormTaken) and which modes the notation of a mode may reach      *)
(* (TemplateTaken), and the arithmetic of the bytes of an operand.         *)
(***************************************************************************)
EXTENDS AssemblerReference, OperatorLemmas

-----------------------------------------------------------------------------
(* Operands *)

\* A listing reads two bytes behind the instruction.
Behind(mem, c, l, h, n) == n \in {1, 2, 3} /\ mem = Cut(c, l, h, n) \o <<0, 0>>

LEMMA CutRead ==
    ASSUME NEW c, NEW l, NEW h, NEW n, NEW mem, Behind(mem, c, l, h, n)
    PROVE  /\ mem[1] = c
           /\ n # 1 => mem[2] = l
           /\ n = 3 => mem[3] = h
<1> DEFINE s == Cut(c, l, h, n)
<1>0. n \in {1, 2, 3} /\ mem = s \o <<0, 0>>
  BY DEF Behind
<1> HIDE DEF s
<1> DEFINE z == <<0, 0>>
           S == {c, l, h, 0}
<1>1. s \in Seq(S)
  <2>1. <<c>> \in Seq(S) /\ <<c, l>> \in Seq(S) /\ <<c, l, h>> \in Seq(S)
    OBVIOUS
  <2>2. s = <<c>> \/ s = <<c, l>> \/ s = <<c, l, h>>
    BY <1>0, CutIs DEF s
  <2> QED BY <2>1, <2>2
<1>2. z \in Seq(S) /\ Len(z) = 2
  OBVIOUS
<1>3. Len(s) = n
  BY <1>0, CutLen DEF s
<1>4. s[1] = c /\ (n # 1 => s[2] = l) /\ (n = 3 => s[3] = h)
  BY <1>0, CutAt DEF s
<1>5. mem = s \o z
  BY <1>0
<1> HIDE DEF z, S
<1>6. \A i \in 1 .. Len(s) + Len(z) : mem[i] = IF i <= Len(s) THEN s[i] ELSE z[i - Len(s)]
  BY <1>1, <1>2, <1>5, ConcatProperties
<1>7. mem[1] = s[1] /\ (n # 1 => mem[2] = s[2]) /\ (n = 3 => mem[3] = s[3])
  BY <1>0, <1>2, <1>3, <1>6
<1> QED BY <1>4, <1>7

LEMMA ArgsAre ==
    /\ form = 1 => arg = NoArg
    /\ form = 2 => arg = [hash |-> TRUE, val |-> val, index |-> "", close |-> FALSE, outer |-> FALSE, clean |-> TRUE]
    /\ form = 3 => arg = [hash |-> FALSE, val |-> val, index |-> "", close |-> FALSE, outer |-> FALSE, clean |-> TRUE]
    /\ form = 4 => arg = [hash |-> FALSE, val |-> val, index |-> "x", close |-> FALSE, outer |-> FALSE, clean |-> TRUE]
    /\ form = 5 => arg = [hash |-> FALSE, val |-> val, index |-> "y", close |-> FALSE, outer |-> FALSE, clean |-> TRUE]
    /\ form = 6 => arg = [hash |-> FALSE, val |-> val, index |-> "", close |-> TRUE, outer |-> FALSE, clean |-> TRUE]
    /\ form = 7 => arg = [hash |-> FALSE, val |-> val, index |-> "x", close |-> TRUE, outer |-> FALSE, clean |-> TRUE]
    /\ form = 8 => arg = [hash |-> FALSE, val |-> val, index |-> "", close |-> TRUE, outer |-> TRUE, clean |-> TRUE]
<1>1. form = 1 => arg = NoArg
  BY DEF arg, Args
<1>2. form = 2 => arg = [hash |-> TRUE, val |-> val, index |-> "", close |-> FALSE, outer |-> FALSE, clean |-> TRUE]
  BY DEF arg, Args, Notation
<1>3. form = 3 => arg = [hash |-> FALSE, val |-> val, index |-> "", close |-> FALSE, outer |-> FALSE, clean |-> TRUE]
  BY DEF arg, Args, Notation
<1>4. form = 4 => arg = [hash |-> FALSE, val |-> val, index |-> "x", close |-> FALSE, outer |-> FALSE, clean |-> TRUE]
  BY DEF arg, Args, Notation
<1>5. form = 5 => arg = [hash |-> FALSE, val |-> val, index |-> "y", close |-> FALSE, outer |-> FALSE, clean |-> TRUE]
  BY DEF arg, Args, Notation
<1>6. form = 6 => arg = [hash |-> FALSE, val |-> val, index |-> "", close |-> TRUE, outer |-> FALSE, clean |-> TRUE]
  BY DEF arg, Args, Notation
<1>7. form = 7 => arg = [hash |-> FALSE, val |-> val, index |-> "x", close |-> TRUE, outer |-> FALSE, clean |-> TRUE]
  BY DEF arg, Args, Notation
<1>8. form = 8 => arg = [hash |-> FALSE, val |-> val, index |-> "", close |-> TRUE, outer |-> TRUE, clean |-> TRUE]
  BY DEF arg, Args, Notation
<1> QED BY <1>1, <1>2, <1>3, <1>4, <1>5, <1>6, <1>7, <1>8

\* The modes that take the notation `form` of a value below 65536.
LEMMA FormTaken ==
    ASSUME form \in 2 .. 8, val \in Adr,
           NEW mode \in Modes \ {"REL"}, mode \in Accepting(parse(arg))
    PROVE  /\ modeTemplate(mode, val) = arg
           /\ mode \notin {"NONE", "ACC"}
           /\ mode \notin {"IMM", "ABS", "ABSX", "ABSY", "IND"} => val < 256
           /\ val < 256 => /\ mode = "ABS" => "ZP" \in Accepting(parse(arg))
                           /\ mode = "ABSX" => "ZPX" \in Accepting(parse(arg))
                           /\ mode = "ABSY" => "ZPY" \in Accepting(parse(arg))
<1>0. val \in Int /\ (val >= 0) = TRUE
  BY AdrIs
<1> DEFINE goal == /\ modeTemplate(mode, val) = arg
                   /\ mode \notin {"NONE", "ACC"}
                   /\ mode \notin {"IMM", "ABS", "ABSX", "ABSY", "IND"} => val < 256
                   /\ val < 256 => /\ mode = "ABS" => "ZP" \in Accepting(parse(arg))
                                   /\ mode = "ABSX" => "ZPX" \in Accepting(parse(arg))
                                   /\ mode = "ABSY" => "ZPY" \in Accepting(parse(arg))
<1>1. ASSUME form = 2 PROVE goal
  <2>1. parse(arg) = "IMM"
    BY <1>0, <1>1, ArgsAre, ParsedAs
  <2>2. mode = "IMM"
    BY <2>1, Accepts
  <2>3. modeTemplate("IMM", val) = arg
    BY <1>0, <1>1, ArgsAre, NotationIs
  <2> QED BY <2>2, <2>3
<1>2. ASSUME form = 3 PROVE goal
  <2>1. parse(arg) = IF val < 256 THEN "ZP" ELSE "ABS"
    BY <1>0, <1>2, ArgsAre, ParsedAs
  <2>2. mode \in {"ZP", "ABS"} /\ (mode = "ZP" => val < 256)
        /\ (val < 256 => "ZP" \in Accepting(parse(arg)))
    BY <2>1, Accepts
  <2>3. modeTemplate("ZP", val) = arg /\ modeTemplate("ABS", val) = arg
    BY <1>0, <1>2, ArgsAre, NotationIs
  <2> QED BY <2>2, <2>3
<1>3. ASSUME form = 4 PROVE goal
  <2>1. parse(arg) = IF val < 256 THEN "ZPX" ELSE "ABSX"
    BY <1>0, <1>3, ArgsAre, ParsedAs
  <2>2. mode \in {"ZPX", "ABSX"} /\ (mode = "ZPX" => val < 256)
        /\ (val < 256 => "ZPX" \in Accepting(parse(arg)))
    BY <2>1, Accepts
  <2>3. modeTemplate("ZPX", val) = arg /\ modeTemplate("ABSX", val) = arg
    BY <1>0, <1>3, ArgsAre, NotationIs
  <2> QED BY <2>2, <2>3
<1>4. ASSUME form = 5 PROVE goal
  <2>1. parse(arg) = IF val < 256 THEN "ZPY" ELSE "ABSY"
    BY <1>0, <1>4, ArgsAre, ParsedAs
  <2>2. mode \in {"ZPY", "ABSY"} /\ (mode = "ZPY" => val < 256)
        /\ (val < 256 => "ZPY" \in Accepting(parse(arg)))
    BY <2>1, Accepts
  <2>3. modeTemplate("ZPY", val) = arg /\ modeTemplate("ABSY", val) = arg
    BY <1>0, <1>4, ArgsAre, NotationIs
  <2> QED BY <2>2, <2>3
<1>5. ASSUME form = 6 PROVE goal
  <2>1. parse(arg) = "IND"
    BY <1>0, <1>5, ArgsAre, ParsedAs
  <2>2. mode = "IND"
    BY <2>1, Accepts
  <2>3. modeTemplate("IND", val) = arg
    BY <1>0, <1>5, ArgsAre, NotationIs
  <2> QED BY <2>2, <2>3
<1>6. ASSUME form = 7 PROVE goal
  <2>1. parse(arg) = IF val < 256 THEN "INDX" ELSE "BAD"
    BY <1>0, <1>6, ArgsAre, ParsedAs
  <2>2. mode = "INDX" /\ val < 256
    BY <2>1, Accepts DEF Modes, OperandModes
  <2>3. modeTemplate("INDX", val) = arg
    BY <1>0, <1>6, ArgsAre, NotationIs
  <2> QED BY <2>2, <2>3
<1>7. ASSUME form = 8 PROVE goal
  <2>1. parse(arg) = IF val < 256 THEN "INDY" ELSE "BAD"
    BY <1>0, <1>7, ArgsAre, ParsedAs
  <2>2. mode = "INDY" /\ val < 256
    BY <2>1, Accepts DEF Modes, OperandModes
  <2>3. modeTemplate("INDY", val) = arg
    BY <1>0, <1>7, ArgsAre, NotationIs
  <2> QED BY <2>2, <2>3
<1> HIDE DEF goal
<1>8. form \in {2, 3, 4, 5, 6, 7, 8}
  OBVIOUS
<1>9. goal
  BY <1>1, <1>2, <1>3, <1>4, <1>5, <1>6, <1>7, <1>8
<1> QED BY <1>9 DEF goal

LEMMA ArgIs ==
    ASSUME form \in 1 .. 8, val \in Int
    PROVE  IF form = 1 THEN arg = NoArg ELSE arg # NoArg /\ arg.val = val
<1>1. CASE form = 1
  BY <1>1, ArgsAre
<1>2. CASE form # 1
  <2>1. \A h, ix, cl, ou : LET n == Notation(h, ix, cl, ou) IN n # NoArg /\ n.val = val
    <3> TAKE h, ix, cl, ou
    <3>1. "hash" \in DOMAIN Notation(h, ix, cl, ou) /\ "hash" \notin DOMAIN NoArg
      BY DEF Notation, NoArg
    <3>2. Notation(h, ix, cl, ou).val = val
      BY DEF Notation
    <3> QED BY <3>1, <3>2
  <2>2. form \in {2, 3, 4, 5, 6, 7, 8}
    BY <1>2
  <2>3. \E h, ix, cl, ou : arg = Notation(h, ix, cl, ou)
    <3>1. form = 2 => arg = Notation(TRUE, "", FALSE, FALSE)
      BY DEF arg, Args
    <3>2. form = 3 => arg = Notation(FALSE, "", FALSE, FALSE)
      BY DEF arg, Args
    <3>3. form = 4 => arg = Notation(FALSE, "x", FALSE, FALSE)
      BY DEF arg, Args
    <3>4. form = 5 => arg = Notation(FALSE, "y", FALSE, FALSE)
      BY DEF arg, Args
    <3>5. form = 6 => arg = Notation(FALSE, "", TRUE, FALSE)
      BY DEF arg, Args
    <3>6. form = 7 => arg = Notation(FALSE, "x", TRUE, FALSE)
      BY DEF arg, Args
    <3>7. form = 8 => arg = Notation(FALSE, "", TRUE, TRUE)
      BY DEF arg, Args
    <3> QED BY <2>2, <3>1, <3>2, <3>3, <3>4, <3>5, <3>6, <3>7
  <2> QED BY <1>2, <2>1, <2>3
<1> QED BY <1>1, <1>2

\* The modes the notation of `mode` is taken for: that mode itself, a branch,
\* and of a mode and its short form the other one, the short form only for a
\* value below 256.
LEMMA TemplateTaken ==
    ASSUME NEW mode \in Modes \ {"NONE", "ACC"}, NEW v \in Nat,
           mode \in {"ZP", "ZPX", "ZPY", "INDX", "INDY"} => v < 256
    PROVE  LET a == modeTemplate(mode, v)
           IN  /\ a # NoArg /\ a.val = v
               /\ mode \in Accepting(parse(a))
               /\ mode # "REL" =>
                     \A m \in Accepting(parse(a)) :
                         \/ m = mode \/ m = "REL" \/ <<m, mode>> \in Shorter
                         \/ <<mode, m>> \in Shorter /\ v < 256
<1> DEFINE a == modeTemplate(mode, v)
           goal == /\ mode \in Accepting(parse(a))
                   /\ mode # "REL" =>
                         \A m \in Accepting(parse(a)) :
                             \/ m = mode \/ m = "REL" \/ <<m, mode>> \in Shorter
                             \/ <<mode, m>> \in Shorter /\ v < 256
<1>0. v \in Int /\ (v >= 0) = TRUE
  OBVIOUS
<1>1. a # NoArg /\ a.val = v
  <2>1. "hash" \in DOMAIN a /\ a.val = v
    BY DEF modeTemplate
  <2>2. "hash" \notin DOMAIN NoArg
    BY DEF NoArg
  <2> QED BY <2>1, <2>2
<1>2. ASSUME mode \in {"ZP", "ABS", "REL"} PROVE goal
  <2>1. parse(a) = IF v < 256 THEN "ZP" ELSE "ABS"
    BY <1>0, <1>2, NotationIs, ParsedAs
  <2>2. Accepting(parse(a)) = IF v < 256 THEN {"ZP", "ABS", "REL"} ELSE {"ABS", "REL"}
    BY <2>1, Accepts
  <2> HIDE DEF a
  <2> QED BY <1>2, <2>2 DEF Shorter
<1>3. ASSUME mode \in {"ZPX", "ABSX"} PROVE goal
  <2>1. parse(a) = IF v < 256 THEN "ZPX" ELSE "ABSX"
    BY <1>0, <1>3, NotationIs, ParsedAs
  <2>2. Accepting(parse(a)) = IF v < 256 THEN {"ZPX", "ABSX"} ELSE {"ABSX"}
    BY <2>1, Accepts
  <2> HIDE DEF a
  <2> QED BY <1>3, <2>2 DEF Shorter
<1>4. ASSUME mode \in {"ZPY", "ABSY"} PROVE goal
  <2>1. parse(a) = IF v < 256 THEN "ZPY" ELSE "ABSY"
    BY <1>0, <1>4, NotationIs, ParsedAs
  <2>2. Accepting(parse(a)) = IF v < 256 THEN {"ZPY", "ABSY"} ELSE {"ABSY"}
    BY <2>1, Accepts
  <2> HIDE DEF a
  <2> QED BY <1>4, <2>2 DEF Shorter
<1>5. ASSUME mode = "IMM" PROVE goal
  <2>1. parse(a) = "IMM"
    BY <1>0, <1>5, NotationIs, ParsedAs
  <2> QED BY <1>5, <2>1, Accepts
<1>6. ASSUME mode = "IND" PROVE goal
  <2>1. parse(a) = "IND"
    BY <1>0, <1>6, NotationIs, ParsedAs
  <2> QED BY <1>6, <2>1, Accepts
<1>7. ASSUME mode = "INDX" PROVE goal
  <2>1. parse(a) = "INDX"
    BY <1>0, <1>7, NotationIs, ParsedAs
  <2> QED BY <1>7, <2>1, Accepts
<1>8. ASSUME mode = "INDY" PROVE goal
  <2>1. parse(a) = "INDY"
    BY <1>0, <1>8, NotationIs, ParsedAs
  <2> QED BY <1>8, <2>1, Accepts
<1> HIDE DEF goal
<1>9. mode \in {"IMM", "ZP", "ZPX", "ZPY", "INDX", "INDY", "ABS", "ABSX", "ABSY", "REL", "IND"}
  BY DEF Modes, OperandModes
<1>10. goal
  BY <1>2, <1>3, <1>4, <1>5, <1>6, <1>7, <1>8, <1>9
<1> QED BY <1>1, <1>10 DEF goal

LEMMA SignedInt == ASSUME NEW b \in Byte PROVE Signed8(b) \in Int
BY DEF Byte, Signed8

\* A byte as a distance, printed and assembled again.
LEMMA DistanceBack ==
    ASSUME NEW b \in Byte, NEW pc \in Int
    PROVE  lo(Distance(Signed8(b) + 2 + pc, pc)) = b
<1>1. Signed8(b) \in Int
  BY DEF Signed8, Byte
<1>2. Distance(Signed8(b) + 2 + pc, pc) = Signed8(b)
  BY <1>1 DEF Distance
<1> QED BY <1>2 DEF Signed8, Byte, lo

-----------------------------------------------------------------------------
(* The lines *)

LineInv == ins \in DOMAIN Instructions /\ form \in 1 .. 8 /\ val \in Adr /\ org \in Adr

LEMMA LineStays == Spec => []LineInv
<1>1. Len(Args) = 8
  BY DEF Args
<1>2. Init => LineInv
  BY TableEntry, ReferenceAssumption DEF Init, LineInv
<1>3. LineInv /\ [Next]_<<ins, form, val, org>> => LineInv'
  BY <1>1, TableEntry DEF Next, LineInv
<1> QED BY <1>2, <1>3, PTL DEF Spec

\* The row the line is assembled by.
LEMMA LineRow ==
    ASSUME LineInv
    PROVE  /\ EntryAt(line, ins) /\ ins \in 1 .. 56
           /\ IF Taking(line, arg) = {} THEN bytes = <<>>
              ELSE \E k \in Taking(line, arg) :
                      /\ \A l \in Taking(line, arg) : ~(l < k)
                      /\ bytes = Encoded(line.opcodes[k], arg, org)
<1>1. ins \in 1 .. 56
  BY TableEntry DEF LineInv
<1> QED BY <1>1, TableEntry, LineChosen DEF line, bytes

\* A line that is assembled is encoded as it is written, whatever its
\* operand: the jump table has the operation of the instruction for the first
\* byte, the mode the notation asks for, and the operand in the shortest form
\* the instruction has (assembler.cpp assembleLine; the table of emulator.h).
THEOREM EncodesEveryLine == Spec => []EncodesTheLine
<1>1. LineInv => EncodesTheLine
  <2> SUFFICES ASSUME LineInv, bytes # <<>>, line.name \notin Branches
               PROVE  EncodesTheLine
    BY DEF EncodesTheLine
  <2> DEFINE x == line
             Modes1 == {x.opcodes[n].mode : n \in DOMAIN x.opcodes}
  <2>1. /\ EntryAt(x, ins) /\ ins \in 1 .. 56 /\ x = Instructions[ins]
        /\ form \in 1 .. 8 /\ val \in Adr /\ val \in Int
    <3>1. EntryAt(x, ins) /\ ins \in 1 .. 56
      BY LineRow
    <3>2. form \in 1 .. 8 /\ val \in Adr
      BY DEF LineInv
    <3>3. val \in Int
      BY <3>2 DEF Adr
    <3>4. x = Instructions[ins]
      BY DEF line
    <3> QED BY <3>1, <3>2, <3>3, <3>4
  <2>2. PICK k \in Taking(x, arg) : /\ \A l \in Taking(x, arg) : ~(l < k)
                                    /\ bytes = Encoded(x.opcodes[k], arg, org)
    BY LineRow
  <2> DEFINE row == x.opcodes[k]
             r == JumpTables.normal[bytes[1]]
  <2>3. /\ k \in DOMAIN x.opcodes
        /\ row.mode \in Accepting(IF arg = NoArg THEN "NONE" ELSE parse(arg))
    BY DEF Taking
  <2>4. /\ row.mode \in Modes \ {"REL"} /\ row.op = x.opcodes[1].op
    BY <2>1, <2>3, RowAlone
  <2>5. IF form = 1 THEN arg = NoArg ELSE arg # NoArg /\ arg.val = val
    BY <2>1, ArgIs
  <2>6. ASSUME form # 1
        PROVE  /\ modeTemplate(row.mode, val) = arg
               /\ row.mode \notin {"NONE", "ACC"}
               /\ row.mode \notin {"IMM", "ABS", "ABSX", "ABSY", "IND"} => val < 256
               /\ val < 256 => /\ row.mode = "ABS" => "ZP" \in Accepting(parse(arg))
                               /\ row.mode = "ABSX" => "ZPX" \in Accepting(parse(arg))
                               /\ row.mode = "ABSY" => "ZPY" \in Accepting(parse(arg))
    <3>1. form \in 2 .. 8
      BY <2>1, <2>6
    <3>2. row.mode \in Accepting(parse(arg))
      BY <2>3, <2>5, <2>6
    <3> HIDE DEF row
    <3> QED BY <2>1, <2>4, <3>1, <3>2, FormTaken
  <2>7. form = 1 => row.mode = "NONE"
    BY <2>3, <2>5, Accepts
  <2>8. /\ Len(bytes) = opSize(row.mode) /\ bytes[1] = row.code
        /\ opSize(row.mode) # 1 => bytes[2] = lo(arg.val)
        /\ opSize(row.mode) = 3 => bytes[3] = lo(hi(arg.val))
    <3>1. bytes = Encoded(row, arg, org)
      BY <2>2
    <3> HIDE DEF row
    <3> QED BY <2>4, <3>1, EncodedAs
  <2>9. /\ r.op = row.op
        /\ r = row \/ (row.mode = "NONE" /\ r.mode = "ACC")
    <3>1. bytes[1] = Instructions[ins].opcodes[k].code /\ row = Instructions[ins].opcodes[k]
      BY <2>1, <2>8
    <3>2. k \in DOMAIN Instructions[ins].opcodes /\ ins \in 1 .. 56
      BY <2>1, <2>3
    <3>3. LET q == Instructions[ins].opcodes[k]
              j == JumpTables.normal[q.code]
          IN  j.op = q.op /\ (j = q \/ (q.mode = "NONE" /\ j.mode = "ACC"))
      BY <3>2, JumpRow
    <3> HIDE DEF row
    <3> QED BY <3>1, <3>3
  <2>10. ASSUME NEW s, <<row.mode, s>> \in Shorter, s \in Accepting(parse(arg)), form # 1
         PROVE  s \notin Modes1
    <3> SUFFICES ASSUME NEW l \in DOMAIN x.opcodes, x.opcodes[l].mode = s PROVE FALSE
      OBVIOUS
    <3>1. l \in Taking(x, arg)
      BY <2>5, <2>10 DEF Taking
    <3>2. ~(l < k) /\ l \in Nat /\ k \in Nat
      BY <2>1, <2>2, <2>3, <3>1, RowAlone
    <3>3. k < l => <<row.mode, s>> \notin Shorter
      BY <2>1, <2>3, RowPair
    <3>4. k = l => row.mode = s
      OBVIOUS
    <3>5. row.mode # s
      BY <2>10 DEF Shorter
    <3> QED BY <2>10, <3>2, <3>3, <3>4, <3>5
  <2> HIDE DEF row, r, x
  <2>11. Len(bytes) = opSize(r.mode)
    <3>1. opSize("NONE") = opSize("ACC")
      BY DEF opSize
    <3> QED BY <2>8, <2>9, <3>1
  <2>12. ASSUME arg # NoArg
         PROVE  /\ modeTemplate(r.mode, val) = arg
                /\ r.mode # "IMM" =>
                      val = bytes[2] + (IF Len(bytes) = 3 THEN 256 * bytes[3] ELSE 0)
                /\ r.mode = "IMM" => bytes[2] = lo(val)
                /\ r.mode = "ABS" /\ val < 256 => "ZP" \notin Modes1
                /\ r.mode = "ABSX" /\ val < 256 => "ZPX" \notin Modes1
                /\ r.mode = "ABSY" /\ val < 256 => "ZPY" \notin Modes1
    <3>1. form # 1 /\ arg.val = val
      BY <2>5, <2>12
    <3>2. r = row /\ r.mode \notin {"NONE", "ACC"} /\ r.mode \in Modes \ {"REL"}
      BY <2>4, <2>6, <2>9, <3>1
    <3>3. opSize(r.mode) = IF r.mode \in {"ABS", "ABSX", "ABSY", "IND"} THEN 3 ELSE 2
      BY <3>2 DEF opSize
    <3>4. r.mode \notin {"IMM", "ABS", "ABSX", "ABSY", "IND"} => val < 256
      BY <2>6, <3>1, <3>2
    <3>5. /\ val = lo(val) + 256 * lo(hi(val)) /\ lo(val) \in Int
          /\ val < 256 => lo(val) = val
      <4>1. Byte \subseteq Int
        BY DEF Byte
      <4> QED BY <2>1, <4>1, WordBytes
    <3>6. bytes[2] = lo(val) /\ (Len(bytes) = 3 => bytes[3] = lo(hi(val)))
      BY <2>8, <2>11, <3>1, <3>2, <3>3
    <3>7. r.mode # "IMM" => val = bytes[2] + (IF Len(bytes) = 3 THEN 256 * bytes[3] ELSE 0)
      BY <2>11, <3>3, <3>4, <3>5, <3>6
    <3>8. /\ r.mode = "ABS" /\ val < 256 => "ZP" \notin Modes1
          /\ r.mode = "ABSX" /\ val < 256 => "ZPX" \notin Modes1
          /\ r.mode = "ABSY" /\ val < 256 => "ZPY" \notin Modes1
      <4>1. {<<"ABS", "ZP">>, <<"ABSX", "ZPX">>, <<"ABSY", "ZPY">>} \subseteq Shorter
        BY DEF Shorter
      <4> QED BY <2>6, <2>10, <3>1, <3>2, <4>1
    <3> QED BY <2>6, <3>1, <3>2, <3>6, <3>7, <3>8
  <2>13. r.op = line.opcodes[1].op
    BY <2>4, <2>9 DEF x
  <2> QED BY <2>11, <2>12, <2>13 DEF EncodesTheLine, r, x
<1> QED BY <1>1, LineStays, PTL

\* A branch is assembled for every target from every address, and reaches it
\* exactly when it is in the range of a signed byte, whatever the values and
\* origins (assembler.cpp:87).
THEOREM BranchesLand == Spec => []BranchLands
<1>1. LineInv => BranchLands
  <2> SUFFICES ASSUME LineInv, line.name \in Branches, form = 3
               PROVE  /\ Len(bytes) = 2
                      /\ org + 2 + Signed8(bytes[2]) = val <=> val - org \in -126 .. 129
    BY DEF BranchLands
  <2> DEFINE x == line
  <2>1. EntryAt(x, ins)
    BY LineRow
  <2>2. val \in Int /\ org \in Int /\ form \in 1 .. 8
    BY DEF LineInv, Adr
  <2>3. arg # NoArg /\ arg.val = val
    BY <2>2, ArgIs
  <2>4. "REL" \in Accepting(parse(arg))
    <3>1. parse(arg) \in {"ZP", "ABS"}
      BY <2>2, ArgsAre, ParsedAs
    <3> QED BY <3>1, Accepts
  <2>5. 1 \in Taking(x, arg)
    <3>1. 1 \in DOMAIN x.opcodes
      BY <2>1 DEF EntryAt
    <3>2. x.opcodes[1].mode = "REL"
      BY <2>1, <3>1, RowAlone
    <3> QED BY <2>3, <2>4, <3>1, <3>2 DEF Taking
  <2>6. PICK k \in Taking(x, arg) : bytes = Encoded(x.opcodes[k], arg, org)
    BY <2>5, LineRow
  <2>7. x.opcodes[k].mode = "REL"
    <3>1. k \in DOMAIN x.opcodes
      BY DEF Taking
    <3> QED BY <2>1, <3>1, RowAlone
  <2>8. Len(bytes) = 2 /\ bytes[2] = lo(Distance(val, org))
    BY <2>3, <2>6, <2>7, EncodedBranch
  <2> QED BY <2>2, <2>8, DistanceReaches
<1> QED BY <1>1, LineStays, PTL

-----------------------------------------------------------------------------
(* Listings *)

\* The operand a listing shows assembles to the row it was taken from, or to
\* the short form of it.
FromListing(i, k, v, pc, again) ==
    LET x    == Instructions[i]
        mode == x.opcodes[k].mode
    IN  /\ i \in 1 .. 56 /\ k \in DOMAIN x.opcodes /\ mode \notin {"NONE", "ACC"}
        /\ v \in Nat /\ pc \in Int
        /\ mode \in {"ZP", "ZPX", "ZPY", "INDX", "INDY"} => v < 256
        /\ again = assembleLine(x.name, modeTemplate(mode, v), pc)

SameOrShort(i, k, v, pc, again) ==
    LET x    == Instructions[i]
        mode == x.opcodes[k].mode
        a    == modeTemplate(mode, v)
    IN  /\ a # NoArg /\ a.val = v
        /\ \/ again = Encoded(x.opcodes[k], a, pc)
           \/ /\ mode \in {"ABS", "ABSX", "ABSY"} /\ v < 256
              /\ Len(again) = 2 /\ again[2] = lo(v)

LEMMA Reassembled ==
    ASSUME NEW i, NEW k, NEW v, NEW pc, NEW again, FromListing(i, k, v, pc, again)
    PROVE  SameOrShort(i, k, v, pc, again)
<1>0. PICK x, mode, a :
         /\ i \in 1 .. 56 /\ x = Instructions[i] /\ k \in DOMAIN x.opcodes
         /\ mode = x.opcodes[k].mode /\ mode \notin {"NONE", "ACC"}
         /\ v \in Nat /\ pc \in Int
         /\ mode \in {"ZP", "ZPX", "ZPY", "INDX", "INDY"} => v < 256
         /\ a = modeTemplate(mode, v) /\ again = assembleLine(x.name, a, pc)
  BY DEF FromListing
<1> USE <1>0
<1>1. EntryAt(x, i)
  BY TableEntry
<1>2. mode \in Modes
  BY <1>1, RowAlone
<1>3. /\ a # NoArg /\ a.val = v
      /\ mode \in Accepting(parse(a))
      /\ mode # "REL" =>
            \A m \in Accepting(parse(a)) :
                \/ m = mode \/ m = "REL" \/ <<m, mode>> \in Shorter
                \/ <<mode, m>> \in Shorter /\ v < 256
  BY <1>2, TemplateTaken
<1>4. IF Taking(x, a) = {} THEN again = <<>>
      ELSE \E l \in Taking(x, a) : /\ \A n \in Taking(x, a) : ~(n < l)
                                   /\ again = Encoded(x.opcodes[l], a, pc)
  BY LineChosen
<1>6. k \in Taking(x, a)
  BY <1>3 DEF Taking
<1>7. PICK l \in Taking(x, a) : /\ \A n \in Taking(x, a) : ~(n < l)
                                /\ again = Encoded(x.opcodes[l], a, pc)
  BY <1>4, <1>6
<1>8. l \in DOMAIN x.opcodes /\ x.opcodes[l].mode \in Accepting(parse(a))
  BY <1>3 DEF Taking
<1>9. l \in Nat /\ k \in Nat /\ ~(k < l)
  BY <1>1, <1>6, <1>7, <1>8, RowAlone
<1>10. x.opcodes[l].mode = "REL" <=> mode = "REL"
  BY <1>1, <1>8, RowAlone
<1> SUFFICES \/ again = Encoded(x.opcodes[k], a, pc)
             \/ /\ mode \in {"ABS", "ABSX", "ABSY"} /\ v < 256
                /\ Len(again) = 2 /\ again[2] = lo(v)
  BY <1>3 DEF SameOrShort
<1>11. CASE x.opcodes[l].mode = mode
  BY <1>1, <1>3, <1>7, <1>8, <1>11, OneRow
<1>12. CASE x.opcodes[l].mode # mode
  <2> DEFINE m == x.opcodes[l].mode
  <2>1. l < k
    BY <1>9, <1>12
  <2>2. <<m, mode>> \notin Shorter
    BY <1>1, <1>8, <2>1, RowPair
  <2>3. <<mode, m>> \in Shorter /\ v < 256
    BY <1>3, <1>8, <1>10, <1>12, <2>2
  <2>4. mode \in {"ABS", "ABSX", "ABSY"} /\ m \in {"ZP", "ZPX", "ZPY"}
    BY <2>3 DEF Shorter
  <2>5. opSize(m) = 2 /\ m \notin {"NONE", "REL"}
    BY <2>4 DEF opSize
  <2>6. Len(again) = 2 /\ again[2] = lo(v)
    BY <1>3, <1>7, <2>5, EncodedAs
  <2> QED BY <1>3, <2>3, <2>4, <2>6
<1> QED BY <1>11, <1>12

\* A line that was disassembled assembles to the bytes it was made from, for
\* every row of the table, operand and address, but for the short form of an
\* absolute operand below 256 (monitor.h disasm; assembler.cpp assembleLine).
THEOREM ListingsReassemble == Spec => []ListingReassembles
<1>1. LineInv => ListingReassembles
  <2> SUFFICES ASSUME LineInv, form \in DOMAIN line.opcodes
               PROVE  ListingReassembles
    <3>1. LineInv /\ form <= Len(line.opcodes) => form \in DOMAIN line.opcodes
      BY LineRow DEF LineInv, EntryAt
    <3> QED BY <3>1 DEF ListingReassembles
  <2> DEFINE x     == line
             r     == x.opcodes[form]
             n     == opSize(r.mode)
             code  == SubSeq(<<r.code, lo(val), hi(val)>>, 1, n)
             mem   == code \o <<0, 0>>
             shown == disasm(org, mem)
             again == assembleLine(shown.name, shown.arg, org)
             rows  == {s \in Rows : RowAt(s).code = mem[1]}
  <2>1. EntryAt(x, ins) /\ ins \in 1 .. 56
    BY LineRow
  <2>2. x = Instructions[ins]
    BY DEF line
  <2>3. val \in Adr /\ org \in Int /\ form \in 1 .. 8
    <3>1. val \in Adr /\ org \in Adr /\ form \in 1 .. 8
      BY DEF LineInv
    <3> QED BY <3>1, WordsAreInts
  <2>4. form \in DOMAIN x.opcodes
    OBVIOUS
  <2>5. n \in {1, 2, 3}
    BY SizeIs
  <2>6. code = Cut(r.code, lo(val), hi(val), n)
    BY DEF Cut
  <2> HIDE DEF code, n, x, mem
  <2> HIDE DEF r
  <2>7. mem[1] = r.code /\ (n # 1 => mem[2] = lo(val)) /\ (n = 3 => mem[3] = hi(val))
    <3>1. mem = code \o <<0, 0>>
      BY DEF mem
    <3>2. Behind(mem, r.code, lo(val), hi(val), n)
      BY <2>5, <2>6, <3>1 DEF Behind
    <3> QED BY <3>2, CutRead
  <2>8. Len(code) = n
    BY <2>5, <2>6, CutLen
  <2>9. /\ n = 1 => code = <<r.code>>
        /\ n = 2 => code = <<r.code, lo(val)>>
        /\ n = 3 => code = <<r.code, lo(val), hi(val)>>
    <3>1. n = 1 => code = <<r.code>>
      BY <2>6, CutIs
    <3>2. n = 2 => code = <<r.code, lo(val)>>
      BY <2>6, CutIs
    <3>3. n = 3 => code = <<r.code, lo(val), hi(val)>>
      BY <2>6, CutIs
    <3> QED BY <3>1, <3>2, <3>3
  <2>10. PICK k \in DOMAIN x.opcodes :
            /\ FirstOf(rows) = <<ins, k>> /\ rows # {}
            /\ x.opcodes[k].code = r.code /\ x.opcodes[k].mode # "ACC"
            /\ k = form \/ (x.opcodes[k].mode = "NONE" /\ r.mode = "ACC")
    <3>1. rows = {s \in Rows : RowAt(s).code = x.opcodes[form].code}
      BY <2>7 DEF r
    <3> HIDE DEF rows
    <3>2. HaveCodeOf(rows, ins, form)
      BY <2>1, <2>2, <2>4, <3>1 DEF HaveCodeOf
    <3>3. FirstShows(rows, ins, form)
      BY <3>2, RowShown
    <3> QED BY <2>2, <3>3 DEF FirstShows, r
  <2> DEFINE mode == x.opcodes[k].mode
             v == CASE mode = "REL"      -> Signed8(mem[2]) + 2 + org
                    [] opSize(mode) = 3  -> to_adr(mem[2], mem[3])
                    [] OTHER             -> mem[2]
  <2>11. shown = [name |-> x.name, arg |-> modeTemplate(mode, v), size |-> opSize(mode)]
    <3>1. RowAt(<<ins, k>>).mode = mode /\ Instructions[(<<ins, k>>)[1]].name = x.name
      BY <2>2 DEF RowAt
    <3> HIDE DEF mode
    <3> QED BY <2>10, <3>1 DEF disasm
  <2>12. shown.name = x.name /\ shown.arg = modeTemplate(mode, v) /\ shown.size = opSize(mode)
    <3> HIDE DEF shown, mode, v
    <3> QED BY <2>11
  <2>13. mode \in Modes \ {"ACC"}
    BY <2>1, <2>10, RowAlone
  <2>14. opSize(mode) = n
    <3>1. opSize("NONE") = opSize("ACC")
      BY DEF opSize
    <3> QED BY <2>10, <3>1 DEF n, r
  <2> HIDE DEF shown, v, mode, rows
  <2>15. again = assembleLine(x.name, modeTemplate(mode, v), org)
    BY <2>12
  <2> HIDE DEF again
  <2>16. ASSUME mode = "NONE" PROVE again = code
    <3>1. modeTemplate(mode, v) = NoArg
      BY <2>16 DEF modeTemplate
    <3>2. \A l \in Taking(x, NoArg) : l = k
      BY <2>1, <2>16, Accepts, OneRow DEF Taking, mode
    <3>3. k \in Taking(x, NoArg)
      BY <2>16, Accepts DEF Taking, mode
    <3>4. again = Encoded(x.opcodes[k], NoArg, org)
      BY <2>1, <2>2, <2>15, <3>1, <3>2, <3>3, LineChosen
    <3>5. n = 1
      BY <2>14, <2>16 DEF opSize
    <3>6. opSize(x.opcodes[k].mode) = 1 /\ x.opcodes[k].mode = "NONE"
      BY <2>16, <2>14, <3>5 DEF mode
    <3>7. again = <<x.opcodes[k].code>>
      BY <3>4, <3>6, EncodedAs
    <3> QED BY <2>9, <2>10, <3>5, <3>7
  <2>17. ASSUME mode = "REL", shown.arg = NoArg \/ shown.arg.clean PROVE again = code
    <3>1. n = 2 /\ v = Signed8(lo(val)) + 2 + org /\ k = form
      BY <2>7, <2>10, <2>14, <2>17 DEF opSize, v, mode
    <3>2. lo(val) \in Byte
      BY <2>3, WordBytes
    <3>3. v \in Int
      <4>1. Signed8(lo(val)) \in Int
        BY <3>2, SignedInt
      <4> QED BY <2>3, <3>1, <4>1
    <3> DEFINE c == v >= 0
               e == ""
    <3>4. shown.arg = [hash |-> FALSE, val |-> v, index |-> e, close |-> FALSE, outer |-> FALSE, clean |-> c]
      BY <2>12, <2>17, <3>3, NotationIs
    <3>5. v \in Nat
      <4>1. shown.arg # NoArg
        <5>1. "hash" \in DOMAIN shown.arg /\ "hash" \notin DOMAIN NoArg
          BY <3>4 DEF NoArg
        <5> QED BY <5>1
      <4>2. c
        <5> HIDE DEF c, e
        <5>1. shown.arg.clean = c
          BY <3>4
        <5> QED BY <2>17, <4>1, <5>1
      <4> QED BY <3>3, <4>2
    <3>6. again = Encoded(x.opcodes[k], modeTemplate(mode, v), org) /\ modeTemplate(mode, v).val = v
      <4>1. FromListing(ins, k, v, org, again)
        BY <2>1, <2>2, <2>3, <2>10, <2>15, <2>17, <3>5 DEF FromListing, mode
      <4>2. SameOrShort(ins, k, v, org, again)
        BY <4>1, Reassembled
      <4> QED BY <2>2, <2>17, <4>2 DEF SameOrShort, mode
    <3>7. again = <<r.code, lo(Distance(v, org))>>
      BY <2>10, <2>17, <3>6, EncodedBranch DEF mode
    <3> QED BY <2>3, <2>9, <3>1, <3>2, <3>7, DistanceBack
  <2>18. ASSUME mode \notin {"NONE", "REL"}
         PROVE  \/ again = code
                \/ Len(code) = 3 /\ val < 256 /\ Len(again) = 2 /\ again[2] = val
    <3>1. /\ val = lo(val) + 256 * lo(hi(val)) /\ lo(hi(val)) = hi(val)
          /\ lo(val) \in Byte
          /\ val < 256 => lo(val) = val
          /\ to_adr(lo(val), hi(val)) = val
      BY <2>3, WordBytes
    <3>2. n = IF mode \in {"IND", "ABS", "ABSX", "ABSY"} THEN 3 ELSE 2
      BY <2>13, <2>14, <2>18 DEF opSize
    <3>3. v = IF n = 3 THEN val ELSE lo(val)
      BY <2>7, <2>14, <2>18, <3>1, <3>2 DEF v
    <3>4. v \in Nat /\ (n = 2 => v < 256)
      BY <2>3, <3>1, <3>2, <3>3, WordsAreInts
    <3>5. k = form
      BY <2>10, <2>18 DEF mode
    <3> DEFINE a == modeTemplate(mode, v)
    <3>6. /\ a # NoArg /\ a.val = v
          /\ \/ again = Encoded(x.opcodes[k], a, org)
             \/ /\ mode \in {"ABS", "ABSX", "ABSY"} /\ v < 256
                /\ Len(again) = 2 /\ again[2] = lo(v)
      <4>1. mode \notin {"NONE", "ACC"} /\ (mode \in {"ZP", "ZPX", "ZPY", "INDX", "INDY"} => v < 256)
        BY <2>13, <2>18, <3>2, <3>4
      <4>2. FromListing(ins, k, v, org, again)
        BY <2>1, <2>2, <2>3, <2>10, <2>15, <3>4, <4>1 DEF FromListing, mode
      <4>3. SameOrShort(ins, k, v, org, again)
        BY <4>2, Reassembled
      <4> QED BY <2>2, <4>3 DEF SameOrShort, mode
    <3> HIDE DEF a
    <3>7. CASE again = Encoded(x.opcodes[k], a, org)
      <4>1. lo(v) = lo(val)
        BY <3>1, <3>3, LowLow
      <4>2. /\ n = 2 => again = <<r.code, lo(val)>>
            /\ n = 3 => again = <<r.code, lo(val), lo(hi(val))>>
        BY <2>10, <2>14, <2>18, <3>3, <3>4, <3>6, <3>7, <4>1, EncodedAs DEF mode
      <4> QED BY <2>9, <3>1, <3>2, <4>2
    <3>8. CASE /\ mode \in {"ABS", "ABSX", "ABSY"} /\ v < 256
               /\ Len(again) = 2 /\ again[2] = lo(v)
      BY <2>8, <3>1, <3>2, <3>3, <3>8
    <3> QED BY <3>6, <3>7, <3>8
  <2>19. shown.size = Len(code)
    BY <2>8, <2>12, <2>14
  <2>20. shown.arg = NoArg \/ shown.arg.clean =>
            \/ again = code
            \/ Len(code) = 3 /\ val < 256 /\ Len(again) = 2 /\ again[2] = val
    BY <2>16, <2>17, <2>18
  <2> QED BY <2>19, <2>20 DEF ListingReassembles, again, shown, mem, code, n, r, x
<1> QED BY <1>1, LineStays, PTL

=============================================================================
