--------------------------- MODULE MonitorProofs ---------------------------
(***************************************************************************)
(* AssembledShows of Monitor, for all files, lines and memory images: what *)
(* "a" assembles, "d" lists.                                               *)
(*                                                                         *)
(* LineListed has the operators: of the bytes a line is assembled to, the  *)
(* disassembler makes the instruction, the operand in its plain notation   *)
(* and the number of bytes.  MonInv has the state: as long as a line is    *)
(* kept in `last`, the program waits for the next one, the bytes of the    *)
(* line are in RAM and nothing is mapped over them.  For that `start` must *)
(* be an address whatever was typed before, and the pc the monitor starts  *)
(* from a number, so MonInv has both.                                      *)
(***************************************************************************)
EXTENDS Monitor, OperatorLemmas

-----------------------------------------------------------------------------
(* The assembler of the monitor and that of the files are the same code *)

LEMMA SameInstructions == Asm!Instructions = Instructions
<1>1. Asm!LoadRows = LoadRows
  BY DEF Asm!LoadRows, LoadRows, Asm!Entry, Entry
<1>2. Asm!StoreRows = StoreRows
  BY DEF Asm!StoreRows, StoreRows, Asm!Entry, Entry
<1>3. Asm!IncRows = IncRows
  BY DEF Asm!IncRows, IncRows, Asm!Entry, Entry, Asm!Modify4, Modify4
<1>4. Asm!RegisterRows = RegisterRows
  BY DEF Asm!RegisterRows, RegisterRows, Asm!Implied, Implied, Asm!Entry, Entry
<1>5. Asm!StackRows = StackRows
  BY DEF Asm!StackRows, StackRows, Asm!Implied, Implied, Asm!Entry, Entry
<1>6. Asm!BranchRows = BranchRows
  BY DEF Asm!BranchRows, BranchRows, Asm!Entry, Entry
<1>7. Asm!ArithmeticRows(FALSE) = ArithmeticRows(FALSE)
  BY DEF Asm!ArithmeticRows, ArithmeticRows, Asm!Operand8, Operand8, Asm!Entry, Entry
<1>8. Asm!LogicRows = LogicRows
  BY DEF Asm!LogicRows, LogicRows, Asm!Operand8, Operand8, Asm!Entry, Entry
<1>9. Asm!FlagRows = FlagRows
  BY DEF Asm!FlagRows, FlagRows, Asm!Implied, Implied, Asm!Entry, Entry
<1>10. Asm!ShiftRows = ShiftRows
  BY DEF Asm!ShiftRows, ShiftRows, Asm!Shift6, Shift6, Asm!Modify4, Modify4, Asm!Entry, Entry
<1>11. Asm!BitRows = BitRows
  BY DEF Asm!BitRows, BitRows, Asm!Entry, Entry
<1>12. Asm!ControlRows = ControlRows
  BY DEF Asm!ControlRows, ControlRows, Asm!Implied, Implied, Asm!Entry, Entry
<1>13. Asm!Implied("nop", \hea, 2, [fn |-> "Nop"]) = Implied("nop", \hea, 2, [fn |-> "Nop"])
  BY DEF Asm!Implied, Implied, Asm!Entry, Entry
<1>14. Asm!getInstructions(FALSE) = getInstructions(FALSE)
  BY <1>1, <1>2, <1>3, <1>4, <1>5, <1>6, <1>7, <1>8, <1>9, <1>10, <1>11, <1>12, <1>13
     DEF Asm!getInstructions, getInstructions
<1> QED BY <1>14 DEF Asm!Instructions, Instructions

LEMMA SameAssembler ==
    ASSUME NEW name, NEW a, NEW p
    PROVE  Asm!assembleLine(name, a, p) = assembleLine(name, a, p)
<1>1. Asm!Rows = Rows
  BY SameInstructions DEF Asm!Rows, Rows
<1>2. \A r : Asm!RowAt(r) = RowAt(r)
  BY SameInstructions DEF Asm!RowAt, RowAt
<1>3. Asm!NoArg = NoArg
  BY DEF Asm!NoArg, NoArg
<1>4. Asm!parse(a) = parse(a)
  BY DEF Asm!parse, parse
<1>5. \A m : Asm!Accepting(m) = Accepting(m)
  BY DEF Asm!Accepting, Accepting
<1>6. \A S : Asm!FirstOf(S) = FirstOf(S)
  BY DEF Asm!FirstOf, FirstOf, Asm!Before, Before
<1>7. \A t, q : Asm!Distance(t, q) = Distance(t, q)
  BY DEF Asm!Distance, Distance
<1>8. \A v : Asm!lo(v) = lo(v) /\ Asm!hi(v) = hi(v)
  BY DEF Asm!lo, lo, Asm!hi, hi
<1>9. \A m : Asm!opSize(m) = opSize(m)
  BY DEF Asm!opSize, opSize
<1> QED BY SameInstructions, <1>1, <1>2, <1>3, <1>4, <1>5, <1>6, <1>7, <1>8, <1>9
        DEF Asm!assembleLine, assembleLine


-----------------------------------------------------------------------------
(* What a listing shows of an assembled line *)

\* The operands the grammar makes.
Written(h, v, ix, cl, ou, c) ==
    [hash |-> h, val |-> v, index |-> ix, close |-> cl, outer |-> ou, clean |-> c]

Indices == {"", "x", "y"}

IsOperand(a) ==
    \E v : \E h, cl, ou, c \in BOOLEAN : \E ix \in Indices :
        /\ a = Written(h, v, ix, cl, ou, c)
        /\ ou => cl
        /\ h => ~cl

\* What is left of a notation.
LEMMA PlainIs ==
    ASSUME NEW v, NEW ix, NEW ou \in BOOLEAN
    PROVE  /\ Plain(Written(TRUE, v, ix, FALSE, FALSE, TRUE)) = Written(TRUE, v, "", FALSE, FALSE, TRUE)
           /\ Plain(Written(FALSE, v, "x", TRUE, ou, TRUE)) = Written(FALSE, v, "x", TRUE, FALSE, TRUE)
           /\ ix \in Indices /\ ix # "x" =>
                 Plain(Written(FALSE, v, ix, TRUE, TRUE, TRUE)) = Written(FALSE, v, "", TRUE, TRUE, TRUE)
           /\ Plain(Written(FALSE, v, "", TRUE, FALSE, TRUE)) = Written(FALSE, v, "", TRUE, FALSE, TRUE)
           /\ Plain(Written(FALSE, v, ix, FALSE, FALSE, TRUE)) = Written(FALSE, v, ix, FALSE, FALSE, TRUE)
<1>1. Plain(Written(TRUE, v, ix, FALSE, FALSE, TRUE)) = Written(TRUE, v, "", FALSE, FALSE, TRUE)
  <2> DEFINE a == Written(TRUE, v, ix, FALSE, FALSE, TRUE)
  <2>1. a # NoArg
    BY DEF Written, NoArg
  <2>2. /\ a.hash = TRUE /\ a.index = ix /\ a.close = FALSE /\ a.outer = FALSE
        /\ a.val = v /\ a.clean = TRUE
        /\ DOMAIN a = {"hash", "val", "index", "close", "outer", "clean"}
    BY DEF Written
  <2> QED BY <2>1, <2>2 DEF Plain, Written
<1>2. Plain(Written(FALSE, v, "x", TRUE, ou, TRUE)) = Written(FALSE, v, "x", TRUE, FALSE, TRUE)
  <2> DEFINE a == Written(FALSE, v, "x", TRUE, ou, TRUE)
  <2>1. a # NoArg
    BY DEF Written, NoArg
  <2>2. /\ a.hash = FALSE /\ a.index = "x" /\ a.close = TRUE /\ a.outer = ou
        /\ a.val = v /\ a.clean = TRUE
        /\ DOMAIN a = {"hash", "val", "index", "close", "outer", "clean"}
    BY DEF Written
  <2> QED BY <2>1, <2>2 DEF Plain, Written
<1>3. ASSUME ix \in Indices, ix # "x" PROVE Plain(Written(FALSE, v, ix, TRUE, TRUE, TRUE)) = Written(FALSE, v, "", TRUE, TRUE, TRUE)
  <2> DEFINE a == Written(FALSE, v, ix, TRUE, TRUE, TRUE)
  <2>1. a # NoArg
    BY DEF Written, NoArg
  <2>2. /\ a.hash = FALSE /\ a.index = ix /\ a.close = TRUE /\ a.outer = TRUE
        /\ a.val = v /\ a.clean = TRUE
        /\ DOMAIN a = {"hash", "val", "index", "close", "outer", "clean"}
    BY DEF Written
  <2> QED BY <2>1, <2>2, <1>3 DEF Plain, Written, Indices
<1>4. Plain(Written(FALSE, v, "", TRUE, FALSE, TRUE)) = Written(FALSE, v, "", TRUE, FALSE, TRUE)
  <2> DEFINE a == Written(FALSE, v, "", TRUE, FALSE, TRUE)
  <2>1. a # NoArg
    BY DEF Written, NoArg
  <2>2. /\ a.hash = FALSE /\ a.index = "" /\ a.close = TRUE /\ a.outer = FALSE
        /\ a.val = v /\ a.clean = TRUE
        /\ DOMAIN a = {"hash", "val", "index", "close", "outer", "clean"}
    BY DEF Written
  <2> QED BY <2>1, <2>2 DEF Plain, Written
<1>5. Plain(Written(FALSE, v, ix, FALSE, FALSE, TRUE)) = Written(FALSE, v, ix, FALSE, FALSE, TRUE)
  <2> DEFINE a == Written(FALSE, v, ix, FALSE, FALSE, TRUE)
  <2>1. a # NoArg
    BY DEF Written, NoArg
  <2>2. /\ a.hash = FALSE /\ a.index = ix /\ a.close = FALSE /\ a.outer = FALSE
        /\ a.val = v /\ a.clean = TRUE
        /\ DOMAIN a = {"hash", "val", "index", "close", "outer", "clean"}
    BY DEF Written
  <2> QED BY <2>1, <2>2 DEF Plain, Written
<1> QED BY <1>1, <1>2, <1>3, <1>4, <1>5

LEMMA UncleanIsBad == \A h, v, ix, cl, ou : parse(Written(h, v, ix, cl, ou, FALSE)) = "BAD"
<1> TAKE h, v, ix, cl, ou
<1> DEFINE a == Written(h, v, ix, cl, ou, FALSE)
<1>1. a.clean = FALSE
  BY DEF Written
<1> HIDE DEF a
<1>2. parse(a) = "BAD"
  BY <1>1, Zenon DEF parse
<1> QED BY <1>2 DEF a

\* What the notations are parsed as, those included that no mode has.
LEMMA ParsesAs ==
    ASSUME NEW v \in Int, NEW ix, NEW ou \in BOOLEAN
    PROVE  /\ parse(Written(FALSE, v, "x", TRUE, ou, TRUE)) = IF v < 256 THEN "INDX" ELSE "BAD"
           /\ ix # "x" => parse(Written(FALSE, v, ix, TRUE, TRUE, TRUE)) = IF v < 256 THEN "INDY" ELSE "BAD"
           /\ parse(Written(FALSE, v, "", TRUE, FALSE, TRUE)) = "IND"
           /\ parse(Written(FALSE, v, "y", TRUE, FALSE, TRUE)) = "BAD"
           /\ parse(Written(TRUE, v, ix, FALSE, FALSE, TRUE)) = "IMM"
<1>1. parse(Written(FALSE, v, "x", TRUE, ou, TRUE)) = IF v < 256 THEN "INDX" ELSE "BAD"
  <2>1. CASE v < 256
    BY <2>1, Zenon DEF parse, Written
  <2>2. CASE ~(v < 256)
    BY <2>2, Zenon DEF parse, Written
  <2> QED BY <2>1, <2>2
<1>2. ASSUME ix # "x"
      PROVE  parse(Written(FALSE, v, ix, TRUE, TRUE, TRUE)) = IF v < 256 THEN "INDY" ELSE "BAD"
  BY <1>2, Zenon DEF parse, Written
<1>3. parse(Written(FALSE, v, "", TRUE, FALSE, TRUE)) = "IND"
  BY Zenon DEF parse, Written
<1>4. parse(Written(FALSE, v, "y", TRUE, FALSE, TRUE)) = "BAD"
  BY Zenon DEF parse, Written
<1>5. parse(Written(TRUE, v, ix, FALSE, FALSE, TRUE)) = "IMM"
  BY Zenon DEF parse, Written
<1> QED BY <1>1, <1>2, <1>3, <1>4, <1>5

\* A mode that takes an operand prints it in its own notation.
PrintedBy(a, mode) ==
    /\ mode \notin {"NONE", "ACC"}
    /\ modeTemplate(mode, a.val) = Plain(a)
    /\ mode \in {"ZP", "ZPX", "ZPY", "INDX", "INDY"} => a.val < 256
    /\ mode = "IMM" => a.hash

LEMMA OperandTaken ==
    ASSUME NEW a, IsOperand(a), a.val \in Nat, NEW mode \in Modes, mode \in Accepting(parse(a))
    PROVE  PrintedBy(a, mode)
<1>0. PICK v : \E h, cl, ou, c \in BOOLEAN : \E ix \in Indices :
         a = Written(h, v, ix, cl, ou, c) /\ (ou => cl) /\ (h => ~cl)
  BY DEF IsOperand
<1>1. PICK h \in BOOLEAN, cl \in BOOLEAN, ou \in BOOLEAN, c \in BOOLEAN, ix \in Indices :
         a = Written(h, v, ix, cl, ou, c) /\ (ou => cl) /\ (h => ~cl)
  BY <1>0
<1>2. a.val = v /\ a.hash = h /\ v \in Int /\ (v >= 0) = TRUE
  <2>1. a = Written(h, v, ix, cl, ou, c)
    BY <1>1
  <2>2. a.val = v /\ a.hash = h
    BY <2>1 DEF Written
  <2> QED BY <2>2
<1>3. "BAD" \notin Modes
  BY DEF Modes, OperandModes
<1> DEFINE W(hh, i, l, o) == Written(hh, v, i, l, o, TRUE)
<1>4. /\ modeTemplate("IMM", v) = W(TRUE, "", FALSE, FALSE)
      /\ modeTemplate("ZP", v) = W(FALSE, "", FALSE, FALSE)
      /\ modeTemplate("ABS", v) = W(FALSE, "", FALSE, FALSE)
      /\ modeTemplate("REL", v) = W(FALSE, "", FALSE, FALSE)
      /\ modeTemplate("ZPX", v) = W(FALSE, "x", FALSE, FALSE)
      /\ modeTemplate("ABSX", v) = W(FALSE, "x", FALSE, FALSE)
      /\ modeTemplate("ZPY", v) = W(FALSE, "y", FALSE, FALSE)
      /\ modeTemplate("ABSY", v) = W(FALSE, "y", FALSE, FALSE)
      /\ modeTemplate("INDX", v) = W(FALSE, "x", TRUE, FALSE)
      /\ modeTemplate("INDY", v) = W(FALSE, "", TRUE, TRUE)
      /\ modeTemplate("IND", v) = W(FALSE, "", TRUE, FALSE)
  BY <1>2, NotationIs DEF Written
<1>5. c = TRUE
  <2>1. ASSUME c = FALSE PROVE FALSE
    <3>1. parse(a) = "BAD"
      <4>1. parse(Written(h, v, ix, cl, ou, FALSE)) = "BAD"
        BY UncleanIsBad, Zenon
      <4> QED BY <1>1, <2>1, <4>1
    <3> QED BY <1>3, <3>1, Accepts
  <2> QED BY <2>1
<1>7. CASE h = TRUE
  <2>1. cl = FALSE /\ ou = FALSE
    BY <1>1, <1>7
  <2>2. parse(a) = "IMM"
    BY <1>1, <1>2, <1>5, <1>7, <2>1, ParsesAs
  <2>3. mode = "IMM"
    BY <2>2, Accepts
  <2>4. Plain(a) = W(TRUE, "", FALSE, FALSE)
    BY <1>1, <1>5, <1>7, <2>1, PlainIs
  <2> QED BY <1>2, <1>4, <1>7, <2>3, <2>4 DEF PrintedBy
<1>8. CASE h = FALSE /\ cl = TRUE /\ ix = "x"
  <2>1. parse(a) = IF v < 256 THEN "INDX" ELSE "BAD"
    BY <1>1, <1>2, <1>5, <1>8, ParsesAs
  <2>2. mode = "INDX" /\ v < 256
    BY <1>3, <2>1, Accepts
  <2>3. Plain(a) = W(FALSE, "x", TRUE, FALSE)
    BY <1>1, <1>5, <1>8, PlainIs
  <2> QED BY <1>2, <1>4, <2>2, <2>3 DEF PrintedBy
<1>9. CASE h = FALSE /\ cl = TRUE /\ ix # "x" /\ ou = TRUE
  <2>1. parse(a) = IF v < 256 THEN "INDY" ELSE "BAD"
    BY <1>1, <1>2, <1>5, <1>9, ParsesAs
  <2>2. mode = "INDY" /\ v < 256
    BY <1>3, <2>1, Accepts
  <2>3. Plain(a) = W(FALSE, "", TRUE, TRUE)
    BY <1>1, <1>5, <1>9, PlainIs
  <2> QED BY <1>2, <1>4, <2>2, <2>3 DEF PrintedBy
<1>10. CASE h = FALSE /\ cl = TRUE /\ ix = "" /\ ou = FALSE
  <2>1. parse(a) = "IND"
    BY <1>1, <1>2, <1>5, <1>10, ParsesAs
  <2>2. mode = "IND"
    BY <2>1, Accepts
  <2>3. Plain(a) = W(FALSE, "", TRUE, FALSE)
    BY <1>1, <1>5, <1>10, PlainIs
  <2> QED BY <1>2, <1>4, <2>2, <2>3 DEF PrintedBy
<1>11. CASE h = FALSE /\ cl = TRUE /\ ix = "y" /\ ou = FALSE
  <2>1. parse(a) = "BAD"
    BY <1>1, <1>2, <1>5, <1>11, ParsesAs
  <2> QED BY <1>3, <2>1, Accepts
<1>12. CASE h = FALSE /\ cl = FALSE
  <2>1. ou = FALSE
    BY <1>1, <1>12
  <2>2. a = W(FALSE, ix, FALSE, FALSE)
    BY <1>1, <1>5, <1>12, <2>1
  <2>3. Plain(a) = W(FALSE, ix, FALSE, FALSE)
    BY <2>2, PlainIs
  <2>4. CASE ix = ""
    <3>1. parse(a) = IF v < 256 THEN "ZP" ELSE "ABS"
      BY <1>2, <2>2, <2>4, ParsedAs DEF Written
    <3>2. mode \in {"ZP", "ABS", "REL"} /\ (mode = "ZP" => v < 256)
      BY <3>1, Accepts
    <3> QED BY <1>2, <1>4, <2>3, <2>4, <3>2 DEF PrintedBy
  <2>5. CASE ix = "x"
    <3>1. parse(a) = IF v < 256 THEN "ZPX" ELSE "ABSX"
      BY <1>2, <2>2, <2>5, ParsedAs DEF Written
    <3>2. mode \in {"ZPX", "ABSX"} /\ (mode = "ZPX" => v < 256)
      BY <3>1, Accepts
    <3> QED BY <1>2, <1>4, <2>3, <2>5, <3>2 DEF PrintedBy
  <2>6. CASE ix = "y"
    <3>1. parse(a) = IF v < 256 THEN "ZPY" ELSE "ABSY"
      BY <1>2, <2>2, <2>6, ParsedAs DEF Written
    <3>2. mode \in {"ZPY", "ABSY"} /\ (mode = "ZPY" => v < 256)
      BY <3>1, Accepts
    <3> QED BY <1>2, <1>4, <2>3, <2>6, <3>2 DEF PrintedBy
  <2> QED BY <2>4, <2>5, <2>6 DEF Indices
<1>13. \/ h = TRUE
       \/ h = FALSE /\ cl = FALSE
       \/ h = FALSE /\ cl = TRUE /\ ix = "x"
       \/ h = FALSE /\ cl = TRUE /\ ix # "x" /\ ou = TRUE
       \/ h = FALSE /\ cl = TRUE /\ ix = "" /\ ou = FALSE
       \/ h = FALSE /\ cl = TRUE /\ ix = "y" /\ ou = FALSE
  BY DEF Indices
<1> QED BY <1>7, <1>8, <1>9, <1>10, <1>11, <1>12, <1>13


\* The operand of a line at p is one its bytes have room for.
Reaches(name, a, p) ==
    a # NoArg =>
        /\ IsOperand(a)
        /\ a.val \in (IF a.hash THEN Byte ELSE Adr)
        /\ name \in Branches => a.val - p \in -126 .. 129

\* The bytes of the line stand in front of mem.
Holding(mem, data) == \A k \in 1 .. Len(data) : mem[k] = data[k]

\* A line that has been assembled is listed as it was written.
LEMMA LineListed ==
    ASSUME NEW name, NEW a, NEW p \in Int, NEW mem, NEW data,
           data = assembleLine(name, a, p), data # <<>>,
           Reaches(name, a, p), Holding(mem, data)
    PROVE  /\ disasm(p, mem).name = name
           /\ disasm(p, mem).arg = Plain(a)
           /\ disasm(p, mem).size = Len(data)
<1> DEFINE m == IF a = NoArg THEN "NONE" ELSE parse(a)
<1>1. PICK i \in 1 .. 56 : Instructions[i].name = name
  <2> DEFINE fits == {r \in Rows : Instructions[r[1]].name = name /\ RowAt(r).mode \in Accepting(m)}
  <2>1. fits # {}
    BY DEF assembleLine
  <2>2. PICK r \in Rows : Instructions[r[1]].name = name
    BY <2>1
  <2>3. PICK i \in 1 .. 56 : \E k \in DOMAIN Instructions[i].opcodes : r = <<i, k>>
    BY RowsAre
  <2>4. r[1] = i
    BY <2>3
  <2> QED BY <2>2, <2>4
<1> DEFINE x == Instructions[i]
<1>2. EntryAt(x, i) /\ x.name = name
  BY <1>1, TableEntry
<1>3. PICK k \in Taking(x, a) : data = Encoded(x.opcodes[k], a, p)
  <2>1. LET y == Instructions[i]
        IN  IF Taking(y, a) = {} THEN assembleLine(y.name, a, p) = <<>>
            ELSE \E l \in Taking(y, a) :
                    /\ \A n \in Taking(y, a) : ~(n < l)
                    /\ assembleLine(y.name, a, p) = Encoded(y.opcodes[l], a, p)
    BY LineChosen
  <2> QED BY <1>2, <2>1
<1> DEFINE form == x.opcodes[k]
<1>4. k \in DOMAIN x.opcodes /\ form.mode \in Accepting(m)
  BY DEF Taking
<1> HIDE DEF x, m
<1>5. form.mode \in Modes /\ (form.mode = "REL" <=> name \in Branches)
  BY <1>2, <1>4, RowAlone
<1> HIDE DEF form
<1>6. form.mode # "ACC" /\ (a = NoArg => form.mode = "NONE")
      /\ (a # NoArg => PrintedBy(a, form.mode))
  <2>1. CASE a = NoArg
    BY <1>4, <2>1, Accepts DEF m
  <2>2. CASE a # NoArg
    <3>1. IsOperand(a) /\ a.val \in Nat
      BY <2>2, WordsAreInts DEF Reaches
    <3>2. form.mode \in Accepting(parse(a))
      BY <1>4, <2>2 DEF m
    <3>3. PrintedBy(a, form.mode)
      BY <1>5, <3>1, <3>2, OperandTaken
    <3> QED BY <2>2, <3>3 DEF PrintedBy
  <2> QED BY <2>1, <2>2
<1> DEFINE n == opSize(form.mode)
<1>7. n \in {1, 2, 3} /\ Len(data) = n /\ data[1] = form.code
  <2>1. n \in {1, 2, 3}
    BY SizeIs
  <2>2. data = Encoded(form, a, p)
    BY <1>3 DEF form
  <2>3. CASE form.mode = "REL"
    <3>1. n = 2
      BY <2>3 DEF opSize
    <3>2. Len(data) = 2 /\ data = <<form.code, lo(Distance(a.val, p))>>
      BY <2>2, <2>3, EncodedBranch
    <3> QED BY <2>1, <3>1, <3>2
  <2>4. CASE form.mode # "REL"
    BY <2>1, <2>2, <2>4, EncodedAs
  <2> QED BY <2>3, <2>4
<1>8. mem[1] = form.code /\ (n # 1 => mem[2] = data[2]) /\ (n = 3 => mem[3] = data[3])
  BY <1>7 DEF Holding
<1> DEFINE rows == {r \in Rows : RowAt(r).code = mem[1]}
<1>9. rows # {} /\ FirstOf(rows) = <<i, k>>
  <2>1. HaveCodeOf(rows, i, k)
    <3>1. k \in DOMAIN Instructions[i].opcodes
      BY <1>4 DEF x
    <3>2. rows = {r \in Rows : RowAt(r).code = Instructions[i].opcodes[k].code}
      BY <1>8 DEF x, form
    <3> QED BY <3>1, <3>2 DEF HaveCodeOf
  <2> HIDE DEF rows
  <2>2. FirstShows(rows, i, k)
    BY <2>1, RowShown
  <2>3. PICK l \in DOMAIN x.opcodes :
           FirstOf(rows) = <<i, l>> /\ (l = k \/ form.mode = "ACC")
    BY <2>2 DEF FirstShows, x, form
  <2> QED BY <1>6, <2>2, <2>3 DEF FirstShows
<1> DEFINE v == CASE form.mode = "REL"         -> Signed8(mem[2]) + 2 + p
                  [] opSize(form.mode) = 3  -> to_adr(mem[2], mem[3])
                  [] OTHER                 -> mem[2]
<1>10. disasm(p, mem) = [name |-> name, arg |-> modeTemplate(form.mode, v), size |-> n]
  <2>1. RowAt(<<i, k>>).mode = form.mode /\ Instructions[(<<i, k>>)[1]].name = name
    BY <1>1 DEF RowAt, form, x
  <2> QED BY <1>9, <2>1 DEF disasm
<1>11. CASE a = NoArg
  <2>1. modeTemplate(form.mode, v) = NoArg
    <3> HIDE DEF v
    <3> QED BY <1>6, <1>11 DEF modeTemplate
  <2>2. Plain(a) = NoArg
    BY <1>11 DEF Plain
  <2> HIDE DEF v, n
  <2> QED BY <1>7, <1>10, <2>1, <2>2
<1>12. CASE a # NoArg
  <2>1. v = a.val
    <3>1. data = Encoded(form, a, p)
      BY <1>3 DEF form
    <3>2. a.val \in Adr /\ a.val \in Int /\ (a.hash => a.val < 256)
      <4>1. Byte \subseteq Adr
        BY WordsAreInts, AdrIs
      <4>2. a.val \in (IF a.hash THEN Byte ELSE Adr)
        BY <1>12 DEF Reaches
      <4>3. a.hash => a.val \in Byte
        BY <4>2
      <4>4. a.val \in Adr
        BY <4>1, <4>2
      <4>5. a.val \in Int
        <5>1. Adr \subseteq Int
          BY AdrIs
        <5> QED BY <4>4, <5>1
      <4>6. a.hash => a.val < 256
        BY <4>3, WordsAreInts
      <4> QED BY <4>4, <4>5, <4>6
    <3>3. CASE form.mode = "REL"
      <4>1. n = 2
        BY <3>3 DEF opSize
      <4>2. data[2] = lo(Distance(a.val, p))
        BY <3>1, <3>3, EncodedBranch
      <4>3. a.val - p \in -126 .. 129
        BY <1>5, <1>12, <3>3 DEF Reaches
      <4>4. p + 2 + Signed8(lo(Distance(a.val, p))) = a.val
        BY <3>2, <4>3, DistanceReaches
      <4>5. v = Signed8(lo(Distance(a.val, p))) + 2 + p
        BY <1>8, <3>3, <4>1, <4>2
      <4>6. Signed8(lo(Distance(a.val, p))) \in Int
        BY <3>2 DEF Signed8, lo, Distance
      <4> QED BY <4>4, <4>5, <4>6
    <3>4. CASE form.mode # "REL"
      <4>1. (n # 1 => data[2] = lo(a.val)) /\ (n = 3 => data[3] = lo(hi(a.val)))
        BY <3>1, <3>4, EncodedAs
      <4>2. form.mode \notin {"NONE", "ACC"} /\ (form.mode = "IMM" => a.hash)
            /\ (form.mode \in {"ZP", "ZPX", "ZPY", "INDX", "INDY"} => a.val < 256)
        BY <1>6, <1>12 DEF PrintedBy
      <4>3. n # 1 /\ (n = 2 => a.val < 256)
        BY <1>5, <3>2, <3>4, <4>2 DEF opSize, Modes, OperandModes
      <4>4. /\ lo(hi(a.val)) = hi(a.val) /\ (a.val < 256 => lo(a.val) = a.val)
            /\ to_adr(lo(a.val), hi(a.val)) = a.val
        BY <3>2, WordBytes
      <4> HIDE DEF n
      <4>5. CASE n = 3
        <5>1. v = to_adr(mem[2], mem[3])
          BY <3>4, <4>5 DEF n
        <5> QED BY <1>8, <4>1, <4>4, <4>5, <5>1
      <4>6. CASE n = 2
        <5>1. v = mem[2]
          BY <3>4, <4>6 DEF n
        <5> QED BY <1>8, <4>1, <4>3, <4>4, <4>6, <5>1
      <4> QED BY <1>7, <4>3, <4>5, <4>6
    <3> QED BY <3>3, <3>4
  <2>2. modeTemplate(form.mode, a.val) = Plain(a)
    BY <1>6, <1>12 DEF PrintedBy
  <2> HIDE DEF v, n
  <2> QED BY <1>7, <1>10, <2>1, <2>2
<1> QED BY <1>11, <1>12


-----------------------------------------------------------------------------
(* Addresses *)

LEMMA BelowAdr == ASSUME NEW a \in Adr PROVE Below(a) \in Adr
<1>1. Listed(a).size \in Int
  <2> DEFINE rows == {r \in Rows : RowAt(r).code = Memory3(a)[1]}
             size == IF rows = {} THEN 1 ELSE opSize(RowAt(FirstOf(rows)).mode)
  <2>1. Listed(a).size = size
    BY DEF Listed, disasm
  <2>2. size \in {1, 2, 3}
    <3> HIDE DEF rows
    <3> QED BY SizeIs
  <2> QED BY <2>1, <2>2
<1>2. a \in Int
  BY AdrIs
<1> QED BY <1>1, <1>2, ModAdr DEF Below

\* The addresses of the lines listed from a on.
Lists(after, a, n) == after = [k \in 0 .. n |-> IF k = 0 THEN a ELSE Below(after[k - 1])]

LEMMA ListsExist == ASSUME NEW a, NEW n \in Nat PROVE \E after : Lists(after, a, n)
<1> DEFINE T == {m \in Nat : ~\E after : Lists(after, a, m)}
<1>1. SUFFICES ASSUME T # {} PROVE FALSE
  OBVIOUS
<1>2. PICK m \in T : \A y \in T : m <= y
  <2>1. T \in SUBSET Nat
    OBVIOUS
  <2> HIDE DEF T
  <2> QED BY <1>1, <2>1, NatMinimum
<1>3. m # 0
  <2>1. Lists([k \in {0} |-> a], a, 0)
    BY DEF Lists
  <2> QED BY <2>1
<1>4. m - 1 \in Nat /\ m - 1 \notin T
  BY <1>2, <1>3
<1>5. PICK s : Lists(s, a, m - 1)
  BY <1>4
<1> DEFINE t == [k \in 0 .. m |-> IF k = m THEN Below(s[m - 1]) ELSE s[k]]
<1>6. Lists(t, a, m)
  <2>1. \A k \in 0 .. m - 1 : s[k] = IF k = 0 THEN a ELSE Below(s[k - 1])
    BY <1>5 DEF Lists
  <2>2. ASSUME NEW k \in 0 .. m PROVE t[k] = IF k = 0 THEN a ELSE Below(t[k - 1])
    BY <1>3, <2>1
  <2> QED BY <2>2 DEF Lists
<1> QED BY <1>6

LEMMA BehindAdr == ASSUME NEW a \in Adr, NEW n \in Nat PROVE Behind(a, n) \in Adr
<1> DEFINE s == CHOOSE after : Lists(after, a, n)
<1>1. Lists(s, a, n)
  BY ListsExist
<1>2. Behind(a, n) = s[n]
  BY DEF Behind, Lists
<1> HIDE DEF s
<1>3. \A k \in 0 .. n : s[k] = IF k = 0 THEN a ELSE Below(s[k - 1])
  BY <1>1 DEF Lists
<1> DEFINE T == {k \in 0 .. n : s[k] \notin Adr}
<1>4. T = {}
  <2>1. SUFFICES ASSUME T # {} PROVE FALSE
    OBVIOUS
  <2>2. PICK m \in T : \A y \in T : m <= y
    <3>1. T \in SUBSET Nat
      OBVIOUS
    <3> HIDE DEF T
    <3> QED BY <2>1, <3>1, NatMinimum
  <2>3. m # 0
    BY <1>3
  <2>4. m - 1 \in 0 .. n /\ m - 1 \notin T
    BY <2>2, <2>3
  <2>5. Below(s[m - 1]) \in Adr
    BY <2>4, BelowAdr
  <2> QED BY <1>3, <2>3, <2>5
<1> QED BY <1>2, <1>4

LEMMA FromAdr == ASSUME start \in Adr, NEW cmd \in Commands PROVE From(cmd) \in Adr
<1>1. cmd.args \in Seq(Nat)
  BY MonitorAssumption DEF CommandOK
<1>2. CASE cmd.args = <<>>
  BY <1>2 DEF From
<1>3. CASE cmd.args # <<>>
  <2>1. cmd.args[1] \in Int
    BY <1>1, <1>3
  <2> QED BY <1>3, <2>1, ModAdr DEF From
<1> QED BY <1>2, <1>3


-----------------------------------------------------------------------------
(* What the monitor keeps of the last line *)

\* A block of bytes in memory.
Laid(mem, q, data) == Overlaid(mem, Asm!DataAt(q, data))
HoldsAt(mem, q, data) == \A k \in 1 .. Len(data) : At(mem, q + k - 1) = data[k]

\* The line that was typed last, as long as the program waits for the next
\* one: its bytes are in memory, and the address behind them is offered.
LineKept ==
    LET bytes == assembleLine(last.name, last.arg, last.org)
    IN  /\ control = "monitor" /\ Ready
        /\ bytes # <<>> /\ last.org \in Adr /\ last.org + Len(bytes) <= 65536
        /\ start = (last.org + Len(bytes)) % 65536 /\ prefix = start
        /\ last.arg # NoArg => IsOperand(last.arg)
        /\ HoldsAt(ram, last.org, bytes)

MonInv ==
    /\ DOMAIN rbank = {}
    /\ start \in Adr
    /\ control \in {"start", "main"} => phase = "idle" /\ pc \in Int
    /\ last # NoLine => LineKept

LEMMA LineLength ==
    ASSUME NEW name, NEW a, NEW p, NEW data, data = assembleLine(name, a, p), data # <<>>
    PROVE  Len(data) \in {1, 2, 3}
<1>1. PICK i \in 1 .. 56 : Instructions[i].name = name
  <2> DEFINE m == IF a = NoArg THEN "NONE" ELSE parse(a)
             fits == {r \in Rows : Instructions[r[1]].name = name /\ RowAt(r).mode \in Accepting(m)}
  <2>1. fits # {}
    BY DEF assembleLine
  <2>2. PICK r \in Rows : Instructions[r[1]].name = name
    BY <2>1
  <2>3. PICK i \in 1 .. 56 : \E k \in DOMAIN Instructions[i].opcodes : r = <<i, k>>
    BY RowsAre
  <2>4. r[1] = i
    BY <2>3
  <2> QED BY <2>2, <2>4
<1> DEFINE x == Instructions[i]
<1>2. PICK k \in Taking(x, a) : data = Encoded(x.opcodes[k], a, p)
  <2>1. LET y == Instructions[i]
        IN  IF Taking(y, a) = {} THEN assembleLine(y.name, a, p) = <<>>
            ELSE \E l \in Taking(y, a) :
                    /\ \A n \in Taking(y, a) : ~(n < l)
                    /\ assembleLine(y.name, a, p) = Encoded(y.opcodes[l], a, p)
    BY LineChosen
  <2> QED BY <1>1, <2>1
<1> DEFINE form == x.opcodes[k]
<1>3. data = Encoded(form, a, p)
  BY <1>2
<1> HIDE DEF x, form
<1>4. CASE form.mode = "REL"
  BY <1>3, <1>4, EncodedBranch
<1>5. CASE form.mode # "REL"
  <2>1. Len(data) = opSize(form.mode)
    BY <1>3, <1>5, EncodedAs
  <2> QED BY <2>1, SizeIs
<1> QED BY <1>4, <1>5

\* The cells of a block that does not reach the end of memory.
Fills(mem, q, data, n) ==
    n = Len(data) /\ q + n <= 65536 =>
        \A k \in 1 .. n : At(Overlaid(mem, Asm!DataAt(q, data)), q + k - 1) = data[k]

LEMMA Cell ==
    ASSUME NEW mem, NEW q \in Adr, NEW data, NEW n \in {1, 2, 3}
    PROVE  Fills(mem, q, data, n)
<1> SUFFICES ASSUME n = Len(data), q + n <= 65536, NEW k \in 1 .. n
             PROVE  At(Overlaid(mem, Asm!DataAt(q, data)), q + k - 1) = data[k]
  BY DEF Fills
<1> DEFINE D == {(q + i) % 65536 : i \in 0 .. n - 1}
           b == q + k - 1
           block == Asm!DataAt(q, data)
<1>1. q \in Int /\ 0 <= q
  BY AdrIs
<1>2. block = [c \in D |-> data[((c - q) % 65536) + 1]]
  BY DEF Asm!DataAt
<1>3. k - 1 \in 0 .. n - 1 /\ b = (q + (k - 1)) % 65536 /\ ((b - q) % 65536) + 1 = k
  <2>1. n = 1 \/ n = 2 \/ n = 3
    OBVIOUS
  <2>2. k \in Int /\ 1 <= k /\ k <= n
    BY <2>1
  <2>3. n \in Int
    OBVIOUS
  <2>4. n <= 3
    BY <2>1
  <2>5. b \in Int /\ 0 <= b /\ b < 65536 /\ b - q = k - 1
    BY <1>1, <2>2, <2>3
  <2>6. b % 65536 = b /\ (k - 1) % 65536 = k - 1
    BY <2>2, <2>3, <2>4, <2>5
  <2> QED BY <1>1, <2>2, <2>3, <2>4, <2>5, <2>6
<1>4. b \in D
  <2> HIDE DEF b
  <2> QED BY <1>3
<1>5. b \in DOMAIN block /\ block[b] = data[k]
  <2> HIDE DEF D, b
  <2> QED BY <1>2, <1>3, <1>4
<1> HIDE DEF block, b
<1>6. At(Overlaid(mem, block), b) = block[b]
  BY <1>5 DEF At, Overlaid
<1> QED BY <1>5, <1>6 DEF block, b

LEMMA Cells ==
    ASSUME NEW mem, NEW q \in Adr, NEW data, Len(data) \in {1, 2, 3}, q + Len(data) <= 65536
    PROVE  HoldsAt(Laid(mem, q, data), q, data)
<1>1. Fills(mem, q, data, Len(data))
  <2> DEFINE n == Len(data)
  <2>1. n \in {1, 2, 3}
    OBVIOUS
  <2> HIDE DEF n
  <2>2. Fills(mem, q, data, n)
    BY <2>1, Cell
  <2> QED BY <2>2 DEF n
<1> QED BY <1>1 DEF Fills, HoldsAt, Laid

-----------------------------------------------------------------------------
(* The steps *)

LEMMA InitMonitor == MonitorInit => MonInv
<1> SUFFICES ASSUME MonitorInit PROVE MonInv
  OBVIOUS
<1>1. rbank = <<>> /\ pc \in GarbagePC /\ phase = "idle" /\ start = 0 /\ last = NoLine
  BY DEF MonitorInit, Init, MemoryInit
<1>2. DOMAIN rbank = {}
  BY <1>1
<1>3. pc \in Int
  BY <1>1, ClientAssumption
<1>4. start \in Adr
  BY <1>1, AdrIs
<1> QED BY <1>1, <1>2, <1>3, <1>4 DEF MonInv

\* While a line is kept nothing is compiled or run.
LEMMA NoneKept ==
    ASSUME MonInv, control # "monitor" \/ ~Ready
    PROVE  last = NoLine
BY DEF MonInv, LineKept

LEMMA ProcessKeeps == MonInv /\ Process => MonInv'
<1> SUFFICES ASSUME MonInv, Process PROVE MonInv'
  OBVIOUS
<1>1. DOMAIN rbank = {} /\ start \in Adr /\ (control \in {"start", "main"} => phase = "idle" /\ pc \in Int)
  BY DEF MonInv
<1>2. CASE Compiling
  <2>1. verdict = "parsing"
    BY <1>2 DEF Compiling, Asm!Parse, Asm!ReadLine, Asm!EmptyLine, Asm!StringLine, Asm!AsmLine, Asm!DataLine,
                Asm!DefLine, Asm!OrgLine, Asm!MetaLine, Asm!BadAsmLine, Asm!ThrowingLine,
                Asm!Overrun, Asm!SyntaxError, Asm!Accept, Asm!GiveUp, Asm!NextPass,
                Asm!Reads, Asm!Reading, Asm!PassEnds
  <2>2. last = NoLine
    BY <2>1, NoneKept DEF Ready
  <2>3. /\ rbank' = rbank /\ start' = start /\ control' = control /\ phase' = phase
        /\ pc' = pc /\ last' = last
    BY <1>2 DEF Compiling, machine, mapping, console
  <2>4. NoLine' = NoLine
    BY DEF NoLine
  <2> QED BY <1>1, <2>2, <2>3, <2>4 DEF MonInv
<1>3. CASE Running
  <2>1. phase = "running"
    BY <1>3 DEF Running, Stall, Opcode, Return, RunReturns, InLoop
  <2>2. last = NoLine /\ control \notin {"start", "main"}
    BY <1>1, <2>1, NoneKept DEF Ready
  <2>3. rbank' = rbank
    BY <1>3 DEF Running, Stall, Opcode, Return, RunReturns, Step, Undefined, client, memory
  <2>4. start' = start /\ control' = control /\ last' = last
    BY <1>3 DEF Running, console
  <2>5. NoLine' = NoLine
    BY DEF NoLine
  <2> QED BY <1>1, <2>2, <2>3, <2>4, <2>5 DEF MonInv
<1>4. CASE EnterMonitor
  <2>1. /\ control = "main" /\ control' = "monitor" /\ start' = pc % 65536
        /\ rbank' = rbank /\ last' = last
    BY <1>4 DEF EnterMonitor, machine, mapping, regPC
  <2>2. last' = NoLine
    BY <2>1, NoneKept
  <2>3. start' \in Adr
    BY <1>1, <2>1, ModAdr
  <2>4. NoLine' = NoLine
    BY DEF NoLine
  <2> QED BY <1>1, <2>1, <2>2, <2>3, <2>4 DEF MonInv
<1>5. ASSUME control # "monitor", UNCHANGED <<start, last>>, rbank' = rbank,
             \/ control' \notin {"start", "main"}
             \/ control \in {"start", "main"} /\ UNCHANGED <<phase, pc>>
      PROVE  MonInv'
  <2>1. last = NoLine
    BY <1>5, NoneKept
  <2>2. NoLine' = NoLine
    BY DEF NoLine
  <2> QED BY <1>1, <1>5, <2>1, <2>2 DEF MonInv
<1>6. CASE FullTest
  BY <1>5, <1>6 DEF FullTest, console, mapping
<1>7. CASE MainCompiles
  <2>1. control = "start" /\ control' = "main" /\ UNCHANGED <<start, last>>
    BY <1>7 DEF MainCompiles, console
  <2>2. UNCHANGED <<rbank, phase, pc>>
    BY <1>7 DEF MainCompiles, Compiles, machine, mapping
  <2> QED BY <1>5, <2>1, <2>2
<1>8. CASE NoFile
  BY <1>5, <1>8 DEF NoFile, console, machine, mapping
<1>9. CASE ParseFailed
  BY <1>5, <1>9 DEF ParseFailed, console, machine, mapping
<1>10. CASE MainRuns
  <2>1. control = "main" /\ control' = "last run"
    BY <1>10 DEF MainRuns, Runs
  <2>2. UNCHANGED <<start, last>>
    BY <1>10 DEF MainRuns, Runs, console
  <2>3. rbank' = rbank
    BY <1>10 DEF MainRuns, Runs, memory
  <2> QED BY <1>5, <2>1, <2>2, <2>3
<1>11. CASE MainReturns
  BY <1>5, <1>11 DEF MainReturns, console, machine, mapping
<1> QED BY <1>2, <1>3, <1>4, <1>6, <1>7, <1>8, <1>9, <1>10, <1>11 DEF Process

\* What a command other than "a" leaves.
LEMMA OthersKeep ==
    ASSUME MonInv, AtPrompt, NEW cmd \in Commands,
           \/ Enter(cmd) \/ Mistyped(cmd) \/ TraceOnOff(cmd) \/ Disassemble(cmd)
           \/ Dump(cmd) \/ ShowRegisters(cmd) \/ Continue(cmd) \/ Go(cmd)
           \/ AssembleFile(cmd) \/ Crash(cmd)
    PROVE  MonInv'
<1>1. DOMAIN rbank = {} /\ start \in Adr
  BY DEF MonInv
<1>2. control' = "monitor" /\ last' = NoLine
  BY DEF Enter, Mistyped, TraceOnOff, Disassemble, Dump, ShowRegisters, Continue, Go,
         AssembleFile, Crash, Types, AtPrompt
<1>3. rbank' = rbank
  <2>1. CASE Enter(cmd) \/ Mistyped(cmd) \/ Disassemble(cmd) \/ Dump(cmd) \/ ShowRegisters(cmd)
    BY <2>1 DEF Enter, Mistyped, Disassemble, Dump, ShowRegisters, Idles, machine, mapping
  <2>2. CASE TraceOnOff(cmd)
    BY <2>2 DEF TraceOnOff, machine, mapping
  <2>3. CASE Continue(cmd) \/ Go(cmd)
    BY <2>3 DEF Continue, Go, Runs, memory
  <2>4. CASE AssembleFile(cmd)
    BY <2>4 DEF AssembleFile, Compiles, machine, mapping
  <2>5. CASE Crash(cmd)
    BY <2>5 DEF Crash, mapping
  <2> QED BY <2>1, <2>2, <2>3, <2>4, <2>5
<1>4. start' \in Adr
  <2>1. From(cmd) \in Adr
    BY <1>1, FromAdr
  <2>2. CASE Disassemble(cmd)
    <3> DEFINE n == IF Len(cmd.args) > 1 THEN cmd.args[2] ELSE 16
    <3>1. n \in Nat
      <4>1. cmd.args \in Seq(Nat)
        BY MonitorAssumption DEF CommandOK
      <4>2. CASE Len(cmd.args) > 1
        BY <4>1, <4>2
      <4>3. CASE ~(Len(cmd.args) > 1)
        BY <4>3
      <4> QED BY <4>2, <4>3
    <3>2. start' = Behind(From(cmd), n)
      BY <2>2 DEF Disassemble
    <3> HIDE DEF n
    <3> QED BY <2>1, <3>1, <3>2, BehindAdr
  <2>3. CASE Dump(cmd)
    BY <2>1, <2>3 DEF Dump
  <2>4. CASE ~Disassemble(cmd) /\ ~Dump(cmd)
    <3>1. start' = start
      BY <2>4 DEF Enter, Mistyped, TraceOnOff, ShowRegisters, Continue, Go, AssembleFile, Crash
    <3> QED BY <1>1, <3>1
  <2> QED BY <2>2, <2>3, <2>4
<1>5. NoLine' = NoLine
  BY DEF NoLine
<1> QED BY <1>1, <1>2, <1>3, <1>4, <1>5 DEF MonInv


\* The operand of an "a" command is one the grammar makes.
LEMMA OperandOfCommand ==
    ASSUME NEW cmd \in Commands, cmd.name = "a", NEW values, NEW a,
           a = Asm!Operand(cmd, values), a # NoArg
    PROVE  IsOperand(a)
<1> DEFINE w == cmd.arg
<1>1. Asm!NoArg = NoArg
  BY DEF Asm!NoArg, NoArg
<1>2. w # NoArg
  BY <1>1 DEF Asm!Operand
<1>3. PICK n : Asm!NotationOK(w, n)
  BY MonitorAssumption DEF CommandOK
<1>4. /\ w.hash \in BOOLEAN /\ w.close \in BOOLEAN /\ w.outer \in BOOLEAN /\ w.blank \in BOOLEAN
      /\ w.index \in Indices
      /\ w.outer => w.close
      /\ w.hash => ~w.close
  BY <1>1, <1>2, <1>3, Zenon DEF Asm!NotationOK, Indices
<1> DEFINE c == values[1] >= 0 /\ ~w.blank
<1>5. a = [hash |-> w.hash, val |-> values[1], index |-> w.index,
           close |-> w.close, outer |-> w.outer, clean |-> c]
  BY <1>1, <1>2 DEF Asm!Operand
<1>6. c \in BOOLEAN
  OBVIOUS
<1> HIDE DEF w, c
<1>7. a = Written(w.hash, values[1], w.index, w.close, w.outer, c)
  BY <1>5 DEF Written
<1> QED BY <1>4, <1>6, <1>7, Zenon DEF IsOperand

LEMMA AssembleKeeps ==
    ASSUME MonInv, AtPrompt, NEW cmd \in Commands, AssembleLine(cmd)
    PROVE  MonInv'
<1> DEFINE values == Evaluated(cmd).values
           there == From(cmd)
           a == Asm!Operand(cmd, values)
           bytes == assembleLine(cmd.op, a, there)
<1>1. there \in Adr /\ there \in Int /\ there % 65536 = there
  <2>1. start \in Adr
    BY DEF MonInv
  <2>2. there \in Adr
    BY <2>1, FromAdr
  <2> HIDE DEF there
  <2>3. there \in Int /\ 0 <= there /\ there < 65536
    BY <2>2, AdrIs
  <2> QED BY <2>2, <2>3
<1>2. LineBytes(cmd) = bytes
  <2>1. LineBytes(cmd) = Asm!assembleLine(cmd.op, a, there % 65536)
    BY DEF LineBytes, Asm!Assembled
  <2> HIDE DEF there, a
  <2> QED BY <1>1, <2>1, SameAssembler
<1>3. /\ cmd.name = "a" /\ control = "monitor" /\ control' = control
      /\ phase = "idle" /\ verdict \notin {"parsing", "thrown", "overrun"}
  BY DEF AssembleLine, Types, AtPrompt, Ready
<1>4. rbank' = rbank /\ phase' = phase /\ verdict' = verdict
  BY DEF AssembleLine, machine, mapping, parser
<1>5. /\ (there % 65536) + Len(bytes) <= 65536
      /\ ram' = Laid(ram, there, bytes)
      /\ start' = (there + Len(bytes)) % 65536
      /\ prefix' = IF bytes = <<>> THEN prefix ELSE start'
      /\ last' = IF bytes = <<>> THEN NoLine ELSE [name |-> cmd.op, arg |-> a, org |-> there]
  <2>1. /\ Asm!Fits(there, LineBytes(cmd))
        /\ ram' = Laid(ram, there, LineBytes(cmd))
        /\ start' = (there + Len(LineBytes(cmd))) % 65536
        /\ prefix' = IF LineBytes(cmd) = <<>> THEN prefix ELSE start'
        /\ last' = IF LineBytes(cmd) = <<>> THEN NoLine ELSE Line(cmd, there)
    BY DEF AssembleLine, Laid
  <2>2. Line(cmd, there) = [name |-> cmd.op, arg |-> a, org |-> there]
    BY DEF Line
  <2>3. Asm!Fits(there, bytes) <=> (there % 65536) + Len(bytes) <= 65536
    BY DEF Asm!Fits
  <2> HIDE DEF there, a, bytes
  <2> QED BY <1>2, <2>1, <2>2, <2>3
<1>6. bytes # <<>> => Len(bytes) \in {1, 2, 3}
  BY LineLength
<1>7. a # NoArg => IsOperand(a)
  BY <1>3, OperandOfCommand
<1> HIDE DEF there, a, bytes, values
<1>8. start' \in Adr
  <2>1. Len(bytes) \in Int
    <3>1. CASE bytes = <<>>
      BY <3>1
    <3>2. CASE bytes # <<>>
      BY <1>6, <3>2
    <3> QED BY <3>1, <3>2
  <2>2. there + Len(bytes) \in Int
    BY <1>1, <2>1
  <2> QED BY <1>5, <2>2, ModAdr
<1>9. DOMAIN rbank' = {}
  BY <1>4 DEF MonInv
<1>10. CASE bytes = <<>>
  <2>1. last' = NoLine
    BY <1>5, <1>10
  <2>2. NoLine' = NoLine
    BY DEF NoLine
  <2> QED BY <1>3, <1>8, <1>9, <2>1, <2>2 DEF MonInv
<1>11. CASE bytes # <<>>
  <2>1. last' = [name |-> cmd.op, arg |-> a, org |-> there] /\ prefix' = start'
    BY <1>5, <1>11
  <2>2. last'.name = cmd.op /\ last'.arg = a /\ last'.org = there
    BY <2>1
  <2>3. bytes = assembleLine(last'.name, last'.arg, last'.org)
    BY <2>2 DEF bytes
  <2>4. HoldsAt(ram', there, bytes)
    <3>1. Len(bytes) \in {1, 2, 3} /\ there + Len(bytes) <= 65536
      BY <1>1, <1>5, <1>6, <1>11
    <3>2. HoldsAt(Laid(ram, there, bytes), there, bytes)
      BY <1>1, <3>1, Cells
    <3> QED BY <1>5, <3>2
  <2>5. LineKept'
    <3>1. control' = "monitor" /\ Ready'
      BY <1>3, <1>4 DEF Ready
    <3>2. there + Len(bytes) <= 65536
      BY <1>1, <1>5
    <3> QED BY <1>1, <1>5, <1>7, <1>11, <2>1, <2>2, <2>3, <2>4, <3>1, <3>2 DEF LineKept
  <2> QED BY <1>3, <1>8, <1>9, <2>5 DEF MonInv
<1> QED BY <1>10, <1>11


LEMMA NextMonitor == MonInv /\ [MonitorNext]_monitorVars => MonInv'
<1> SUFFICES ASSUME MonInv, [MonitorNext]_monitorVars PROVE MonInv'
  OBVIOUS
<1>1. CASE Process
  BY <1>1, ProcessKeeps
<1>2. CASE Command
  <2>1. PICK cmd \in Commands :
           \/ Enter(cmd) \/ Mistyped(cmd) \/ TraceOnOff(cmd) \/ Disassemble(cmd)
           \/ Dump(cmd) \/ ShowRegisters(cmd) \/ Continue(cmd) \/ Go(cmd)
           \/ AssembleFile(cmd) \/ AssembleLine(cmd) \/ Crash(cmd)
    BY <1>2, Zenon DEF Command
  <2>2. AtPrompt
    BY <1>2 DEF Command
  <2>3. CASE AssembleLine(cmd)
    BY <2>2, <2>3, AssembleKeeps
  <2>4. CASE ~AssembleLine(cmd)
    BY <2>1, <2>2, <2>4, OthersKeep, Zenon
  <2> QED BY <2>3, <2>4
<1>3. CASE UNCHANGED monitorVars
  <2>1. UNCHANGED <<rbank, start, control, phase, pc, last, verdict, prefix, ram>>
    BY <1>3 DEF monitorVars, vars, parser, console
  <2>2. NoLine' = NoLine
    BY DEF NoLine
  <2>3. LineKept => LineKept'
    BY <2>1 DEF LineKept, Ready
  <2> QED BY <2>1, <2>2, <2>3 DEF MonInv
<1> QED BY <1>1, <1>2, <1>3 DEF MonitorNext

-----------------------------------------------------------------------------
(* What is listed is what was typed *)

\* The bytes of the line are those the listing reads.
LEMMA MemoryHolds ==
    ASSUME MonInv, NEW q \in Adr, NEW data, Len(data) \in {1, 2, 3}, q + Len(data) <= 65536,
           HoldsAt(ram, q, data)
    PROVE  Holding(Memory3(q), data)
<1> SUFFICES ASSUME NEW k \in 1 .. Len(data) PROVE Memory3(q)[k] = data[k]
  BY DEF Holding
<1>1. At(ram, q + k - 1) = data[k]
  BY DEF HoldsAt
<1> DEFINE n == Len(data)
           b == q + k - 1
<1>2. n = 1 \/ n = 2 \/ n = 3
  OBVIOUS
<1>3. k \in 1 .. n /\ q + n <= 65536
  OBVIOUS
<1> HIDE DEF n
<1>4. q \in Int /\ 0 <= q
  BY AdrIs
<1>5. k \in Int /\ 1 <= k /\ k <= n /\ n \in Int /\ k \in 1 .. 3
  BY <1>2, <1>3
<1>6. b \in Int /\ 0 <= b /\ b < 65536
  BY <1>3, <1>4, <1>5
<1>7. b % 65536 = b
  <2> HIDE DEF b
  <2> QED BY <1>6
<1>8. Memory3(q)[k] = read_bank(ram, b % 65536)
  BY <1>5 DEF Memory3
<1> HIDE DEF b
<1>9. read_bank(ram, b) = At(ram, b)
  BY DEF MonInv, read_bank
<1> QED BY <1>1, <1>7, <1>8, <1>9 DEF b

LEMMA LineShows == MonInv => AssembledShows
<1> SUFFICES ASSUME MonInv, last # NoLine, InReach(last)
             PROVE  LET shown == Listed(last.org)
                    IN  /\ shown.name = last.name
                        /\ shown.arg = Plain(last.arg)
                        /\ start = (last.org + shown.size) % 65536 /\ prefix = start
  BY DEF AssembledShows
<1> DEFINE name == last.name
           a == last.arg
           p == last.org
           data == assembleLine(name, a, p)
           mem == Memory3(p)
<1>1. /\ data # <<>> /\ p \in Adr /\ p + Len(data) <= 65536
      /\ start = (p + Len(data)) % 65536 /\ prefix = start
      /\ a # NoArg => IsOperand(a)
      /\ HoldsAt(ram, p, data)
  BY DEF MonInv, LineKept
<1>2. Reaches(name, a, p)
  BY <1>1 DEF Reaches, InReach
<1>3. Listed(p) = disasm(p, mem)
  BY DEF Listed
<1>4. Len(data) \in {1, 2, 3}
  BY <1>1, LineLength
<1>5. p \in Int
  BY <1>1, AdrIs
<1>6. Holding(mem, data)
  <2> HIDE DEF data, p
  <2> QED BY <1>1, <1>4, MemoryHolds
<1>7. data = assembleLine(name, a, p)
  OBVIOUS
<1> HIDE DEF name, a, p, data, mem
<1>8. /\ disasm(p, mem).name = name
      /\ disasm(p, mem).arg = Plain(a)
      /\ disasm(p, mem).size = Len(data)
  BY <1>1, <1>2, <1>5, <1>6, <1>7, LineListed
<1> QED BY <1>1, <1>3, <1>8 DEF name, a, p

\* The monitor lists a line as it was typed and offers the address behind it
\* for the next one, whatever else was typed, compiled or run before
\* (monitor.h:101-132; assembler.cpp).
THEOREM LineIsShown == MonitorSpec => []AssembledShows
<1>1. MonitorSpec => []MonInv
  BY InitMonitor, NextMonitor, PTL DEF MonitorSpec
<1> QED BY <1>1, LineShows, PTL

=============================================================================
