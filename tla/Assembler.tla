----------------------------- MODULE Assembler -----------------------------
(***************************************************************************)
(* The line assembler of src/assembler.cpp and the disassembler of         *)
(* src/monitor.h, both driven by the instruction table.                    *)
(*                                                                         *)
(* The operand of a line is a number in some notation: `hash` for "#v",    *)
(* `index` for a ",x" or ",y" behind v, `close` for a ")" behind that and  *)
(* `outer` for a ",y" behind the ")".  An operand is `clean` when the      *)
(* regular expression takes it: a minus sign, a blank left inside, or a    *)
(* ",x" behind the ")" make it unclean.  A line that does not assemble     *)
(* (-1 in the code) gives the empty sequence.                              *)
(***************************************************************************)
EXTENDS OpcodeTable, Modes, Words

Instructions == getInstructions(FALSE)

\* The rows by instruction and place in it, and their order in the table.
Rows == UNION {{<<i, k>> : k \in DOMAIN Instructions[i].opcodes} :
                  i \in DOMAIN Instructions}
Before(r, s) == r[1] < s[1] \/ (r[1] = s[1] /\ r[2] < s[2])
RowAt(r) == Instructions[r[1]].opcodes[r[2]]

\* The instructions with rows of the mode REL.
Branches == {"bcc", "bcs", "bne", "beq", "bpl", "bmi", "bvc", "bvs"}

NoArg == [none |-> TRUE]

\* The mode an operand is written for.  Notations that no mode has are not
\* all refused: an index is dropped behind a "#".
parse(a) ==
    LET Short(zp, abs) == IF a.val < 256 THEN zp ELSE abs
    IN  CASE ~a.clean                                        -> "BAD"
          [] a.clean /\ a.close ->
                IF a.index = "x" /\ a.val < 256 THEN "INDX"
                ELSE IF a.outer /\ a.val < 256 THEN "INDY"
                ELSE IF ~a.outer /\ a.index = "" THEN "IND" ELSE "BAD"
          [] a.clean /\ ~a.close /\ a.hash                   -> "IMM"
          [] a.clean /\ ~a.close /\ ~a.hash /\ a.index = "y" -> Short("ZPY", "ABSY")
          [] a.clean /\ ~a.close /\ ~a.hash /\ a.index = "x" -> Short("ZPX", "ABSX")
          [] a.clean /\ ~a.close /\ ~a.hash /\ a.index = ""  -> Short("ZP", "ABS")

\* Mutant: no instruction takes an index Y in absolute mode only.
AcceptingNoY(m) ==
    {m} \cup (CASE m = "ZPX" -> {"ABSX"}
                [] m = "ZP"  -> {"ABS", "REL"}
                [] m = "ABS" -> {"REL"}
                [] OTHER     -> {})

\* The modes a row may have to take an operand of mode m.  A row with the
\* zero page mode stands before the one with the absolute mode.
Accepting(m) ==
    {m} \cup (CASE m = "ZPY" -> {"ABSY"}
                [] m = "ZPX" -> {"ABSX"}
                [] m = "ZP"  -> {"ABS", "REL"}
                [] m = "ABS" -> {"REL"}
                [] OTHER     -> {})

\* Mutant: the last row.
LastOf(S) == CHOOSE r \in S : \A s \in S : ~Before(r, s)

\* The row the search through the table stops at.
FirstOf(S) == CHOOSE r \in S : \A s \in S : ~Before(s, r)

\* Mutant: the distance from the opcode.
DistanceFromOpcode(target, pc) == target - pc

Distance(target, pc) == target - pc - 2

\* The bytes of one line, assembled at pc: those of the instruction's first
\* row that fits.
assembleLine(name, a, pc) ==
    LET m    == IF a = NoArg THEN "NONE" ELSE parse(a)
        fits == {r \in Rows : Instructions[r[1]].name = name /\ RowAt(r).mode \in Accepting(m)}
        row  == RowAt(FirstOf(fits))
        v    == CASE row.mode = "NONE" -> 0
                  [] row.mode = "REL"  -> Distance(a.val, pc)
                  [] OTHER             -> a.val
    IN  IF fits = {} THEN <<>>
        ELSE SubSeq(<<row.code, lo(v), lo(hi(v))>>, 1, opSize(row.mode))

-----------------------------------------------------------------------------
(* The disassembler *)

\* What modeTemplate[mode] prints for the value v, as an operand to assemble.
modeTemplate(mode, v) ==
    IF mode = "NONE" THEN NoArg
    ELSE [hash  |-> mode = "IMM", val |-> v,
          index |-> CASE mode \in {"ZPX", "INDX", "ABSX"} -> "x"
                      [] mode \in {"ZPY", "ABSY"}         -> "y"
                      [] OTHER                            -> "",
          close |-> mode \in {"INDX", "INDY", "IND"}, outer |-> mode = "INDY",
          clean |-> v >= 0]

\* The first row with the code of mem[1], its operand, and the size `org` is
\* moved by.  A code without a row prints as data.
disasm(org, mem) ==
    LET rows == {r \in Rows : RowAt(r).code = mem[1]}
        i    == FirstOf(rows)
        mode == RowAt(i).mode
        v    == CASE mode = "REL"      -> Signed8(mem[2]) + 2 + org
                  [] opSize(mode) = 3  -> to_adr(mem[2], mem[3])
                  [] OTHER             -> mem[2]
    IN  IF rows = {} THEN [name |-> "db", arg |-> NoArg, size |-> 1]
        ELSE [name |-> Instructions[i[1]].name, arg |-> modeTemplate(mode, v),
              size |-> opSize(mode)]

=============================================================================
