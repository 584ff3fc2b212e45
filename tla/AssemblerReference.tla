------------------------ MODULE AssemblerReference ------------------------
(***************************************************************************)
(* The assembler and the disassembler against each other and against the   *)
(* jump table the machine executes by.  The state is a line: the           *)
(* instruction number `ins` with its operand in the notation number `form`,*)
(* of the value `val`, at the address `org`.                               *)
(***************************************************************************)
EXTENDS Assembler

CONSTANTS Values, Origins

ASSUME ReferenceAssumption == Values \subseteq Adr /\ Origins \subseteq Adr

VARIABLES ins, form, val, org

Notation(hash, index, close, outer) ==
    [hash |-> hash, val |-> val, index |-> index, close |-> close,
     outer |-> outer, clean |-> TRUE]

Args == << NoArg,
           Notation(TRUE, "", FALSE, FALSE),   Notation(FALSE, "", FALSE, FALSE),
           Notation(FALSE, "x", FALSE, FALSE), Notation(FALSE, "y", FALSE, FALSE),
           Notation(FALSE, "", TRUE, FALSE),   Notation(FALSE, "x", TRUE, FALSE),
           Notation(FALSE, "", TRUE, TRUE) >>

Init == ins = 1 /\ form = 1 /\ val \in Values /\ org \in Origins

\* The next line: the next notation, or the next instruction.
Next ==
    /\ \/ form < Len(Args) /\ form' = form + 1 /\ UNCHANGED ins
       \/ form = Len(Args) /\ form' = 1 /\ ins < Len(Instructions) /\ ins' = ins + 1
    /\ UNCHANGED <<val, org>>

Spec == Init /\ [][Next]_<<ins, form, val, org>>

line  == Instructions[ins]
arg   == Args[form]
bytes == assembleLine(line.name, arg, org)

-----------------------------------------------------------------------------

\* What the machine would execute is what was written: its jump table has
\* for the first byte the operation of the line's instruction, in a mode that
\* indexes and indirects as the notation says, in as many bytes as the line
\* has; the operand is the written value, and takes one byte instead of two
\* whenever the instruction has such a row (assembler.cpp assembleLine; the
\* table of emulator.h).
EncodesTheLine ==
    bytes # <<>> /\ line.name \notin Branches =>
        LET r == JumpTables.normal[bytes[1]]
            modes == {line.opcodes[k].mode : k \in DOMAIN line.opcodes}
        IN  /\ r.op = line.opcodes[1].op
            /\ Len(bytes) = opSize(r.mode)
            /\ arg # NoArg =>
                  /\ modeTemplate(r.mode, val) = arg
                  /\ r.mode # "IMM" =>
                        val = bytes[2] + (IF Len(bytes) = 3 THEN 256 * bytes[3] ELSE 0)
                  /\ r.mode = "IMM" => bytes[2] = lo(val)
                  /\ r.mode = "ABS" /\ val < 256 => "ZP" \notin modes
                  /\ r.mode = "ABSX" /\ val < 256 => "ZPX" \notin modes
                  /\ r.mode = "ABSY" /\ val < 256 => "ZPY" \notin modes

\* A branch is assembled for every target, and reaches it exactly when the
\* target is 126 bytes before to 129 bytes behind it: a distance that does
\* not fit a byte is cut off (assembler.cpp:87, :95; emulator.h Branch).
BranchLands ==
    line.name \in Branches /\ form = 3 =>
        /\ Len(bytes) = 2
        /\ org + 2 + Signed8(bytes[2]) = val <=> val - org \in -126 .. 129

\* A line that was disassembled assembles to the same bytes at the same
\* place, so that a listing can be edited and typed in again.  Only an
\* absolute operand below 256 comes back in the zero page form, if there is
\* one (monitor.h disasm, modeTemplate; assembler.cpp assembleLine).
ListingReassembles ==
    form <= Len(line.opcodes) =>
        LET r     == line.opcodes[form]
            code  == SubSeq(<<r.code, lo(val), hi(val)>>, 1, opSize(r.mode))
            shown == disasm(org, code \o <<0, 0>>)
            again == assembleLine(shown.name, shown.arg, org)
        IN  /\ shown.size = Len(code)
            /\ shown.arg = NoArg \/ shown.arg.clean =>
                  \/ again = code
                  \/ Len(code) = 3 /\ val < 256 /\ Len(again) = 2 /\ again[2] = val

=============================================================================
