----------------------------- MODULE MCMachine -----------------------------
(***************************************************************************)
(* Instances of MachineRefinement.  The client of MCMachine.cfg loads one  *)
(* short program out of several families at $1000, sets the pc and runs    *)
(* it; each family puts one group of instructions before operands chosen   *)
(* at the edges (0, $7f, $80, $ff, BCD digits, page and stack limits).     *)
(***************************************************************************)
EXTENDS MachineRefinement, MCTable

Org == \h1000

BytesAt(org, bytes) == [a \in org .. org + Len(bytes) - 1 |-> bytes[a - org + 1]]
Code(bytes) == BytesAt(Org, bytes)

LDA(v) == <<\ha9, v>>
LDX(v) == <<\ha2, v>>
LDY(v) == <<\ha0, v>>
SEC == \h38
CLC == \h18
SED == \hf8
CLD == \hd8
NOP == \hea
PHA == \h48
PLA == \h68
PHP == \h08
PLP == \h28
TXS == \h9a
RTS == \h60
RTI == \h40
BRK == \h00
INX == \he8

Edges == {0, 1, \h7f, \h80, \hff}
Digits == {\h09, \h50, \h99}
Branches == {\h90, \hb0, \hd0, \hf0, \h10, \h30, \h50, \h70}
Skip(branch) == <<branch, 1, INX, RTS>>

\* ADC and SBC, binary and decimal, then a look at the flags.
Arithmetic ==
    {Code(LDA(a) \o <<c, d, o, z>> \o look) :
        a \in Edges \cup Digits, z \in Edges \cup Digits, c \in {SEC, CLC},
        d \in {SED, NOP}, o \in {\h69, \he9},
        look \in {<<PHP, PLP, RTS>>, Skip(\h70), Skip(\h30)}}

\* Comparisons and logic, then a branch on the flags.
Comparison ==
    {Code(LDA(a) \o LDX(a) \o LDY(a) \o <<o, z>> \o Skip(b)) :
        a \in Edges, z \in Edges, b \in Branches,
        o \in {\hc9, \he0, \hc0, \h29, \h09, \h49}}

\* Any status pulled from the stack and BIT of any byte, then a branch on what
\* each of them makes of the flags.
FlagSources ==
    {Code(LDA(v) \o <<PHA, PLP>> \o Skip(b)) : v \in Byte, b \in Branches}
    \cup
    {Overlaid(BytesAt(16, <<z>>), Code(LDA(a) \o <<\h24, 16>> \o Skip(b))) :
        a \in Edges, z \in Edges \cup {\h40, \hc0}, b \in Branches}

\* Shifts, rotates, INC and DEC of a byte in memory and of the accumulator.
InPlace ==
    {Overlaid(BytesAt(16, <<v>>), Overlaid(BytesAt(\h0210, <<v>>),
        Code(LDX(1) \o LDA(v) \o <<c, base + m[1], m[2], 2, RTS>>))) :
        v \in Edges, c \in {SEC, CLC},
        base \in {\h00, \h20, \h40, \h60, \hc0, \he0},
        m \in {<<\h06, \h10>>, <<\h16, \h0f>>, <<\h0e, \h10>>, <<\h1e, \h0f>>}}
    \cup
    {Code(LDA(v) \o <<c, base + \h0a>> \o Skip(b)) :
        v \in Edges, c \in {SEC, CLC}, b \in {\hb0, \h30},
        base \in {\h00, \h20, \h40, \h60}}

\* Every addressing mode, with indexes that wrap and addresses at the end of
\* memory and of the zero page; the byte at $0300 is that of a jump through
\* $02ff that carries into the next page.
Addressed ==
    {Overlaid(Overlaid(BytesAt(\hff, <<\h34, \h02>>), BytesAt(\h0300, <<\h10>>)),
        Code(LDX(x) \o LDY(y) \o <<o, l, h, NOP, RTS>>)) :
        x \in {0, 1, \hff}, y \in {0, \hff},
        l \in {\h10, \hff}, h \in {\h02, \hff},
        o \in {\ha5, \hb5, \had, \hbd, \hb9, \ha1, \hb1, \h85, \h95, \h8d, \h9d,
               \h99, \h81, \h91, \ha6, \hb6, \hae, \hbe, \h86, \h96, \h8e, \ha4,
               \hb4, \hac, \hbc, \h84, \h94, \h8c, \h24, \h2c, \h6c}}

StackOps == {<<PHA>>, <<PLA>>, <<PHP>>, <<PLP>>, <<BRK, NOP>>, <<RTI>>,
             <<RTS>>, <<\h20, \h20, \h10>>}

\* Two stack operations with the stack pointer anywhere near its limits.
StackUse ==
    {Overlaid(BytesAt(\h1fc, <<\h48, \h10, \h0f, \h10>>),
     Overlaid(BytesAt(\hfffe, <<\h20, \h10>>),
     Overlaid(BytesAt(\h1020, <<last, RTS>>),
        Code(LDX(s) \o <<TXS>> \o one \o two \o <<NOP, RTS>>)))) :
        s \in {0, 1, 2, 3, \hfb, \hfc, \hfd, \hfe, \hff}, last \in {RTS, RTI},
        one \in StackOps, two \in StackOps}

\* Three operations on the D flag, one of them an interrupt, then an ADC.
DecimalSwitching ==
    LET Ops == {<<SED>>, <<CLD>>, <<PHP>>, <<PLP>>, <<BRK, NOP>>, LDA(\h08) \o <<PHA>>}
    IN  {Overlaid(BytesAt(\hfffe, <<\h20, \h10>>),
         Overlaid(BytesAt(\h1020, <<d, RTI>>),
            Code(one \o two \o three \o LDA(\h15) \o <<\h69, \h27, RTS>>))) :
            one \in Ops, two \in Ops, three \in Ops, d \in {SED, CLD, NOP}}

\* Two register transfers or steps.
RegisterMoves ==
    LET Ops == {\haa, \h8a, \ha8, \h98, \h9a, \hba, \hca, \he8, \h88, \hc8}
    IN  {Code(LDA(a) \o <<one, two, PHP, PLP, RTS>>) :
            a \in Edges, one \in Ops, two \in Ops}

\* Every opcode there is and is not, the flag operations among them.
AnyOpcode ==
    {Code(LDA(\h15) \o <<d, o, \h10, \h02, RTS>>) : d \in {SED, SEC}, o \in Byte}

\* Code at both ends of memory: only bytes that lie inside it.
EndsOfMemory ==
    {Overlaid(Code(<<\h4c, at % 256, at \div 256>>),
              [a \in (at .. at + 1) \cap Adr |-> IF a = at THEN o ELSE rel]) :
        at \in {0, \hfffd, \hfffe, \hffff}, o \in {NOP, \hd0, \hf0},
        rel \in {\h80, \h7f}}

\* Instructions that lead to themselves: only the count of cycles ends the run.
Endless == {Code(<<\h4c, \h00, \h10>>), Code(<<\hd0, \hfe>>),
            Code(<<\h20, \h00, \h10>>), Code(<<\hf0, \hfe>>)}

MCRoms == <<>>
MCWatched == {}
MCGarbagePC == {-1}
Programs == Arithmetic \cup Comparison \cup FlagSources \cup InPlace
            \cup Addressed \cup StackUse \cup DecimalSwitching
            \cup RegisterMoves \cup AnyOpcode \cup EndsOfMemory \cup Endless
MCImages == Programs

=============================================================================
