------------------------------ MODULE MCParser ------------------------------
(***************************************************************************)
(* An instance of Parser: all sources of at most three of the lines below, *)
(* some longer ones, and those of src/asm.                                 *)
(***************************************************************************)
EXTENDS Parser, AsmSources

Folded == AsmClass @@
    [n \in {"L", "l", "foo", "bar", "nowhere"} |->
        CASE n \in {"L", "l"} -> "L"   [] n = "foo" -> "FOO"
          [] n = "bar"        -> "BAR" [] n = "nowhere" -> "NOWHERE"]

MCClass == Folded

Indented(l) == [l EXCEPT !.label = ""]

Lines == {
    Ref("lda", "", "foo"),
    Exp("lda", ",x", <<Sym("bar"), Num(1), Op("+"), End>>),
    Label("L", Imp("nop")),
    Ref("beq", "", "L"),
    Ref("jmp", "", "$"),
    Exp("lda", "#", <<Neg, Num(1), End>>),
    Indented(Define("foo", <<Num(16), End>>)),
    Define("foo", <<Sym("bar"), Num(8), Op(">>"), End>>),
    Indented(Define("bar", <<Sym("l"), Num(1), Op("+"), End>>)),
    Label("bar", Data(<<Sym("foo"), End, Sym("nowhere"), End>>)),
    Data(<<Sym("L"), End, Sym("PI"), End>>),
    Label("l", Blank),
    Org(65534),
    Req({<<RA, 5>>})}

Endings == {
    SourceLine("bad", <<>>), SourceLine("string", <<>>), Req({}),
    Val("lda", " ,x", 5),
    Exp("lda", "#", <<Num(5), Num(3), Op("--"), End>>)}

\* The lines whose order and sizes matter most, for sources of four.
Core == {
    Ref("lda", "", "foo"), Label("L", Imp("nop")),
    Ref("beq", "", "L"),   Indented(Define("foo", <<Num(16), End>>)),
    Define("foo", <<Sym("bar"), Num(8), Op(">>"), End>>),
    Indented(Define("bar", <<Sym("l"), Num(1), Op("+"), End>>))}

AllSources ==
    UNION {[1 .. n -> Lines] : n \in 1 .. 3}
    \cup [1 .. 4 -> Core]
    \cup {<<l, m>> : l \in Lines, m \in Endings}
    \cup {TestAsm, BubbleAsm, WeekAsm, RootAsm, SubAsm, JumpsAsm}

MCSources == AllSources

MCGarbage == {0, 512}

=============================================================================
