----------------------------- MODULE AsmSources -----------------------------
(***************************************************************************)
(* How the instances write the lines of a source, as module Parser has     *)
(* them, and the sources of src/asm that come with checks, line by line:   *)
(* empty lines behind the first one and comments are left out.             *)
(***************************************************************************)
EXTENDS Checks, Sequences, TLC

Num(n) == [t |-> "num", n |-> n]
Sym(s) == [t |-> "sym", s |-> s]
Op(o)  == [t |-> "op", o |-> o]
Neg    == [t |-> "neg"]
End    == [t |-> "end"]

SourceLine(kind, tokens) == [kind |-> kind, label |-> "", colon |-> FALSE, tokens |-> tokens]

Notation(form) ==
    [hash |-> form \in {"#", "#,x"}, close |-> form \in {"()", "(,x)", "(),y", "(,y),y"},
     outer |-> form \in {"(),y", "(,y),y"},
     index |-> CASE form \in {",x", " ,x", "(,x)", "#,x"} -> "x"
                 [] form \in {",y", "(,y),y"} -> "y"
                 [] OTHER -> "",
     blank |-> form = " ,x"]

Instruction(op, arg, tokens) == SourceLine("asm", tokens) @@ [op |-> op, arg |-> arg]

Imp(op)               == Instruction(op, [none |-> TRUE], <<>>)
Exp(op, form, tokens) == Instruction(op, Notation(form), tokens)
Val(op, form, n)      == Exp(op, form, <<Num(n), End>>)
Ref(op, form, s)      == Exp(op, form, <<Sym(s), End>>)
Data(tokens)          == SourceLine("data", tokens)
Bytes(b)              == Data([k \in 1 .. 2 * Len(b) |-> IF k % 2 = 1 THEN Num(b[(k + 1) \div 2]) ELSE End])
Define(name, tokens)  == [SourceLine("def", tokens) EXCEPT !.label = name] @@ [name |-> name]
Org(n)                == SourceLine("org", <<Num(n), End>>)
Req(reqs)             == SourceLine("meta", <<>>) @@ [reqs |-> reqs]
Blank                 == SourceLine("empty", <<>>)
Label(name, l)        == [l EXCEPT !.label = name]
Colon(name, l)        == [l EXCEPT !.label = name, !.colon = TRUE]

-----------------------------------------------------------------------------

TestAsm == <<
    Org(4096), Colon("label", Blank), Val("ldx", "#", 9), Val("ldy", "#", 11),
    Val("lda", "#", 69), Req({<<RX, 9>>, <<RY, 11>>, <<RA, 69>>}),
    Val("sta", "", 49152), Req({<<49152, 69>>}), Val("inc", "", 49152),
    Val("lda", "", 49152), Imp("sec"), Val("adc", "#", 3), Req({<<RA, 74>>}),
    Val("sta", ",x", 49153), Val("lda", ",y", 49152), Val("sta", ",y", 49154),
    Val("lda", "#", 192), Val("sta", "", 7), Val("lda", "#", 4),
    Val("sta", "", 6), Val("lda", "#", 4), Imp("tay"), Val("sta", "(),y", 6),
    Req({<<49160, 4>>}), Imp("rts") >>

BubbleAsm == <<
    Blank, Exp("lda", "#", <<Sym("LIST"), Num(8), Op(">>"), End>>),
    Val("sta", "", 49),
    Exp("lda", "#", <<Sym("LIST"), Num(255), Op("&"), End>>),
    Val("sta", "", 48), Ref("jsr", "", "SORT8"), Ref("lda", "", "LIST"),
    Imp("tax"), Label("LOOP", Blank),
    Exp("lda", ",x", <<Sym("LIST"), Num(1), Op("+"), End>>), Imp("dex"),
    Ref("bne", "", "LOOP"), Imp("rts"), Label("LIST", Blank), Bytes(<<8>>),
    Bytes(<<9, 5, 2, 12, 1, 15, 8, 2>>), Label("SORT8", Val("ldy", "#", 0)),
    Val("sty", "", 50), Val("lda", "(),y", 48), Imp("tax"), Req({<<RX, 8>>}),
    Imp("iny"), Imp("dex"), Label("NXTEL", Val("lda", "(),y", 48)), Imp("iny"),
    Val("cmp", "(),y", 48), Ref("bcc", "", "CHKEND"), Ref("beq", "", "CHKEND"),
    Imp("pha"), Val("lda", "(),y", 48), Imp("dey"), Val("sta", "(),y", 48),
    Imp("pla"), Imp("iny"), Val("sta", "(),y", 48), Val("lda", "#", 255),
    Val("sta", "", 50), Label("CHKEND", Imp("dex")), Ref("bne", "", "NXTEL"),
    Val("bit", "", 50), Ref("bmi", "", "SORT8"), Imp("rts") >>

WeekAsm == <<
    Blank, Define("TMP", <<Num(6), End>>),
    Exp("ldy", "#", <<Num(2016), Num(1900), Op("-"), End>>),
    Val("ldx", "#", 10), Val("lda", "#", 7), Ref("jsr", "", "WEEKDAY"),
    Req({<<RA, 5>>}), Imp("rts"), Colon("WEEKDAY", Blank), Val("cpx", "#", 3),
    Ref("bcs", "", "MARCH"), Imp("dey"), Colon("MARCH", Val("eor", "#", 127)),
    Val("cpy", "#", 200),
    Exp("adc", ",x", <<Sym("MTAB"), Num(1), Op("-"), End>>),
    Ref("sta", "", "TMP"), Req({<<6, 122>>}), Imp("tya"),
    Ref("jsr", "", "MOD7"), Ref("sbc", "", "TMP"), Ref("sta", "", "TMP"),
    Req({<<6, 134>>}), Imp("tya"), Imp("lsr"), Imp("lsr"), Req({<<RA, 29>>}),
    Imp("clc"), Ref("adc", "", "TMP"), Colon("MOD7", Val("adc", "#", 7)),
    Ref("bcc", "", "MOD7"), Imp("rts"),
    Colon("MTAB", Bytes(<<1, 5, 6, 3, 1, 5, 3, 0, 4, 2, 6, 4>>)) >>

RootAsm == <<
    Blank, Define("Numberl", <<Num(240), End>>),
    Define("Numberh", <<Sym("Numberl"), Num(1), Op("+"), End>>),
    Define("Reml", <<Num(242), End>>),
    Define("Remh", <<Sym("Reml"), Num(1), Op("+"), End>>),
    Define("templ", <<Num(244), End>>),
    Define("temph", <<Sym("templ"), Num(1), Op("+"), End>>),
    Define("Root", <<Num(246), End>>), Org(4096),
    Define("TEST", <<Num(23456), End>>),
    Exp("lda", "#", <<Sym("TEST"), Num(8), Op(">>"), End>>),
    Ref("sta", "", "Numberh"),
    Exp("lda", "#", <<Sym("TEST"), Num(255), Op("&"), End>>),
    Ref("sta", "", "Numberl"), Ref("jsr", "", "SqRoot"),
    Ref("lda", "", "Root"), Req({<<RA, 153>>}), Imp("rts"), Org(32768),
    Label("SqRoot", Blank), Val("lda", "#", 0), Ref("sta", "", "Reml"),
    Ref("sta", "", "Remh"), Ref("sta", "", "Root"), Val("ldx", "#", 8),
    Label("Loop", Blank), Ref("asl", "", "Root"), Ref("asl", "", "Numberl"),
    Ref("rol", "", "Numberh"), Ref("rol", "", "Reml"), Ref("rol", "", "Remh"),
    Ref("asl", "", "Numberl"), Ref("rol", "", "Numberh"),
    Ref("rol", "", "Reml"), Ref("rol", "", "Remh"), Ref("lda", "", "Root"),
    Ref("sta", "", "templ"), Val("lda", "#", 0), Ref("sta", "", "temph"),
    Imp("sec"), Ref("rol", "", "templ"), Ref("rol", "", "temph"),
    Ref("lda", "", "Remh"), Ref("cmp", "", "temph"), Ref("bcc", "", "Next"),
    Ref("bne", "", "Subtr"), Ref("lda", "", "Reml"), Ref("cmp", "", "templ"),
    Ref("bcc", "", "Next"), Label("Subtr", Blank), Ref("lda", "", "Reml"),
    Ref("sbc", "", "templ"), Ref("sta", "", "Reml"), Ref("lda", "", "Remh"),
    Ref("sbc", "", "temph"), Ref("sta", "", "Remh"), Ref("inc", "", "Root"),
    Label("Next", Blank), Imp("dex"), Ref("bne", "", "Loop"), Imp("rts") >>

SubAsm == <<
    Imp("clc"), Val("lda", "#", 144), Val("adc", "#", 128), Imp("sec"),
    Val("lda", "#", 80), Val("sbc", "#", 32), Imp("nop"),
    Req({<<RA, 48>>, <<RSR, 1>>}), Val("sbc", "#", 64),
    Req({<<RA, 240>>, <<RSR, 128>>}), Val("adc", "#", 144),
    Req({<<RA, 128>>, <<RSR, 129>>}), Val("lda", "#", 104),
    Val("sta", "", 53248), Val("lda", "#", 105), Val("sta", "", 53248),
    Imp("clc"), Val("lda", "#", 1), Val("adc", "#", 1),
    Req({<<RA, 2>>, <<RSR, 0>>}), Imp("clc"), Val("lda", "#", 1),
    Val("adc", "#", 255), Req({<<RA, 0>>, <<RSR, 1>>}), Imp("clc"),
    Val("lda", "#", 127), Val("adc", "#", 1), Imp("nop"), Req({<<RA, 128>>}),
    Imp("clc"), Val("lda", "#", 128), Val("adc", "#", 255),
    Req({<<RA, 127>>, <<RSR, 65>>}), Imp("sec"), Val("lda", "#", 0),
    Imp("nop"), Req({<<RSR, 67>>}), Val("sbc", "#", 1),
    Req({<<RA, 255>>, <<RSR, 128>>}), Imp("sec"), Val("lda", "#", 128),
    Req({<<RSR, 129>>}), Val("sbc", "#", 1),
    Req({<<RA, 127>>, <<RSR, 65>>}), Imp("sec"), Val("lda", "#", 127),
    Val("sbc", "#", 255), Req({<<RA, 128>>, <<RSR, 192>>}), Imp("rts") >>

JumpsAsm == <<
    Label("START", Blank), Ref("jmp", "", "LATER"), Colon("Sub", Imp("clc")),
    Ref("bcs", "", "START"), Imp("rts"), Label("LATER", Blank),
    Ref("jsr", "", "Sub"), Val("lda", "#", 8), Imp("rts") >>

\* The names in them, and these in upper case: "Loop" and "LOOP" are equal.
AsmNames == {
    "PI", "Loop", "CHKEND", "LATER", "LIST", "LOOP", "MARCH", "MOD7", "MTAB",
    "NXTEL", "Next", "Numberh", "Numberl", "Remh", "Reml", "Root", "SORT8",
    "START", "SqRoot", "Sub", "Subtr", "TEST", "TMP", "WEEKDAY", "label",
    "temph", "templ"}

AsmClass == [n \in AsmNames |-> IF n = "Loop" THEN "LOOP" ELSE n]

=============================================================================
