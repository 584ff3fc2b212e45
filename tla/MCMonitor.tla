----------------------------- MODULE MCMonitor -----------------------------
(***************************************************************************)
(* An instance of Monitor: main() runs the sources of src/asm, and a user  *)
(* of the monitor types a few of the lines below in any order.  What the   *)
(* monitor runs is small: code that ends, code that stalls, code that only *)
(* its budget ends, and a byte that is no opcode.                          *)
(***************************************************************************)
EXTENDS Monitor, MCTable, AsmSources

MCRoms == <<>>
MCGarbage == {0}

Folded == AsmClass @@ [n \in {"foo"} |-> "FOO"]
MCClass == Folded

Files == {TestAsm, BubbleAsm, WeekAsm, RootAsm, SubAsm, JumpsAsm,
              <<Ref("jmp", "", "foo")>>, <<Req({})>>}
MCSources == Files
SubOnly == {SubAsm}

\* The full test: it ends at the RTS that main() puts at $3b91.
FullTestImage == Overlaid(
    [a \in \h1000 .. \h1002 |-> <<\h4c, \h91, \h3b>>[a - \h0fff]], [a \in {\h3b91} |-> \h60])
MCTestImage == FullTestImage

Typed(name, args) == [name |-> name, args |-> args]
A(args, l) == Typed("a", args) @@ [op |-> l.op, arg |-> l.arg, tokens |-> l.tokens]

\* "jmp" to a "jmp" back, and an instruction that stalls behind one that
\* does not.
Endless == <<Ref("jmp", "", "foo"), Label("foo", Val("jmp", "", \h1000))>>
Stalling == <<Imp("nop"), Label("foo", Ref("jmp", "", "foo")), Bytes(<<2>>)>>

Lines == {
    Typed("enter", <<>>), Typed("r", <<>>),
    Typed("?", <<>>) @@ [minus |-> TRUE],
    Typed("trace", <<>>) @@ [strarg |-> "on"], Typed("trace", <<>>) @@ [strarg |-> "off"],
    Typed("d", <<\hfffe, 2>>), Typed("d", <<>>), Typed("m", <<\h1000>>),
    Typed("c", <<>>),
    Typed("g", <<\h1000>>), Typed("g", <<\h1004>>), Typed("g", <<>>),
    Typed("af", <<>>) @@ [file |-> Endless], Typed("af", <<>>) @@ [file |-> Stalling],
    A(<<\h1000>>, Imp("rts")), A(<<>>, Val("jmp", "", \h1000)),
    A(<<\h1000>>, Val("sta", ",y", 16)),
    A(<<>>, Val("ldx", "#,x", 16)), A(<<>>, Val("lda", "(,y),y", 16)),
    A(<<>>, Val("bne", "", \h1000)), A(<<\hfffe>>, Ref("lda", "", "foo")),
    A(<<\hc>>, Imp("ld"))}
MCCommands == Lines

=============================================================================
