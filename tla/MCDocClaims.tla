---------------------------- MODULE MCDocClaims ----------------------------
(***************************************************************************)
(* Instances of DocClaims, one .cfg for each claim: the client loads one   *)
(* of a few programs at $1000 and runs it.                                 *)
(***************************************************************************)
EXTENDS DocClaims, MCTable
MCRoms == <<>>
MCGarbagePC == {\h1000}

Code(bytes) == [a \in \h1000 .. \h1000 + Len(bytes) - 1 |-> bytes[a - \h0fff]]

\* SEI and CLI, BRK, and the example of opcodes.txt:255: JMP ($30FF).
MCImages ==
    {Code(<<\h78, \h58, \h60>>), Code(<<\h00>>),
     Overlaid(Code(<<\h6c, \hff, \h30>>),
              [a \in {\h3000, \h30ff, \h3100} |->
                  CASE a = \h3000 -> \h40 [] a = \h30ff -> \h80 [] a = \h3100 -> \h50])}

=============================================================================
