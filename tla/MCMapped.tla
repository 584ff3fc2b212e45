------------------------------ MODULE MCMapped ------------------------------
(***************************************************************************)
(* An instance of MachineRefinement with memory mapped: before, between    *)
(* and after two runs the client maps, in any order, a two-page ROM and    *)
(* read and write callbacks at $fe, at $ff (where the ROM overlaps the     *)
(* other, wraps around and covers the zero page) and at $01 (over the      *)
(* stack).  The programs read, write, modify and execute what was mapped.  *)
(***************************************************************************)
EXTENDS MachineRefinement, MCTable

\* LDX #$05; RTS in its first page, a byte in its second, and what an
\* interrupt finds when the first page is $ff.
MCRoms == [kernal |-> [len |-> 512,
                       data |-> [o \in {0, 1, 2, \hfe, \hff, 256, 272} |->
                                   CASE o = 0    -> \ha2
                                     [] o = 1    -> 5
                                     [] o = 2    -> \h60
                                     [] o = \hfe -> 0
                                     [] o = \hff -> \hfe
                                     [] OTHER    -> \hfe]]]

Code(bytes) == [a \in \h1000 .. \h1000 + Len(bytes) - 1 |-> bytes[a - \h0fff]]

MCImages ==
    { Code(<<\hee, \h01, \hfe, \had, \h01, \hff, \h60>>),    \* INC $fe01, LDA $ff01
      Code(<<\h20, \h00, \hfe, \h60>>),                      \* JSR $fe00
      Code(<<\h48, \had, \hff, \h01, \h68, \h60>>),          \* PHA, LDA $01ff, PLA
      Code(<<\ha1, \h10, \h91, \h10, \h60>>),                \* LDA ($10,X), STA ($10),Y
      Code(<<\h00>>) }                                       \* BRK

\* First, last and inner bytes of the pages that a ROM may cover, those the ROM
\* or the programs define among them, and a byte after them.
MCWatched == {\h10, \hff, \h100, \h110, \h200, \hfe02, \hff00, \hff10, \hffff}

MCGarbagePC == {\h1000}

=============================================================================
