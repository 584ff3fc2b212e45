----------------------------- MODULE MCPrograms -----------------------------
(***************************************************************************)
(* An instance of Subroutines and Programs, under the policy of Bench_sort,*)
(* which accesses memory directly.  The client loads one program, sets the *)
(* pc to it and runs it, in this order.  The programs are                  *)
(*   - calls: $1000 sets the stack pointer and calls $1010; the subroutine *)
(*     does two stack operations and returns; what it calls, or interrupts *)
(*     itself with, is at $1020;                                           *)
(*   - the sort program with a list of two to four bytes;                  *)
(*   - the weekday program with a date around a leap day, at the end of a  *)
(*     month or of the range the program is good for.                      *)
(***************************************************************************)
EXTENDS Subroutines, Programs, MCTable
MCRoms == <<>>
MCGarbagePC == {0}

\* NOP, PHA, PLA, PHP, PLP, SED, JSR $1020, BRK, TSX INX TXS, STA $01fd.
Inner == {<<\hea>>, <<\h48>>, <<\h68>>, <<\h08>>, <<\h28>>, <<\hf8>>}
Outer == Inner \cup {<<\h20, \h20, \h10>>, <<\h00, \hea>>, <<\hba, \he8, \h9a>>,
                     <<\h8d, \hfd, \h01>>}

Program(s, one, two, three, return) ==
    Code(\h1000, <<\ha2, s, \h9a, \h20, \h10, \h10, \h60>>)
    @@ Code(\h1010, one \o two \o <<\h60>>)
    @@ Code(\h1020, three \o <<return>>)
    @@ Code(\hfffe, <<\h20, \h10>>)

MCCalls ==
    {Program(s, one, two, three, return) :
        s \in {0, 1, 2, 3, 4, 5, 6, \h80, \hff}, one \in Outer, two \in Outer,
        three \in Inner, return \in {\h60, \h40}}

MCLists == {SortImage(data) :
               data \in UNION {[1 .. n -> {0, 19, 128, 255}] : n \in 2 .. 4}}

MCDates ==
    {WeekImage(y, m, 1) : y \in 1901 .. 2155, m \in {2, 3}}
    \cup {WeekImage(y, m, 31) : y \in {1999, 2000, 2100}, m \in {1, 3, 5, 7, 8, 10, 12}}
    \cup {WeekImage(y, m, 30) : y \in {1999, 2000, 2100}, m \in {4, 6, 9, 11}}
    \cup {WeekImage(y, 2, 28) : y \in {1904, 1999, 2000, 2099, 2100}}
    \cup {WeekImage(y, 2, 29) : y \in {1904, 2000, 2024}}
    \cup {WeekImage(1900, 3, 1), WeekImage(2155, 12, 31), WeekImage(2016, 10, 7)}

MCImages == MCCalls \cup MCLists \cup MCDates

\* A benchmark runs until it returns; the calls, which may lead anywhere once
\* the stack is overwritten, for a short while.
Budget == IF At(ram, \h1000) = \ha0 THEN 3000 ELSE 90
LoadedAndRun == runs' # runs => writes = 1 /\ pc = \h1000 /\ toCycles' = Budget

ProgramsSpec == HistoryInit /\ [][HistoryNext /\ LoadedAndRun]_hvars

=============================================================================
