------------------------------ MODULE Programs ------------------------------
(***************************************************************************)
(* The two 6502 programs that src/tests.cpp runs for its benchmarks, and   *)
(* what they are to compute.  tests.cpp only measures them; here every run *)
(* is checked against a definition that knows nothing of the 6502.         *)
(***************************************************************************)
EXTENDS Machine, Sequences, FiniteSets

\* The bytes of a program, from org on.
Code(org, bytes) == [a \in org .. org + Len(bytes) - 1 |-> bytes[a - org + 1]]

\* The client's one run of `program` has ended.
Returned(program) == phase = "idle" /\ runs = 1 /\ At(ram, \h1002) = program[3]
ByRts == cycles = CyclesMax - 26

-----------------------------------------------------------------------------
(* Bench_sort: a bubble sort of the list that ($30) points to. *)

sortCode ==
    << \ha0, \h00, \h84, \h32, \hb1, \h30, \haa, \hc8, \hca, \hb1,
       \h30, \hc8, \hd1, \h30, \h90, \h10, \hf0, \h0e, \h48, \hb1,
       \h30, \h88, \h91, \h30, \h68, \hc8, \h91, \h30, \ha9, \hff,
       \h85, \h32, \hca, \hd0, \he6, \h24, \h32, \h30, \hd9, \h60 >>

List     == \h2000  \* its length, then its bytes
Original == \h3000  \* a copy the program does not touch

SortImage(data) ==
    LET list == <<Len(data)>> \o data
    IN  Overlaid(Overlaid(Code(\h1000, sortCode), Code(\h30, <<\h00, \h20>>)),
                 Overlaid(Code(List, list), Code(Original, list)))

Positions == 1 .. At(ram, Original)
Count(base, v) == Cardinality({i \in Positions : At(ram, base + i) = v})

\* When the sort returns, the list is in ascending order and holds the bytes
\* it held before, each as often (tests.cpp Bench_sort, on emulator.h).
ListSorted ==
    Returned(sortCode) =>
        /\ ByRts
        /\ \A i, j \in Positions : i < j => At(ram, List + i) <= At(ram, List + j)
        /\ \A i \in Positions : LET v == At(ram, List + i)
                                IN  Count(List, v) = Count(Original, v)

-----------------------------------------------------------------------------
(* Bench_emulate: the day of the week of the date in Y, X and A. *)

WEEK ==
    << \ha0, \h74, \ha2, \h0a, \ha9, \h07, \h20, \h0a, \h10, \h60, \he0,
       \h03, \hb0, \h01, \h88, \h49, \h7f, \hc0, \hc8, \h7d, \h2a, \h10,
       \h85, \h06, \h98, \h20, \h26, \h10, \he5, \h06, \h85, \h06, \h98,
       \h4a, \h4a, \h18, \h65, \h06, \h69, \h07, \h90, \hfc, \h60, \h01,
       \h05, \h06, \h03, \h01, \h05, \h03, \h00, \h04, \h02, \h06, \h04 >>

\* The program with a date for the three operands of its first instructions.
WeekImage(year, month, day) ==
    [Code(\h1000, WEEK) EXCEPT ![\h1001] = year - 1900, ![\h1003] = month,
                               ![\h1005] = day]

Leap(year) == year % 4 = 0 /\ (year % 100 # 0 \/ year % 400 = 0)

DaysBefore(month) == <<0, 31, 59, 90, 120, 151, 181, 212, 243, 273, 304, 334>>[month]

\* 0 is Sunday, as was the day before 1 January of the year 1.
Weekday(year, month, day) ==
    LET y == year - 1
    IN  (365 * y + y \div 4 - y \div 100 + y \div 400
         + DaysBefore(month) + (IF Leap(year) /\ month > 2 THEN 1 ELSE 0) + day) % 7

\* When WEEK returns, A is the day of the week of the date it was given
\* (tests.cpp Bench_emulate, on emulator.h).
WeekdayFound ==
    Returned(WEEK) =>
        /\ ByRts
        /\ reg["A"] = Weekday(1900 + ram[\h1001], ram[\h1003], ram[\h1005])

=============================================================================
