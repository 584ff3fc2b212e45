------------------------------ MODULE Encoder ------------------------------
(***************************************************************************)
(* The function src/compile.h gives to the parser: it writes the bytes of  *)
(* a line to the RAM of the machine, and hands the checks of a line with   *)
(* an "@" to the machine's policy.                                         *)
(***************************************************************************)
EXTENDS Assembler, Ram

VARIABLES
    ram,
    breaks,  \* the policy's checks, a set of <<what, value>> by address
    maxOrg   \* the end of the code that dump.dat will hold

encoded == <<ram, breaks, maxOrg>>

EncoderInit == ram = <<>> /\ breaks = <<>> /\ maxOrg = 0

\* Mutant: the addresses do not wrap.
DataAtUnwrapped(org, data) == [a \in org .. org + Len(data) - 1 |-> data[a - org + 1]]

\* The 16-bit addresses of a block at org: writeRam(uint16_t, Word) wraps.
DataAt(org, data) ==
    [a \in {(org + i) % 65536 : i \in 0 .. Len(data) - 1} |-> data[((a - org) % 65536) + 1]]

Grown(o) == maxOrg' = IF o > maxOrg THEN o ELSE maxOrg

encodeData(org, data) ==
    /\ ram' = Overlaid(ram, DataAt(org % 65536, data))
    /\ Grown((org % 65536) + Len(data))
    /\ UNCHANGED breaks

\* set_break: the checks a former line, or a former pass, left at an
\* address are replaced there and stay everywhere else.
encodeMeta(org, reqs) ==
    /\ breaks' = Stored(breaks, org % 65536, reqs)
    /\ UNCHANGED <<ram, maxOrg>>

\* writeRam(uint16_t, const uint8_t*, int) does not wrap.
Fits(org, bytes) == (org % 65536) + Len(bytes) <= 65536

\* Mutant: org has already moved on.
encodeLineBehind(org, bytes) ==
    /\ Fits(org, bytes)
    /\ ram' = Overlaid(ram, DataAt((org + Len(bytes)) % 65536, bytes))
    /\ Grown((org % 65536) + Len(bytes))
    /\ UNCHANGED breaks

encodeLine(org, bytes) ==
    /\ Fits(org, bytes)
    /\ ram' = Overlaid(ram, DataAt(org % 65536, bytes))
    /\ Grown((org % 65536) + Len(bytes))
    /\ UNCHANGED breaks

=============================================================================
