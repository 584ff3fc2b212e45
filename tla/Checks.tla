------------------------------- MODULE Checks -------------------------------
(***************************************************************************)
(* The checks of the lines with an "@", as src/compile.h reads them: what  *)
(* they look at is a register, or else the address of a byte of RAM.       *)
(***************************************************************************)
EXTENDS Ram

RA == 65536
RX == RA + 1
RY == RA + 2
RSR == RA + 3

\* The function set_break stores: whether each check <<what, value>> of
\* `reqs` holds for the registers, the status byte and the RAM.
Holds(reqs, reg, SR, ram) ==
    \A r \in reqs :
        r[2] = CASE r[1] = RA  -> reg["A"]
                 [] r[1] = RX  -> reg["X"]
                 [] r[1] = RY  -> reg["Y"]
                 [] r[1] = RSR -> SR
                 [] OTHER      -> At(ram, r[1] % 65536)

=============================================================================
