-------------------------------- MODULE Ram --------------------------------
(***************************************************************************)
(* The 64 Kbyte of RAM of src/emulator.h, kept sparsely: the constructor   *)
(* fills it with zeros, and a cell that nobody wrote reads 0.              *)
(***************************************************************************)
EXTENDS Words

\* Bytes by address, all of them in S.
Block(data, S) == DOMAIN data \subseteq S /\ \A a \in DOMAIN data : data[a] \in Byte

\* A state of the RAM, as far as it was written.
RamOK(data) == Block(data, Adr)

At(data, adr) == IF adr \in DOMAIN data THEN data[adr] ELSE 0

\* data with the byte v at adr.
Stored(data, adr, v) ==
    [a \in DOMAIN data \cup {adr} |-> IF a = adr THEN v ELSE data[a]]

\* data overwritten by a block of bytes.
Overlaid(data, block) ==
    [a \in DOMAIN data \cup DOMAIN block |->
        IF a \in DOMAIN block THEN block[a] ELSE data[a]]

=============================================================================
