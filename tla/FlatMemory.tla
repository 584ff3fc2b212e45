----------------------------- MODULE FlatMemory -----------------------------
(***************************************************************************)
(* What mapRom promises: an address space without banks or pages.  Code at *)
(* an address finds the byte of the ROM that was mapped over it last, or   *)
(* what was stored there; a ROM mapped too high goes on at address 0; and  *)
(* no store, call or callback changes what a ROM shows.                    *)
(***************************************************************************)
EXTENDS Integers

CONSTANTS Watched,  \* the addresses looked at
          Places,   \* where a ROM may be mapped
          Images    \* ROMs by name: [len |-> bytes, data |-> sparse bytes]

VARIABLES shown,    \* the byte at each watched address
          covered   \* the watched addresses under a ROM

Window(place, image) == {a \in Watched : (a - place) % 65536 < image.len}

Byte(image, offset) == IF offset \in DOMAIN image.data THEN image.data[offset] ELSE 0

Init == shown = [a \in Watched |-> 0] /\ covered = {}

Map ==
    \E place \in Places, r \in DOMAIN Images :
        LET window == Window(place, Images[r])
        IN  /\ covered' = covered \cup window
            /\ shown' = [a \in Watched |->
                  IF a \in window THEN Byte(Images[r], (a - place) % 65536)
                                  ELSE shown[a]]

Store ==
    /\ covered' = covered
    /\ \A a \in covered : shown'[a] = shown[a]

Spec == Init /\ [][Store \/ Map]_<<shown, covered>>

=============================================================================
