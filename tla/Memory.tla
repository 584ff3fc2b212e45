------------------------------ MODULE Memory ------------------------------
(***************************************************************************)
(* The memory of src/emulator.h: 64 Kbyte of RAM, seen through 256 banks   *)
(* that mapRom redirects to ROM images and through one read and one write  *)
(* callback per page that the client may install.                          *)
(*                                                                         *)
(* rbank holds the redirected pages only, and rcallbacks and wcallbacks    *)
(* the pages whose callback is the client's (the others have read_bank and *)
(* write_bank).                                                            *)
(***************************************************************************)
EXTENDS Ram

CONSTANTS
    Roms,         \* ROM images by name: [len |-> bytes, data |-> sparse bytes]
    DeviceBytes,  \* what a client's read callback may return
    PC_AccessMode, Read_AccessMode, Write_AccessMode

AccessModes == {"DIRECT", "BANKED", "CALLBACK"}
Page == 0 .. 255

RomOK(rom) == rom.len \in {256 * n : n \in 1 .. 256} /\ Block(rom.data, 0 .. rom.len - 1)

ASSUME MemoryAssumption ==
    /\ DeviceBytes \subseteq Byte /\ DeviceBytes # {}
    /\ PC_AccessMode \in {"DIRECT", "BANKED"}
    /\ Read_AccessMode \in AccessModes
    /\ Write_AccessMode \in AccessModes
    /\ \A r \in DOMAIN Roms : RomOK(Roms[r])

VARIABLES
    ram,         \* the bytes written so far, by address
    rbank,       \* for a redirected page, its ROM and the page of that ROM
    rcallbacks,  \* the pages read through the client's callback
    wcallbacks   \* the pages written through the client's callback

memory == <<ram, rbank, rcallbacks, wcallbacks>>
mapping == <<rbank, rcallbacks, wcallbacks>>

MemoryInit ==
    /\ ram = <<>>
    /\ rbank = <<>>
    /\ rcallbacks = {}
    /\ wcallbacks = {}

\* read_bank and the code fetch, on the RAM contents `data`.
read_bank(data, adr) ==
    IF hi(adr) \in DOMAIN rbank
       THEN LET b == rbank[hi(adr)]
            IN  At(Roms[b.rom].data, to_adr(lo(adr), b.page))
       ELSE At(data, adr)

\* A code byte.  Every policy reads code DIRECT or BANKED, past the devices.
Fetch(data, adr) ==
    IF PC_AccessMode = "DIRECT" THEN At(data, adr) ELSE read_bank(data, adr)

\* The bytes Read(adr) may return: one, unless a device answers.
Read(adr) ==
    CASE Read_AccessMode = "DIRECT" -> {At(ram, adr)}
      [] Read_AccessMode = "BANKED" -> {read_bank(ram, adr)}
      [] Read_AccessMode = "CALLBACK" ->
            IF hi(adr) \in rcallbacks THEN DeviceBytes ELSE {read_bank(ram, adr)}

\* The RAMs Write(adr, v) may leave.  wbank always points to RAM, so a write
\* to a redirected page goes under the ROM; a client's callback may store
\* the byte too, or keep it from RAM.
Write(adr, v) ==
    {Stored(ram, adr, v % 256)} \cup
    (IF Write_AccessMode = "CALLBACK" /\ hi(adr) \in wcallbacks
        THEN {ram} ELSE {})

\* The pages a block of len bytes mapped at bank covers; `bank` is a
\* uint8_t and wraps.
PagesFrom(bank, len) == {(bank + i) % 256 : i \in 0 .. (len + 255) \div 256 - 1}

\* Mutant: what was mapped first stays.
mapRomBelow(bank, r) ==
    /\ rbank' = [p \in DOMAIN rbank \cup PagesFrom(bank, Roms[r].len) |->
                    IF p \in DOMAIN rbank THEN rbank[p]
                       ELSE [rom |-> r, page |-> (p - bank) % 256]]
    /\ UNCHANGED <<ram, rcallbacks, wcallbacks>>

mapRom(bank, r) ==
    /\ rbank' = [p \in DOMAIN rbank \cup PagesFrom(bank, Roms[r].len) |->
                    IF p \in PagesFrom(bank, Roms[r].len)
                       THEN [rom |-> r, page |-> (p - bank) % 256]
                       ELSE rbank[p]]
    /\ UNCHANGED <<ram, rcallbacks, wcallbacks>>

mapReadCallback(bank, len) ==
    /\ rcallbacks' = rcallbacks \cup PagesFrom(bank, len)
    /\ UNCHANGED <<ram, rbank, wcallbacks>>

mapWriteCallback(bank, len) ==
    /\ wcallbacks' = wcallbacks \cup PagesFrom(bank, len)
    /\ UNCHANGED <<ram, rbank, rcallbacks>>

=============================================================================
