---------------------------- MODULE Addressing ----------------------------
(***************************************************************************)
(* The register file of src/emulator.h, the addressing modes that turn an  *)
(* operand into an effective address, and the stack in page one.           *)
(***************************************************************************)
EXTENDS Memory, Modes

VARIABLES
    reg,  \* a, x, y and sp
    pc    \* the code's 32-bit `unsigned pc`, read as a signed number

Registers == {"A", "X", "Y", "SP"}

PC8(adr)  == Fetch(ram, adr)
PC16(adr) == to_adr(Fetch(ram, adr), Fetch(ram, adr + 1))

\* The words Read16(adr) may return.
Read16(adr) == {to_adr(l, h) : l \in Read(adr), h \in Read(adr + 1)}

\* The effective addresses of an operand that follows the opcode at pc.
\* Zero page indexing wraps; a pointer's second byte and the absolute
\* indexed modes do not.
ReadEA(mode) ==
    CASE mode = "IMM"  -> {pc + 1}
      [] mode = "ZP"   -> {PC8(pc + 1)}
      [] mode = "ZPX"  -> {lo(PC8(pc + 1) + reg["X"])}
      [] mode = "ZPY"  -> {lo(PC8(pc + 1) + reg["Y"])}
      [] mode = "ABS"  -> {PC16(pc + 1)}
      [] mode = "ABSX" -> {PC16(pc + 1) + reg["X"]}
      [] mode = "ABSY" -> {PC16(pc + 1) + reg["Y"]}
      [] mode = "INDX" -> Read16(lo(PC8(pc + 1) + reg["X"]))
      [] mode = "INDY" -> {p + reg["Y"] : p \in Read16(PC8(pc + 1))}
      [] mode = "IND"  -> Read16(PC16(pc + 1))
      [] OTHER         -> {}

EA(mode) == ReadEA(mode) \cap Adr
Operands(mode) == UNION {Read(ea) : ea \in EA(mode)}

\* The opcode at pc has a row in the table, and its bytes, and the pointer
\* of an indirect jump, lie in memory.
Decodes(table) ==
    /\ pc \in Adr
    /\ Fetch(ram, pc) \in DOMAIN table
    /\ LET r == table[Fetch(ram, pc)]
       IN  /\ pc + (IF r.op.fn = "Brk" THEN 2 ELSE opSize(r.mode)) <= 65536
           /\ r.mode = "IND" => PC16(pc + 1) < 65535

\* No address the instruction may compute lies past the end of memory.
StaysInside(mode) == ReadEA(mode) \subseteq Adr

\* `stack` is &ram[0x100], indexed past all callbacks.  Only PHA, PHP, PLA
\* and PLP keep the index a byte, through sp; the others add to it as an int.
Stack(i) == At(ram, 256 + i)
Push(data, i, v) == Stored(data, 256 + i, v % 256)

\* Mutant: sp is no byte.
SPUnwrapped(n) == reg["SP"] + n

SP(n) == (reg["SP"] + n) % 256

=============================================================================
