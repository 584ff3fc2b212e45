-------------------------- MODULE SubroutineProofs --------------------------
(***************************************************************************)
(* Calls and interrupts return to where they came from, for every program, *)
(* memory mapping and policy.                                              *)
(*                                                                         *)
(* The argument: while a frame stands, the stack still holds the bytes its *)
(* JSR or BRK pushed (FramesOK, an inductive invariant with IInv): the     *)
(* address, and for BRK the status, each byte where the return will pull   *)
(* it.  A return that finds sp where the frame left it therefore pulls     *)
(* these bytes, and the address and the flags can be read back from them.  *)
(***************************************************************************)
EXTENDS Subroutines, MachineProofs

\* The bytes the frame f pushed are on the stack.
Saved(f) ==
    CASE f.kind = "Jsr" ->
            /\ f.next \in Int /\ f.next - 1 \in Adr
            /\ Stack(f.sp + 1) = (f.next - 1) % 256
            /\ Stack(f.sp + 2) = (f.next - 1) \div 256
      [] OTHER ->
            /\ f.next \in Adr
            /\ f.flags \subseteq Flags /\ {"BRK", "xXx"} \subseteq f.flags
            /\ Stack(f.sp + 1) = SrByte(f.flags)
            /\ Stack(f.sp + 2) = f.next % 256
            /\ Stack(f.sp + 3) = f.next \div 256

FrameOK(f) ==
    /\ f.kind \in {"Jsr", "Brk"}
    /\ f.size = IF f.kind = "Jsr" THEN 2 ELSE 3
    /\ f.sp \in Byte
    /\ InPageOne(f) => Saved(f)

FramesOK == \A f \in frames : FrameOK(f)

-----------------------------------------------------------------------------
(* The status byte *)

\* A byte made of eight bits has these bits.
LEMMA BitsOfSum ==
    ASSUME NEW b0 \in {0, 1}, NEW b1 \in {0, 1}, NEW b2 \in {0, 1}, NEW b3 \in {0, 1},
           NEW b4 \in {0, 1}, NEW b5 \in {0, 1}, NEW b6 \in {0, 1}, NEW b7 \in {0, 1},
           NEW s, s = b0 + 2 * b1 + 4 * b2 + 8 * b3 + 16 * b4 + 32 * b5 + 64 * b6 + 128 * b7
    PROVE  /\ BitOf(s, 1) = b0 /\ BitOf(s, 2) = b1 /\ BitOf(s, 4) = b2
           /\ BitOf(s, 8) = b3 /\ BitOf(s, 16) = b4 /\ BitOf(s, 32) = b5
           /\ BitOf(s, 64) = b6 /\ BitOf(s, 128) = b7
<1>1. s \in Int OBVIOUS
<1>2. s \div 1 = s OBVIOUS
<1>3. s % 2 = b0 OBVIOUS
<1>4. s \div 2 = b1 + 2 * b2 + 4 * b3 + 8 * b4 + 16 * b5 + 32 * b6 + 64 * b7 OBVIOUS
<1>5. s \div 4 = b2 + 2 * b3 + 4 * b4 + 8 * b5 + 16 * b6 + 32 * b7 OBVIOUS
<1>6. s \div 8 = b3 + 2 * b4 + 4 * b5 + 8 * b6 + 16 * b7 OBVIOUS
<1>7. s \div 16 = b4 + 2 * b5 + 4 * b6 + 8 * b7 OBVIOUS
<1>8. s \div 32 = b5 + 2 * b6 + 4 * b7 OBVIOUS
<1>9. s \div 64 = b6 + 2 * b7 OBVIOUS
<1>10. s \div 128 = b7 OBVIOUS
<1> QED BY <1>2, <1>3, <1>4, <1>5, <1>6, <1>7, <1>8, <1>9, <1>10 DEF BitOf

\* Pulling a status gives back the flags that were pushed.
LEMMA StatusRoundTrip ==
    ASSUME NEW F, F \subseteq Flags
    PROVE  SrFlags(SrByte(F)) = F
<1> DEFINE bit(f) == IF f \in F THEN 1 ELSE 0
           b == SrByte(F)
<1>1. /\ Weight["CARRY"] = 1 /\ Weight["ZERO"] = 2 /\ Weight["IRQ"] = 4
      /\ Weight["DECIMAL"] = 8 /\ Weight["BRK"] = 16 /\ Weight["xXx"] = 32
      /\ Weight["OVER"] = 64 /\ Weight["SIGN"] = 128
    BY DEF Weight
<1>2. \A f \in F : f \in {"CARRY", "ZERO", "IRQ", "DECIMAL", "BRK", "xXx", "OVER", "SIGN"}
    BY FlagsAre
<1>3. /\ (\E f \in F : Weight[f] = 1) <=> "CARRY" \in F
      /\ (\E f \in F : Weight[f] = 2) <=> "ZERO" \in F
      /\ (\E f \in F : Weight[f] = 4) <=> "IRQ" \in F
      /\ (\E f \in F : Weight[f] = 8) <=> "DECIMAL" \in F
      /\ (\E f \in F : Weight[f] = 16) <=> "BRK" \in F
      /\ (\E f \in F : Weight[f] = 32) <=> "xXx" \in F
      /\ (\E f \in F : Weight[f] = 64) <=> "OVER" \in F
      /\ (\E f \in F : Weight[f] = 128) <=> "SIGN" \in F
    BY <1>1, <1>2
<1>4. b = bit("CARRY") + 2 * bit("ZERO") + 4 * bit("IRQ") + 8 * bit("DECIMAL")
          + 16 * bit("BRK") + 32 * bit("xXx") + 64 * bit("OVER") + 128 * bit("SIGN")
    BY <1>3 DEF SrByte, Compose
<1>5. \A f : bit(f) \in {0, 1} OBVIOUS
<1> HIDE DEF b
<1>6. \A f : bit(f) = 1 <=> f \in F OBVIOUS
<1> HIDE DEF bit
<1>7. /\ BitOf(b, 1) = bit("CARRY") /\ BitOf(b, 2) = bit("ZERO") /\ BitOf(b, 4) = bit("IRQ")
      /\ BitOf(b, 8) = bit("DECIMAL") /\ BitOf(b, 16) = bit("BRK")
      /\ BitOf(b, 32) = bit("xXx") /\ BitOf(b, 64) = bit("OVER")
      /\ BitOf(b, 128) = bit("SIGN")
    BY <1>4, <1>5, BitsOfSum
<1>8. \A f \in Flags : BitOf(b, Weight[f]) = 1 <=> f \in F
    BY <1>1, <1>6, <1>7, FlagsAre
<1>9. SrFlags(b) = {f \in Flags : BitOf(b, Weight[f]) = 1} BY DEF SrFlags
<1> QED BY <1>8, <1>9 DEF b

LEMMA StatusIsFlags ==
    ASSUME StatusOK
    PROVE  get_SR \subseteq Flags /\ {"BRK", "xXx"} \subseteq get_SR
BY FlagsAre DEF StatusOK, StatusShape, get_SR, SZ

-----------------------------------------------------------------------------
(* Frames *)

LEMMA Cell ==
    ASSUME NEW d, NEW i \in Int, NEW v, NEW j \in Int
    PROVE  At(Push(d, i, v), 256 + j) = IF j = i THEN v % 256 ELSE At(d, 256 + j)
<1>1. 256 + j = 256 + i <=> j = i OBVIOUS
<1> QED BY <1>1 DEF At, Push, Stored

\* An instruction that completes is a step of the loop.
LEMMA ExecutedIsStep == ASSUME Next, Executed PROVE Step
BY DEF Next, Loop, Client, Executed, InLoop, Undefined, RunReturns, WriteRam, SetPC, Run,
   MapMemory

\* The function the row names is the one that runs.
LEMMA WhichRuns ==
    ASSUME Step
    PROVE  /\ op.fn = "Jsr" => Jsr
           /\ op.fn = "Brk" => Brk
           /\ op.fn = "Rts" => Rts \/ RtsExit
           /\ op.fn = "Rti" => Rti
BY DEF Step, Execute, Executes, Shifts, Nop, Load, Store, Branch, IncRegister, IncMemory,
   Transfer, Set, Bit, Cmp, Adc, AdcDecimal, Sbc, SbcDecimal, And, Ora, Eor, Logic,
   ShiftRegister, ShiftMemory, Pha, Pla, Php, Plp, Rti, Brk, RtsExit, Rts, Jmp, Jsr

\* A frame that does not wrap starts right below the stack pointer.
LEMMA Below ==
    ASSUME reg["SP"] \in Byte, NEW n \in {2, 3}, SP(-n) + n <= 255
    PROVE  /\ SP(-n) = reg["SP"] - n
           /\ reg["SP"] - n \in Byte
<1> DEFINE sp == reg["SP"]
<1>1. sp \in 0 .. 255 BY DEF Byte
<1>2. SP(-n) = (sp - n) % 256 BY <1>1 DEF SP
<1> HIDE DEF sp
<1>3. (sp - n) % 256 = IF sp < n THEN sp - n + 256 ELSE sp - n BY <1>1
<1>4. ~(sp < n) BY <1>1, <1>2, <1>3
<1> QED BY <1>1, <1>2, <1>3, <1>4 DEF Byte, sp

LEMMA SPByte == ASSUME reg["SP"] \in Byte, NEW n \in Int PROVE SP(n) \in Byte
<1>1. reg["SP"] + n \in Int BY DEF Byte
<1>2. (reg["SP"] + n) % 256 \in Byte BY <1>1, ModByte
<1> QED BY <1>2 DEF SP

LEMMA AdrBounds ==
    ASSUME NEW n \in Int
    PROVE  n \in Adr <=> 0 <= n /\ n <= 65535
<1> DEFINE m == 65535
<1>1. Adr = 0 .. m
  BY DEF Adr
<1>2. m \in Int
  OBVIOUS
<1> HIDE DEF m
<1>3. n \in Adr <=> 0 <= n /\ n <= m
  BY <1>1, <1>2
<1> QED BY <1>3 DEF m

LEMMA AdrIsInt == ASSUME NEW n \in Adr PROVE n \in Int
BY DEF Adr

\* The bytes that BRK pushes are those of the address as 16 bits.
LEMMA Wrapped ==
    ASSUME NEW p \in Adr
    PROVE  /\ (p + 2) % 65536 \in Adr
           /\ (p + 2) % 256 = ((p + 2) % 65536) % 256
           /\ hi(p + 2) % 256 = ((p + 2) % 65536) \div 256
<1> DEFINE w == p + 2
           v == w % 65536
<1>1. w \in Int /\ 0 <= w /\ w <= 65537 BY AdrIsInt, AdrBounds
<1> HIDE DEF w
<1>2. v = IF w >= 65536 THEN w - 65536 ELSE w BY <1>1
<1> HIDE DEF v
<1>3. v \in Int /\ 0 <= v /\ v <= 65535 BY <1>1, <1>2
<1>4. v \in Adr BY <1>3, AdrBounds
<1>5. v % 256 = w % 256 BY <1>1, <1>2
<1>6. (w \div 256) % 256 = v \div 256 BY <1>1, <1>2
<1> QED BY <1>4, <1>5, <1>6 DEF hi, v, w

\* JSR saves the address of the byte before the next instruction.
LEMMA JsrSaves ==
    ASSUME IInv, Step, op.fn = "Jsr", NEW f, f = Frame(2, pc + 3)
    PROVE  FrameOK(f)'
<1> DEFINE sp == reg["SP"]
<1>1. sp \in Byte /\ RowOK(row, jumpTable) /\ Decodes(Opcodes[jumpTable]) /\ Jsr
    BY RegType, RowLemma, WhichRuns DEF Step
<1>2. row.mode = "ABS" BY <1>1 DEF RowOK, op
<1>3. pc \in Int /\ 0 <= pc /\ pc + 2 <= 65535
    <2>1. pc \in Adr /\ pc + 3 <= 65536 BY <1>1, <1>2 DEF Decodes, row, op, opSize
    <2> QED BY <2>1, AdrIsInt, AdrBounds
<1>4. f.kind = "Jsr" /\ f.size = 2 /\ f.sp = SP(-2) /\ f.next = pc + 3
    BY DEF Frame
<1>5. f.sp \in Byte BY <1>1, <1>4, SPByte
<1>6. ASSUME InPageOne(f) PROVE Saved(f)'
    <2>1. f.sp = sp - 2 /\ sp - 2 \in Byte BY <1>1, <1>4, <1>6, Below DEF InPageOne
    <2>2. ram' = Push(Push(ram, sp, hi(pc + 2)), sp - 1, pc + 2) BY <1>1 DEF Jsr
    <2>3. sp \in Int /\ sp - 1 \in Int /\ f.sp + 1 = sp - 1 /\ f.sp + 2 = sp
        BY <1>1, <2>1 DEF Byte
    <2>4. At(ram', 256 + (f.sp + 1)) = (pc + 2) % 256 BY <2>2, <2>3, Cell
    <2>5. At(ram', 256 + (f.sp + 2)) = hi(pc + 2) % 256
        <3>1. sp # sp - 1 BY <2>3
        <3>2. At(ram', 256 + sp) = At(Push(ram, sp, hi(pc + 2)), 256 + sp)
            BY <2>2, <2>3, <3>1, Cell
        <3>3. At(Push(ram, sp, hi(pc + 2)), 256 + sp) = hi(pc + 2) % 256 BY <2>3, Cell
        <3> QED BY <2>3, <3>2, <3>3
    <2>6. hi(pc + 2) % 256 = (pc + 2) \div 256 BY <1>3 DEF hi
    <2>7. f.next \in Int /\ f.next - 1 = pc + 2 /\ pc + 2 \in Adr BY <1>3, <1>4, AdrBounds
    <2> QED BY <1>4, <2>4, <2>5, <2>6, <2>7 DEF Saved, Stack
<1> QED BY <1>4, <1>5, <1>6 DEF FrameOK, InPageOne

\* BRK saves the address after the byte it skips, and the flags below it.
LEMMA BrkSaves ==
    ASSUME IInv, Step, op.fn = "Brk", NEW f, f = Frame(3, (pc + 2) % 65536)
    PROVE  FrameOK(f)'
<1> DEFINE sp == reg["SP"]
<1>1. sp \in Byte /\ Decodes(Opcodes[jumpTable]) /\ Brk
    BY RegType, WhichRuns DEF Step
<1>2. pc \in Adr BY <1>1 DEF Decodes
<1>3. f.kind = "Brk" /\ f.size = 3 /\ f.sp = SP(-3) /\ f.next = (pc + 2) % 65536
      /\ f.flags = get_SR
    BY DEF Frame
<1>4. f.sp \in Byte BY <1>1, <1>3, SPByte
<1>5. f.flags \subseteq Flags /\ {"BRK", "xXx"} \subseteq f.flags
    BY <1>3, Parts, StatusIsFlags
<1>6. ASSUME InPageOne(f) PROVE Saved(f)'
    <2>1. f.sp = sp - 3 /\ sp - 3 \in Byte BY <1>1, <1>3, <1>6, Below DEF InPageOne
    <2> DEFINE high == Push(ram, sp, hi(pc + 2))
               word == Push(high, sp - 1, pc + 2)
               flags == SrByte(get_SR)
    <2>2. ram' = Push(word, sp - 2, flags) BY <1>1 DEF Brk
    <2>3. sp \in Int /\ sp - 1 \in Int /\ sp - 2 \in Int
          /\ f.sp + 1 = sp - 2 /\ f.sp + 2 = sp - 1 /\ f.sp + 3 = sp
          /\ sp # sp - 1 /\ sp # sp - 2 /\ sp - 1 # sp - 2
        BY <1>1, <2>1 DEF Byte
    <2>4. At(ram', 256 + (sp - 2)) = flags % 256 BY <2>2, <2>3, Cell
    <2> HIDE DEF word
    <2>5. /\ At(ram', 256 + (sp - 1)) = At(word, 256 + (sp - 1))
          /\ At(ram', 256 + sp) = At(word, 256 + sp)
        BY <2>2, <2>3, Cell
    <2> HIDE DEF high
    <2>6. /\ At(word, 256 + (sp - 1)) = (pc + 2) % 256
          /\ At(word, 256 + sp) = At(high, 256 + sp)
        BY <2>3, Cell DEF word
    <2>7. At(high, 256 + sp) = hi(pc + 2) % 256 BY <2>3, Cell DEF high
    <2>8. flags % 256 = flags BY SrByteType DEF Byte
    <2> HIDE DEF flags
    <2>9. /\ f.next \in Adr
          /\ (pc + 2) % 256 = f.next % 256
          /\ hi(pc + 2) % 256 = f.next \div 256
        BY <1>2, <1>3, Wrapped
    <2> QED BY <1>3, <1>5, <2>3, <2>4, <2>5, <2>6, <2>7, <2>8, <2>9
            DEF Saved, Stack, flags
<1> QED BY <1>3, <1>4, <1>6 DEF FrameOK, InPageOne

\* A frame that stands keeps the bytes it saved.
LEMMA FrameKept == ASSUME NEW f, FrameOK(f), Stands(f) PROVE FrameOK(f)'
<1>1. f.sp \in Int /\ f.size \in {2, 3} /\ (f.kind = "Brk" => f.size = 3)
    BY DEF FrameOK, Byte
<1>2. ASSUME NEW n \in 1 .. 3, n <= f.size PROVE Stack(f.sp + n)' = Stack(f.sp + n)
    <2>1. f.sp + n \in f.sp + 1 .. f.sp + f.size BY <1>1, <1>2
    <2>2. At(ram', 256 + (f.sp + n)) = Stack(f.sp + n) BY <2>1 DEF Stands
    <2> QED BY <2>2 DEF Stack
<1>3. /\ Stack(f.sp + 1)' = Stack(f.sp + 1)
      /\ Stack(f.sp + 2)' = Stack(f.sp + 2)
      /\ f.kind = "Brk" => Stack(f.sp + 3)' = Stack(f.sp + 3)
    BY <1>1, <1>2
<1>4. ASSUME InPageOne(f) PROVE Saved(f)'
    <2>1. CASE f.kind = "Jsr" BY <1>3, <1>4, <2>1 DEF FrameOK, Saved
    <2>2. CASE f.kind = "Brk" BY <1>3, <1>4, <2>2 DEF FrameOK, Saved
    <2> QED BY <2>1, <2>2 DEF FrameOK
<1> QED BY <1>4 DEF FrameOK, InPageOne

LEMMA CallSaves ==
    ASSUME IInv, Next, NEW f \in Calls
    PROVE  FrameOK(f)'
<1>1. CASE Executed /\ op.fn = "Jsr"
    <2>1. Calls = {Frame(2, pc + 3)} BY <1>1 DEF Calls
    <2> QED BY <1>1, <2>1, ExecutedIsStep, JsrSaves
<1>2. CASE Executed /\ op.fn = "Brk"
    <2>1. ~(Executed /\ op.fn = "Jsr") BY <1>2
    <2>2. Calls = {Frame(3, (pc + 2) % 65536)} BY <1>2, <2>1 DEF Calls
    <2> QED BY <1>2, <2>2, ExecutedIsStep, BrkSaves
<1>3. CASE ~(Executed /\ op.fn = "Jsr") /\ ~(Executed /\ op.fn = "Brk")
    <2>1. Calls = {} BY <1>3 DEF Calls
    <2> QED BY <2>1
<1> QED BY <1>1, <1>2, <1>3

LEMMA FramesKept == ASSUME IInv, FramesOK, [HistoryNext]_hvars PROVE FramesOK'
<1>1. CASE HistoryNext
    <2>1. Next /\ frames' = {f \in frames : Stands(f)} \cup Calls
        BY <1>1 DEF HistoryNext
    <2>2. ASSUME NEW f \in frames' PROVE FrameOK(f)'
        <3>1. CASE f \in frames /\ Stands(f)
            BY <3>1, FrameKept DEF FramesOK
        <3>2. CASE f \in Calls BY <2>1, <3>2, CallSaves
        <3> QED BY <2>1, <3>1, <3>2
    <2> QED BY <2>2 DEF FramesOK
<1>2. CASE UNCHANGED hvars
    BY <1>2 DEF hvars, vars, FramesOK, FrameOK, Saved, Stack, At, InPageOne
<1> QED BY <1>1, <1>2

-----------------------------------------------------------------------------
(* Returns *)

LEMMA RtsReturns ==
    ASSUME IInv, Step, NEW f, FrameOK(f), InPageOne(f), f.kind = "Jsr",
           op.fn = "Rts", reg["SP"] = f.sp
    PROVE  GoesBack(f)
<1>1. f.size = 2 /\ Saved(f) BY DEF FrameOK
<1>2. f.sp \in Int /\ 0 <= f.sp /\ f.sp + 2 <= 255 BY <1>1 DEF FrameOK, InPageOne, Byte
<1>3. Rts
    <2>1. reg["SP"] # 255 BY <1>2
    <2> QED BY <2>1, WhichRuns DEF RtsExit
<1>4. pc' = to_adr(Stack(f.sp + 1), Stack(f.sp + 2)) + 1 BY <1>3 DEF Rts
<1> DEFINE w == f.next - 1
<1>5. Stack(f.sp + 1) = w % 256 /\ Stack(f.sp + 2) = w \div 256 /\ w \in Adr
      /\ f.next \in Int
    BY <1>1 DEF Saved
<1>6. to_adr(w % 256, w \div 256) = w BY <1>5, AdrIsInt DEF to_adr
<1>7. pc' = w + 1 BY <1>4, <1>5, <1>6
<1>8. pc' = f.next BY <1>5, <1>7
<1>9. reg'["SP"] = (f.sp + 2) % 256
    BY <1>3 DEF Rts, Assign, SP, IInv, TypeOK, Registers
<1>10. (f.sp + 2) % 256 = f.sp + 2 BY <1>2
<1> QED BY <1>1, <1>8, <1>9, <1>10 DEF GoesBack

LEMMA RtiReturns ==
    ASSUME IInv, Step, NEW f, FrameOK(f), InPageOne(f), f.kind = "Brk",
           op.fn = "Rti", reg["SP"] = f.sp
    PROVE  GoesBack(f)
<1>1. f.size = 3 /\ Saved(f) /\ Rti BY WhichRuns DEF FrameOK
<1>2. f.sp \in Int /\ 0 <= f.sp /\ f.sp + 3 <= 255 BY <1>1 DEF FrameOK, InPageOne, Byte
<1>3. /\ f.next \in Adr
      /\ f.flags \subseteq Flags /\ {"BRK", "xXx"} \subseteq f.flags
      /\ Stack(f.sp + 1) = SrByte(f.flags)
      /\ Stack(f.sp + 2) = f.next % 256
      /\ Stack(f.sp + 3) = f.next \div 256
    BY <1>1 DEF Saved
<1>4. pc' = to_adr(Stack(f.sp + 2), Stack(f.sp + 3)) BY <1>1 DEF Rti
<1>5. to_adr(f.next % 256, f.next \div 256) = f.next BY <1>3, AdrIsInt DEF to_adr
<1>6. pc' = f.next BY <1>3, <1>4, <1>5
<1>7. reg'["SP"] = (f.sp + 3) % 256
    BY <1>1 DEF Rti, Assign, SP, IInv, TypeOK, Registers
<1>8. (f.sp + 3) % 256 = f.sp + 3 BY <1>2
<1>9. get_SR' = f.flags
    <2>1. set_SR(SrFlags(SrByte(f.flags))) BY <1>1, <1>3 DEF Rti
    <2>2. StatusOK /\ StatusOK' BY Parts, StepKeeps DEF IInv, TypeOK, StatusOK
    <2>3. get_SR' = SrFlags(SrByte(f.flags)) \cup {"BRK", "xXx"}
        BY <2>1, <2>2, PulledSeen
    <2>4. SrFlags(SrByte(f.flags)) = f.flags BY <1>3, StatusRoundTrip
    <2> QED BY <1>3, <2>3, <2>4
<1> QED BY <1>1, <1>6, <1>7, <1>8, <1>9 DEF GoesBack

\* In every reachable state of every program each standing frame has its
\* bytes on the stack.
THEOREM FramesAreSaved == HistorySpec => [](IInv /\ FramesOK)
<1>1. HistoryInit => IInv /\ FramesOK
    BY InitEstablishes DEF HistoryInit, FramesOK
<1>2. IInv /\ FramesOK /\ [HistoryNext]_hvars => (IInv /\ FramesOK)'
    <2>1. [HistoryNext]_hvars => [Next]_vars BY DEF HistoryNext, hvars
    <2> QED BY <2>1, NextKeeps, FramesKept
<1> QED BY <1>1, <1>2, PTL DEF HistorySpec

\* An RTS that finds the stack as its JSR left it goes on after that JSR, an
\* RTI two bytes after its BRK with the flags the BRK saw, and both leave the
\* stack pointer as it was before, whatever ran in between, for any program,
\* mapping, client and policy (emulator.h Jsr, Brk, Rts, Rti).
THEOREM ReturnsGoBack == HistorySpec => ReturnsToCaller
<1>1. IInv /\ FramesOK /\ [HistoryNext]_hvars =>
         [\A f \in frames : ReturnsFrom(f) /\ InPageOne(f) => GoesBack(f)]_hvars
    <2> SUFFICES ASSUME IInv, FramesOK, HistoryNext, NEW f \in frames,
                        ReturnsFrom(f), InPageOne(f)
                 PROVE  GoesBack(f)
        OBVIOUS
    <2>1. FrameOK(f) BY DEF FramesOK
    <2>2. Step BY ExecutedIsStep DEF HistoryNext, ReturnsFrom
    <2>3. op.fn = ReturnOf[f.kind] /\ reg["SP"] = f.sp BY DEF ReturnsFrom
    <2>4. CASE f.kind = "Jsr"
        <3>1. op.fn = "Rts" BY <2>3, <2>4 DEF ReturnOf
        <3> QED BY <2>1, <2>2, <2>3, <2>4, <3>1, RtsReturns
    <2>5. CASE f.kind = "Brk"
        <3>1. op.fn = "Rti" BY <2>3, <2>5 DEF ReturnOf
        <3> QED BY <2>1, <2>2, <2>3, <2>5, <3>1, RtiReturns
    <2> QED BY <2>1, <2>4, <2>5 DEF FrameOK
<1> QED BY <1>1, FramesAreSaved, PTL DEF HistorySpec, ReturnsToCaller

=============================================================================
