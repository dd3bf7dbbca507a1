------------------------------ MODULE TwinProofs ------------------------------
(***************************************************************************)
(* Interrupts leave no trace, for every program, every schedule of the     *)
(* lines and every nesting of handlers, if program and handlers behave.    *)
(*                                                                         *)
(* The invariant says where the twin is.  While no handler of a signal     *)
(* runs it is level with the machine, and an instruction that both execute *)
(* keeps it so: the program reads only cells in which the two memories     *)
(* agree, so both decode the same entry and operand (Sees, Alike), and     *)
(* each operation then leaves both with the same registers and the same    *)
(* bytes written (Together).  While a handler runs, the twin is where the  *)
(* outermost frame says, and only cells change in which the memories may   *)
(* differ; the return of that handler makes the two level again.           *)
(***************************************************************************)
EXTENDS UndisturbedTwin, AddressingProofs, InterruptFramesProofs

-----------------------------------------------------------------------------
(***************************************************************************)
(* The twin computes with the machine's operators: an instance repeats the *)
(* definitions that mention no variable.                                   *)
(***************************************************************************)
LEMMA SameWords ==
    \A m, n : /\ Twin!Wrap8(m) = Wrap8(m) /\ Twin!Wrap16(m) = Wrap16(m)
              /\ Twin!Low(m) = Low(m) /\ Twin!High(m) = High(m)
              /\ Twin!Pair(m, n) = Pair(m, n)
              /\ Twin!SignExtend(m) = SignExtend(m)
              /\ Twin!SamePage(m, n) <=> SamePage(m, n)
  BY DEF Twin!Wrap8, Wrap8, Twin!Wrap16, Wrap16, Twin!Low, Low, Twin!High, High, Twin!Pair, Pair,
         Twin!SignExtend, SignExtend, Twin!SignBit, SignBit, Twin!SamePage, SamePage

LEMMA SameStackPage == \A m : Twin!StackPage(m) = StackPage(m)
  BY SameWords DEF Twin!StackPage, StackPage

LEMMA SameBits == \A m : Twin!Bits(m) = Bits(m) /\ Twin!FromBits(m) = FromBits(m)
  BY DEF Twin!Bits, Bits, Twin!FromBits, FromBits

LEMMA SameBitwise ==
    \A m, n : /\ Twin!BitAnd(m, n) = BitAnd(m, n) /\ Twin!BitOr(m, n) = BitOr(m, n)
              /\ Twin!BitXor(m, n) = BitXor(m, n) /\ Twin!BitClear(m, n) = BitClear(m, n)
  BY SameBits DEF Twin!BitAnd, BitAnd, Twin!BitOr, BitOr, Twin!BitXor, BitXor,
                  Twin!BitClear, BitClear

LEMMA SameAssign == \A F, g : Twin!Assign(F, g) = Assign(F, g)
  BY DEF Twin!Assign, Assign

LEMMA SameSetZN == \A F, v : Twin!SetZN(F, v) = SetZN(F, v)
  BY SameAssign DEF Twin!SetZN, SetZN, Twin!SignBit, SignBit

LEMMA SameCompare == \A F, v, w : Twin!CompareFlags(F, v, w) = CompareFlags(F, v, w)
  BY SameAssign, SameSetZN, SameWords DEF Twin!CompareFlags, CompareFlags

LEMMA SameShifts == \A op, F, v : Twin!ShiftResult(op, F, v) = ShiftResult(op, F, v)
<1>1. \A F, v, c : Twin!Shifted(F, v, c) = Shifted(F, v, c)
  BY SameAssign, SameSetZN DEF Twin!Shifted, Shifted
<1>2. \A F, v : Twin!Asl(F, v) = Asl(F, v) /\ Twin!Lsr(F, v) = Lsr(F, v)
  BY <1>1, SameWords DEF Twin!Asl, Asl, Twin!Lsr, Lsr, Twin!SignBit, SignBit
<1>3. \A F, v : Twin!Rol(F, v) = Rol(F, v) /\ Twin!Ror(F, v) = Ror(F, v)
  BY <1>1, SameWords
     DEF Twin!Rol, Rol, Twin!Ror, Ror, Twin!CarryIn, CarryIn, Twin!SignBit, SignBit
<1> QED BY <1>2, <1>3 DEF Twin!ShiftResult, ShiftResult

LEMMA SameBinaryAdd == \A F, a, v : Twin!BinaryAdd(F, a, v) = BinaryAdd(F, a, v)
<1> SUFFICES ASSUME NEW F, NEW a, NEW v PROVE Twin!BinaryAdd(F, a, v) = BinaryAdd(F, a, v)
  OBVIOUS
<1> QED BY DEF Twin!BinaryAdd, BinaryAdd, Twin!CarryIn, CarryIn, Twin!Wrap8, Wrap8,
               Twin!Assign, Assign, Twin!SetZN, SetZN, Twin!SignBit, SignBit,
               Twin!Overflow, Overflow

LEMMA SameAdc == \A m, F, a, v : Twin!Adc(m, F, a, v) = Adc(m, F, a, v)
<1>1. \A m, F, a, v : Twin!DecimalAdc(m, F, a, v) = DecimalAdc(m, F, a, v)
  BY DEF Twin!DecimalAdc, DecimalAdc, Twin!CarryIn, CarryIn, Twin!Wrap8, Wrap8,
         Twin!Assign, Assign, Twin!SetZN, SetZN, Twin!SignBit, SignBit,
         Twin!Overflow, Overflow, Twin!LowNibble, LowNibble, Twin!HighNibble, HighNibble
<1> TAKE m, F, a, v
<1>2. Twin!DecimalAdc(m, F, a, v) = DecimalAdc(m, F, a, v)
  BY <1>1
<1>3. Twin!BinaryAdd(F, a, v) = BinaryAdd(F, a, v)
  BY SameBinaryAdd
<1> QED BY <1>2, <1>3, Zenon DEF Twin!Adc, Adc

LEMMA SameSbc == \A m, F, a, v : Twin!Sbc(m, F, a, v) = Sbc(m, F, a, v)
<1>1. \A m, F, a, v : Twin!DecimalSbc(m, F, a, v) = DecimalSbc(m, F, a, v)
  BY DEF Twin!DecimalSbc, DecimalSbc, Twin!BinaryAdd, BinaryAdd, Twin!CarryIn, CarryIn,
         Twin!Wrap8, Wrap8, Twin!Wrap16, Wrap16, Twin!Assign, Assign, Twin!SetZN, SetZN,
         Twin!SignBit, SignBit, Twin!Overflow, Overflow, Twin!LowNibble, LowNibble
<1> TAKE m, F, a, v
<1>2. Twin!DecimalSbc(m, F, a, v) = DecimalSbc(m, F, a, v)
  BY <1>1
<1>3. Twin!BinaryAdd(F, a, 255 - v) = BinaryAdd(F, a, 255 - v)
  BY SameBinaryAdd
<1> QED BY <1>2, <1>3, Zenon DEF Twin!Sbc, Sbc

LEMMA SameStatus ==
    \A F, b, n : /\ Twin!PushedStatus(F, b) = PushedStatus(F, b)
                 /\ Twin!PulledFlags(n) = PulledFlags(n)
  BY SameBits DEF Twin!PushedStatus, PushedStatus, Twin!PulledFlags, PulledFlags, Twin!StatusByte,
                  StatusByte, Twin!FlagsOf, FlagsOf, Twin!FlagBit, FlagBit, Twin!Flag, Flag

LEMMA SameEntry == \A op, mode, n : Twin!I(op, mode, n) = I(op, mode, n)
  BY DEF I, Twin!I

LEMMA SameWdc == Twin!wdc65c02_table = wdc65c02_table
<1>1. Twin!Wdc00 = Wdc00
  BY SameEntry DEF Twin!Wdc00, Wdc00
<1>2. Twin!Wdc40 = Wdc40
  BY SameEntry DEF Twin!Wdc40, Wdc40
<1>3. Twin!Wdc80 = Wdc80
  BY SameEntry DEF Twin!Wdc80, Wdc80
<1>4. Twin!WdcC0 = WdcC0
  BY SameEntry DEF Twin!WdcC0, WdcC0
<1> QED BY <1>1, <1>2, <1>3, <1>4 DEF Twin!wdc65c02_table, wdc65c02_table, Twin!Byte, Byte

LEMMA SameTable == Twin!table = table
<1>1. Twin!official = official
  BY DEF Twin!official, official
<1>2. \A o : Twin!Official(o) = Official(o)
  BY <1>1, Zenon DEF Twin!Official, Official
<1>3. Twin!nmos6502_table = nmos6502_table
  BY <1>2, SameWdc, SameEntry
     DEF Twin!nmos6502_table, nmos6502_table, Twin!Byte, Byte, Twin!IndexedShift, IndexedShift
<1> QED BY <1>3, SameWdc DEF Twin!table, table, Twin!Models, Models

-----------------------------------------------------------------------------
(***************************************************************************)
(* The invariant.                                                          *)
(***************************************************************************)
Exempt(n) == HandlerCells \cup {StackPage(Top - i) : i \in n .. Reach - 1}

\* The two memories agree but for the handlers' cells and the stack from depth n on.
Agree(n) == \A a : a \notin Exempt(n) => Read(a) = Twin!Read(a)

\* Machine and twin have the same registers.
Level == /\ reg = t_reg /\ reg_f = t_reg_f /\ sp = t_sp /\ pc = t_pc
         /\ stopped = t_stopped /\ waiting = t_waiting

\* The twin is where an interrupt left the program.
Suspended(fr) ==
    /\ t_reg = fr.reg /\ t_reg_f = fr.status /\ t_sp = fr.sp /\ t_pc = fr.pc
    /\ t_waiting = FALSE
    /\ t_stopped \in BOOLEAN /\ (t_stopped => stopped)
    /\ t_cycles = 0
    /\ "U" \in fr.status
    /\ Agree(Depth(fr.sp))

\* The frame of the handler that interrupted the program itself.
Outermost(i) == frames[i].kind # "brk" /\ \A j \in 1 .. i - 1 : frames[j].kind = "brk"

TwinOK ==
    /\ FramesOK
    /\ calls_left["reset"] = 0 /\ calls_left["load"] = 0
    /\ t_nmi_pending = FALSE /\ t_irq_line = FALSE
    /\ t_cycles \in Nat /\ t_cycles <= cycles
    /\ output = t_output
    /\ reset_pending => frames = <<>> /\ \A a : Read(a) = Twin!Read(a)
    /\ ~reset_pending => "U" \in reg_f
    /\ ~InHandler => Level /\ (~reset_pending => Agree(Depth(sp)))
    /\ \A i \in 1 .. Len(frames) : Outermost(i) => Suspended(frames[i])

-----------------------------------------------------------------------------
(***************************************************************************)
(* What machine and twin find when both execute: the same entry, operand   *)
(* and address, because the program reads nothing that may differ.         *)
(***************************************************************************)
Sees == \A a \in ReadCells : Read(a) = Twin!Read(a)

LEMMA ReadsAgree ==
    ASSUME Agree(Depth(sp)), ReadCells \cap (HandlerCells \cup BelowStack) = {}
    PROVE  Sees
  BY DEF Agree, Exempt, BelowStack, Sees

LEMMA CodeIsRead == \A i \in 0 .. Length(Decoded.mode) - 1 : Wrap16(pc + i) \in ReadCells
  BY DEF ReadCells

LEMMA PointerIsRead == \A a \in PointerCells(Decoded.mode) : a \in ReadCells
  BY DEF ReadCells

LEMMA OperandIsRead ==
    Decoded.mode \notin {"imp", "acc", "rel"} /\ Decoded.op \notin DOMAIN StoreOp \cup {"JMP", "JSR"}
        => Decoded.at \in ReadCells
  BY DEF ReadCells

LEMMA PulledIsRead ==
    Decoded.op \in DOMAIN PullCount =>
        \A i \in 1 .. PullCount[Decoded.op] : StackPage(sp + i) \in ReadCells
  BY DEF ReadCells

LEMMA VectorIsRead == Decoded.op = "BRK" => IrqVector \in ReadCells /\ IrqVector + 1 \in ReadCells
  BY DEF ReadCells

LEMMA DecodedIs ==
    /\ Decoded.op = entry.op /\ Decoded.mode = entry.mode /\ Decoded.cycles = entry.cycles
    /\ Decoded.bit = (Read(pc) \div 16) % 8
    /\ Decoded.next = Wrap16(pc + Length(entry.mode))
    /\ Decoded.at = EffectiveAddress(entry.mode)
    /\ Decoded.offset = RelativeOffset(entry.mode)
    /\ Decoded.extra1 = PageCross(entry.mode)
    /\ Decoded.value = IF entry.mode \in {"imp", "acc"} THEN reg["a"]
                       ELSE Read(EffectiveAddress(entry.mode))
  BY DEF Decoded, entry

LEMMA LengthIs == \A mode : /\ Twin!Length(mode) = Length(mode) /\ Length(mode) \in 1 .. 3
                            /\ mode \notin {"imp", "acc"} => Length(mode) \in 2 .. 3
  BY DEF Length, Twin!Length

LEMMA SameOpcode ==
    ASSUME StateOK, Level, Sees
    PROVE  Twin!Read(t_pc) = Read(pc)
<1>1. pc \in Word /\ 0 \in 0 .. Length(Decoded.mode) - 1
  BY LengthIs DEF StateOK, AddressesOK
<1>2. Wrap16(pc + 0) = pc
  BY <1>1 DEF Wrap16, Word
<1>3. pc \in ReadCells
  BY <1>1, <1>2, CodeIsRead
<1> QED BY <1>3 DEF Sees, Level

LEMMA TwinDecodedIs ==
    ASSUME StateOK, Level, Sees
    PROVE  /\ Twin!Decoded.op = entry.op /\ Twin!Decoded.mode = entry.mode
           /\ Twin!Decoded.cycles = entry.cycles
           /\ Twin!Decoded.bit = (Read(pc) \div 16) % 8
           /\ Twin!Decoded.next = Wrap16(pc + Length(entry.mode))
           /\ Twin!Decoded.at = Twin!EffectiveAddress(entry.mode)
           /\ Twin!Decoded.offset = Twin!RelativeOffset(entry.mode)
           /\ Twin!Decoded.extra1 = Twin!PageCross(entry.mode)
           /\ Twin!Decoded.value = IF entry.mode \in {"imp", "acc"} THEN t_reg["a"]
                                   ELSE Twin!Read(Twin!EffectiveAddress(entry.mode))
<1>1. Twin!table[model][Twin!Read(t_pc)] = entry
  BY SameOpcode, SameTable DEF entry
<1>2. t_pc = pc /\ Twin!Read(t_pc) = Read(pc)
  BY SameOpcode DEF Level
<1> QED BY <1>1, <1>2, LengthIs, SameWords DEF Twin!Decoded

LEMMA SameArg ==
    ASSUME StateOK, Level, Sees, entry.mode \notin {"imp", "acc"}
    PROVE  Twin!Arg = Arg
<1>1. 1 \in 0 .. Length(Decoded.mode) - 1
  BY LengthIs, DecodedIs
<1>2. Wrap16(pc + 1) \in ReadCells
  BY <1>1, CodeIsRead
<1>3. Twin!Wrap16(t_pc + 1) = Wrap16(pc + 1)
  BY SameWords DEF Level
<1> QED BY <1>2, <1>3 DEF Twin!Arg, Arg, Sees

LEMMA SameArg16 ==
    ASSUME StateOK, Level, Sees, Length(entry.mode) = 3
    PROVE  /\ Twin!Arg16 = Arg16
           /\ Twin!Read(Wrap16(pc + 2)) = Read(Wrap16(pc + 2))
<1>1. 1 \in 0 .. Length(Decoded.mode) - 1 /\ 2 \in 0 .. Length(Decoded.mode) - 1
  BY DecodedIs
<1>2. Wrap16(pc + 1) \in ReadCells /\ Wrap16(pc + 2) \in ReadCells
  BY <1>1, CodeIsRead
<1>3. Twin!Wrap16(t_pc + 1) = Wrap16(pc + 1)
  BY SameWords DEF Level
<1>4. Wrap16(Wrap16(pc + 1) + 1) = Wrap16(pc + 2)
  <2>1. pc \in Int /\ 0 <= pc /\ pc < 65536
    BY DEF StateOK, AddressesOK, Word
  <2> QED BY <2>1 DEF Wrap16
<1>5. Twin!Read16(Wrap16(pc + 1)) = Read16(Wrap16(pc + 1))
  BY <1>2, <1>4, SameWords DEF Twin!Read16, Read16, Sees
<1> QED BY <1>2, <1>3, <1>5 DEF Twin!Arg16, Arg16, Sees

LEMMA SameWord ==
    ASSUME NEW a, Twin!Read(a) = Read(a), Twin!Read(Wrap16(a + 1)) = Read(Wrap16(a + 1))
    PROVE  Twin!Read16(a) = Read16(a)
  BY SameWords DEF Twin!Read16, Read16

LEMMA SameZeroPage16 ==
    ASSUME NEW a, Twin!Read(a) = Read(a), Twin!Read(Wrap8(a + 1)) = Read(Wrap8(a + 1))
    PROVE  Twin!ZeroPage16(a) = ZeroPage16(a)
  BY SameWords DEF Twin!ZeroPage16, ZeroPage16

LEMMA SameIndirect ==
    ASSUME StateOK, Level, Sees, entry.mode = "ind"
    PROVE  Twin!Indirect(Arg16) = Indirect(Arg16)
<1> DEFINE ptr == Arg16
<1>1. PointerCells(entry.mode)
          = {ptr, IF model = "nmos6502" /\ Low(ptr) = 255 THEN ptr - 255 ELSE Wrap16(ptr + 1)}
  BY DEF PointerCells
<1> HIDE DEF ptr
<1>2. \A a \in PointerCells(entry.mode) : Twin!Read(a) = Read(a)
  BY PointerIsRead, DecodedIs DEF Sees
<1>3. CASE model = "nmos6502" /\ Low(ptr) = 255
  <2>1. Twin!Read(ptr) = Read(ptr) /\ Twin!Read(ptr - 255) = Read(ptr - 255)
    BY <1>1, <1>2, <1>3
  <2> QED BY <1>3, <2>1, SameWords DEF Twin!Indirect, Indirect, ptr
<1>4. CASE ~(model = "nmos6502" /\ Low(ptr) = 255)
  <2>1. Twin!Read(ptr) = Read(ptr) /\ Twin!Read(Wrap16(ptr + 1)) = Read(Wrap16(ptr + 1))
    BY <1>1, <1>2, <1>4
  <2>2. Twin!Read16(ptr) = Read16(ptr)
    BY <2>1, SameWord
  <2> QED BY <1>4, <2>2, SameWords DEF Twin!Indirect, Indirect, ptr
<1> QED BY <1>3, <1>4

\* The indirect modes read a pointer that the two hold alike.
LEMMA SamePointer ==
    ASSUME StateOK, Level, Sees
    PROVE  /\ entry.mode = "iax" =>
                  Twin!Read16(Wrap16(Arg16 + reg["x"])) = Read16(Wrap16(Arg16 + reg["x"]))
           /\ entry.mode = "izx" =>
                  Twin!ZeroPage16(Wrap8(Arg + reg["x"])) = ZeroPage16(Wrap8(Arg + reg["x"]))
           /\ entry.mode \in {"izy", "zpi"} => Twin!ZeroPage16(Arg) = ZeroPage16(Arg)
<1>1. \A a \in PointerCells(entry.mode) : Twin!Read(a) = Read(a)
  BY PointerIsRead, DecodedIs DEF Sees
<1>2. CASE entry.mode = "iax"
  <2>1. PointerCells(entry.mode)
            = {Wrap16(Arg16 + reg["x"]), Wrap16(Wrap16(Arg16 + reg["x"]) + 1)}
    BY <1>2 DEF PointerCells
  <2> QED BY <1>1, <1>2, <2>1, SameWord
<1>3. CASE entry.mode = "izx"
  <2>1. PointerCells(entry.mode) = {Wrap8(Arg + reg["x"]), Wrap8(Wrap8(Arg + reg["x"]) + 1)}
    BY <1>3 DEF PointerCells
  <2> QED BY <1>1, <1>3, <2>1, SameZeroPage16
<1>4. CASE entry.mode \in {"izy", "zpi"}
  <2>1. PointerCells(entry.mode) = {Arg, Wrap8(Arg + 1)}
    BY <1>4 DEF PointerCells
  <2> QED BY <1>1, <1>4, <2>1, SameZeroPage16
<1> QED BY <1>2, <1>3, <1>4

LEMMA SameBase ==
    ASSUME StateOK, Level, Sees, entry.mode \in {"abx", "aby", "izy"}
    PROVE  Twin!Base(entry.mode) = Base(entry.mode)
<1>1. CASE entry.mode = "izy"
  <2>1. Twin!Arg = Arg
    BY <1>1, SameArg
  <2> QED BY <1>1, <2>1, SamePointer DEF Twin!Base, Base
<1>2. CASE entry.mode \in {"abx", "aby"}
  <2>1. Length(entry.mode) = 3
    BY <1>2 DEF Length
  <2>2. Twin!Arg16 = Arg16
    BY <2>1, SameArg16
  <2> QED BY <1>2, <2>2 DEF Twin!Base, Base
<1> QED BY <1>1, <1>2

LEMMA SameAddress ==
    ASSUME StateOK, Level, Sees, entry.mode \notin {"imp", "acc", "rel"}
    PROVE  Twin!EffectiveAddress(entry.mode) = EffectiveAddress(entry.mode)
<1> DEFINE mode == entry.mode
<1>1. mode \in Mode /\ reg = t_reg /\ pc = t_pc
  BY TablesOK, ReadIsByte DEF StateOK, entry, EntryOK, Level
<1>2. Twin!Arg = Arg
  BY SameArg
<1>3. mode \in {"abs", "abx", "aby", "ind", "iax"} => Twin!Arg16 = Arg16
  BY SameArg16 DEF Length
<1>4. mode \in {"abx", "aby", "izy"} => Twin!Base(mode) = Base(mode)
  BY SameBase
<1>5. mode = "ind" => Twin!Indirect(Arg16) = Indirect(Arg16)
  BY SameIndirect
<1> HIDE DEF mode
<1>6. CASE mode \in {"imm", "zp0", "zpr"}
  BY <1>1, <1>2, <1>6, SameWords DEF Twin!EffectiveAddress, EffectiveAddress, mode
<1>7. CASE mode \in {"zpx", "zpy"}
  BY <1>1, <1>2, <1>7, SameWords DEF Twin!EffectiveAddress, EffectiveAddress, mode
<1>8. CASE mode \in {"abs", "ind"}
  BY <1>1, <1>3, <1>5, <1>8 DEF Twin!EffectiveAddress, EffectiveAddress, mode
<1>9. CASE mode \in {"abx", "aby", "izy"}
  BY <1>1, <1>4, <1>9, SameWords DEF Twin!EffectiveAddress, EffectiveAddress, mode
<1>10. CASE mode \in {"iax", "izx", "zpi"}
  BY <1>1, <1>2, <1>3, <1>10, SameWords, SamePointer DEF Twin!EffectiveAddress, EffectiveAddress, mode
<1> QED BY <1>1, <1>6, <1>7, <1>8, <1>9, <1>10 DEF mode, Mode

LEMMA SameOffset ==
    ASSUME StateOK, Level, Sees, entry.mode \in {"rel", "zpr"}
    PROVE  Twin!RelativeOffset(entry.mode) = RelativeOffset(entry.mode)
<1>1. CASE entry.mode = "rel"
  <2>1. Twin!Arg = Arg
    BY <1>1, SameArg
  <2> QED BY <1>1, <2>1, SameWords DEF Twin!RelativeOffset, RelativeOffset
<1>2. CASE entry.mode = "zpr"
  <2>1. Length(entry.mode) = 3
    BY <1>2 DEF Length
  <2>2. /\ Twin!Read(Wrap16(pc + 2)) = Read(Wrap16(pc + 2))
        /\ Twin!Wrap16(t_pc + 2) = Wrap16(pc + 2)
    BY <2>1, SameArg16, SameWords DEF Level
  <2> QED BY <1>2, <2>2, SameWords DEF Twin!RelativeOffset, RelativeOffset
<1> QED BY <1>1, <1>2

LEMMA SamePageCross ==
    ASSUME StateOK, Level, Sees
    PROVE  Twin!PageCross(entry.mode) = PageCross(entry.mode)
<1>1. CASE entry.mode \in {"abx", "aby", "izy"}
  BY <1>1, SameAddress, SameBase, SameWords DEF Twin!PageCross, PageCross
<1>2. CASE entry.mode \notin {"abx", "aby", "izy"}
  BY <1>2 DEF Twin!PageCross, PageCross
<1> QED BY <1>1, <1>2

\* What the two have decoded, as far as an operation uses it.
Alike(d, e) ==
    /\ d.op = e.op /\ d.mode = e.mode /\ d.cycles = e.cycles /\ d.bit = e.bit
    /\ d.next = e.next /\ d.extra1 = e.extra1
    /\ d.op \in StoreOps \cup {"JMP", "JSR"} /\ ~OnAccumulator(d) => d.at = e.at
    /\ d.op \notin DOMAIN StoreOp \cup {"JMP", "JSR"} \cup DOMAIN BranchOp \cup {"BRA"}
           => d.value = e.value
    /\ d.op \in DOMAIN BranchOp \cup {"BRA", "BBR", "BBS"} => d.offset = e.offset

LEMMA DecodedAlike ==
    ASSUME StateOK, Level, Sees
    PROVE  Alike(Decoded, Twin!Decoded)
<1> DEFINE d == Decoded  e == Twin!Decoded  m == entry
<1>1. Fresh(m)
  BY EntryAudited DEF Audited
<1>2. /\ d.op = m.op /\ e.op = m.op /\ d.mode = m.mode /\ e.mode = m.mode
      /\ d.cycles = e.cycles /\ d.bit = e.bit /\ d.next = e.next
  BY DecodedIs, TwinDecodedIs
<1>3. d.extra1 = e.extra1
  BY DecodedIs, TwinDecodedIs, SamePageCross
<1>4. m.mode \notin {"imp", "acc", "rel"} => d.at = e.at
  BY DecodedIs, TwinDecodedIs, SameAddress
<1>5. m.mode \in {"rel", "zpr"} => d.offset = e.offset
  BY DecodedIs, TwinDecodedIs, SameOffset
<1>6. m.mode \in {"imp", "acc"} => d.value = e.value
  BY DecodedIs, TwinDecodedIs DEF Level
<1>7. m.mode \notin {"imp", "acc", "rel"} /\ m.op \notin DOMAIN StoreOp \cup {"JMP", "JSR"}
          => d.value = e.value
  <2> SUFFICES ASSUME m.mode \notin {"imp", "acc", "rel"},
                      m.op \notin DOMAIN StoreOp \cup {"JMP", "JSR"}
               PROVE  d.value = e.value
    OBVIOUS
  <2>1. d.at \in ReadCells
    BY <1>2, OperandIsRead
  <2>2. Twin!Read(d.at) = Read(d.at) /\ e.at = d.at
    BY <1>4, <2>1 DEF Sees
  <2> QED BY <2>2, DecodedIs, TwinDecodedIs
<1>8. m.op \in StoreOps \cup {"JMP", "JSR"}
          => OnAccumulator(m) \/ m.mode \notin {"imp", "acc", "rel", "zpr"}
  BY <1>1 DEF Fresh, StoreOps, StoreOp, Readers, Writers, Jumps, Modifiers
<1>9. OnAccumulator(d) <=> OnAccumulator(m)
  BY <1>2 DEF OnAccumulator
<1>10. m.op \in DOMAIN BranchOp \cup {"BRA", "BBR", "BBS"} <=> m.mode \in {"rel", "zpr"}
  BY <1>1 DEF Fresh, Relative, BitBranch
<1>11. m.mode = "rel" <=> m.op \in DOMAIN BranchOp \cup {"BRA"}
  BY <1>1 DEF Fresh, Relative
<1> HIDE DEF d, e, m
<1> SUFFICES Alike(d, e)
  BY DEF d, e
<1> QED BY <1>2, <1>3, <1>4, <1>5, <1>6, <1>7, <1>8, <1>9, <1>10, <1>11 DEF Alike

-----------------------------------------------------------------------------
(***************************************************************************)
(* The operations, in step: each leaves the two alike, and both memories   *)
(* get the same bytes.                                                     *)
(***************************************************************************)
SameRegisters == reg' = t_reg' /\ reg_f' = t_reg_f' /\ stopped' = t_stopped' /\ waiting' = t_waiting'

SameClock == pc' = t_pc' /\ cycles' = t_cycles'

QuietBoth(d) == /\ Quiet /\ Twin!Quiet
                /\ sp' = sp \/ d.op = "TXS" \/ \E n \in 1 .. 3 : sp' = StackPage(sp + n)
StoreBoth    == sp' = sp /\ \E cells : Write(cells) /\ Twin!Write(cells)
PushBoth     == \E bytes : Len(bytes) \in 1 .. 3 /\ Push(bytes) /\ Twin!Push(bytes)

Together(d) == SameRegisters /\ SameClock /\ sp' = t_sp' /\ (QuietBoth(d) \/ StoreBoth \/ PushBoth)

LEMMA SpendBoth ==
    ASSUME NEW n, Spend(n), Twin!Spend(n)
    PROVE  cycles' = t_cycles'
  BY DEF Spend, Twin!Spend

LEMMA RetireBoth ==
    ASSUME NEW d, NEW e, Alike(d, e), NEW n, Retire(d, n), Twin!Retire(e, n)
    PROVE  SameClock
  BY SpendBoth DEF Alike, Retire, Twin!Retire, SameClock

LEMMA SetRegisterBoth ==
    ASSUME Level, NEW d, NEW r, NEW v, NEW F,
           SetRegister(r, v, F), Twin!SetRegister(r, v, F), SameClock
    PROVE  Together(d)
  BY DEF Level, SetRegister, Twin!SetRegister, Together, SameRegisters, QuietBoth, modeVars, Twin!modeVars

LEMMA SetStatusBoth ==
    ASSUME Level, NEW d, NEW F, SetStatus(F), Twin!SetStatus(F), SameClock
    PROVE  Together(d)
  BY DEF Level, SetStatus, Twin!SetStatus, Together, SameRegisters, QuietBoth, modeVars, Twin!modeVars

LEMMA StoreToBoth ==
    ASSUME Level, NEW d, NEW a, NEW v, NEW F, StoreTo(a, v, F), Twin!StoreTo(a, v, F), SameClock
    PROVE  Together(d)
<1>1. PICK cells : cells = [c \in {a} |-> v]
  OBVIOUS
<1>2. Write(cells) /\ Twin!Write(cells)
  BY <1>1 DEF StoreTo, Twin!StoreTo
<1>3. /\ reg_f' = F /\ t_reg_f' = F
      /\ UNCHANGED <<reg, sp, modeVars>> /\ UNCHANGED <<t_reg, t_sp, t_stopped, t_waiting>>
  BY DEF StoreTo, Twin!StoreTo, Twin!modeVars
<1> QED BY <1>2, <1>3 DEF Level, Together, SameRegisters, StoreBoth, modeVars

LEMMA ModifyBoth ==
    ASSUME Level, NEW d, NEW e, Alike(d, e), d.op \in StoreOps, NEW v, NEW F,
           Modify(d, v, F), Twin!Modify(e, v, F), SameClock
    PROVE  Together(d)
<1>1. Twin!OnAccumulator(e) <=> OnAccumulator(d)
  BY DEF Twin!OnAccumulator, OnAccumulator, Alike
<1>2. CASE OnAccumulator(d)
  BY <1>1, <1>2, SetRegisterBoth DEF Modify, Twin!Modify
<1>3. CASE ~OnAccumulator(d)
  <2>1. d.at = e.at
    BY <1>3 DEF Alike
  <2> QED BY <1>1, <1>3, <2>1, StoreToBoth DEF Modify, Twin!Modify
<1> QED BY <1>2, <1>3

LEMMA PushesBoth ==
    ASSUME Level, NEW d, NEW bytes, Len(bytes) \in 1 .. 3, Push(bytes), Twin!Push(bytes),
           SameRegisters, SameClock
    PROVE  Together(d)
<1>1. sp' = t_sp'
  BY SameStackPage DEF Push, Twin!Push, Level
<1> QED BY <1>1 DEF Together, PushBoth

LEMMA PulledBoth ==
    ASSUME Level, Sees, Decoded.op \in DOMAIN PullCount, NEW i \in 1 .. PullCount[Decoded.op]
    PROVE  Twin!Pulled(i) = Pulled(i)
<1>1. StackPage(sp + i) \in ReadCells
  BY PulledIsRead
<1>2. Twin!StackPage(t_sp + i) = StackPage(sp + i)
  BY SameStackPage DEF Level
<1> QED BY <1>1, <1>2 DEF Twin!Pulled, Pulled, Sees

LEMMA PullsBoth ==
    ASSUME Level, NEW d, NEW n \in 1 .. 3, Pull(n), Twin!Pull(n), SameRegisters, SameClock
    PROVE  Together(d)
  BY SameStackPage DEF Level, Pull, Twin!Pull, Together, QuietBoth

LEMMA LoadRegisterBoth ==
    ASSUME Level, NEW d, NEW e, Alike(d, e), LoadRegister(d), Twin!LoadRegister(e)
    PROVE  Together(d)
<1>1. PICK r \in {"a", "x", "y"} : /\ d.op = LoadOp[r]
                                   /\ SetRegister(r, d.value, SetZN(reg_f, d.value))
                                   /\ Retire(d, d.extra1)
  BY DEF LoadRegister, LoadOp
<1>2. PICK q \in {"a", "x", "y"} : /\ e.op = LoadOp[q]
                                   /\ Twin!SetRegister(q, e.value, Twin!SetZN(t_reg_f, e.value))
                                   /\ Twin!Retire(e, e.extra1)
  BY DEF Twin!LoadRegister, Twin!LoadOp, LoadOp
<1>3. q = r /\ e.value = d.value /\ e.extra1 = d.extra1
  <2>1. d.op = e.op /\ e.extra1 = d.extra1
    BY DEF Alike
  <2>2. q = r /\ d.op \in {"LDA", "LDX", "LDY"}
    BY <1>1, <1>2, <2>1 DEF LoadOp
  <2> QED BY <2>1, <2>2 DEF Alike, StoreOp, BranchOp
<1>4. SameClock
  BY <1>1, <1>2, <1>3, RetireBoth
<1>5. Twin!SetZN(t_reg_f, e.value) = SetZN(reg_f, d.value)
  BY <1>3, SameSetZN DEF Level
<1>6. Twin!SetRegister(r, d.value, SetZN(reg_f, d.value))
  BY <1>2, <1>3, <1>5
<1> QED BY <1>1, <1>4, <1>6, SetRegisterBoth

LEMMA LogicalBoth ==
    ASSUME Level, NEW d, NEW e, Alike(d, e), Logical(d), Twin!Logical(e)
    PROVE  Together(d)
<1>1. d.op \in {"AND", "ORA", "EOR"} /\ e.op = d.op /\ e.value = d.value /\ e.extra1 = d.extra1
  BY DEF Logical, Alike, StoreOp, BranchOp
<1>2. PICK v : v = CASE d.op = "AND" -> BitAnd(reg["a"], d.value)
                     [] d.op = "ORA" -> BitOr(reg["a"], d.value)
                     [] d.op = "EOR" -> BitXor(reg["a"], d.value)
  OBVIOUS
<1>3. SetRegister("a", v, SetZN(reg_f, v)) /\ Retire(d, d.extra1)
  BY <1>2, Zenon DEF Logical
<1>4. v = CASE e.op = "AND" -> Twin!BitAnd(t_reg["a"], e.value)
            [] e.op = "ORA" -> Twin!BitOr(t_reg["a"], e.value)
            [] e.op = "EOR" -> Twin!BitXor(t_reg["a"], e.value)
  BY <1>1, <1>2, SameBitwise DEF Level
<1>5. Twin!SetRegister("a", v, Twin!SetZN(t_reg_f, v)) /\ Twin!Retire(e, e.extra1)
  BY <1>4, Zenon DEF Twin!Logical
<1>6. Twin!SetRegister("a", v, SetZN(reg_f, v)) /\ Twin!Retire(e, d.extra1)
  BY <1>1, <1>5, SameSetZN DEF Level
<1> QED BY <1>3, <1>6, RetireBoth, SetRegisterBoth

LEMMA AddSubtractBoth ==
    ASSUME Level, NEW d, NEW e, Alike(d, e), AddSubtract(d), Twin!AddSubtract(e)
    PROVE  Together(d)
<1>1. d.op \in {"ADC", "SBC"} /\ e.op = d.op /\ e.value = d.value /\ e.extra1 = d.extra1
  BY DEF AddSubtract, Alike, StoreOp, BranchOp
<1>2. PICK r : r = IF d.op = "ADC" THEN Adc(model, reg_f, reg["a"], d.value)
                                   ELSE Sbc(model, reg_f, reg["a"], d.value)
  OBVIOUS
<1>3. SetRegister("a", r.value, r.flags) /\ Retire(d, d.extra1 + r.cycles)
  BY <1>2, Zenon DEF AddSubtract
<1>4. r = IF e.op = "ADC" THEN Twin!Adc(model, t_reg_f, t_reg["a"], e.value)
                          ELSE Twin!Sbc(model, t_reg_f, t_reg["a"], e.value)
  BY <1>1, <1>2, SameAdc, SameSbc DEF Level
<1>5. Twin!SetRegister("a", r.value, r.flags) /\ Twin!Retire(e, e.extra1 + r.cycles)
  BY <1>4, Zenon DEF Twin!AddSubtract
<1> QED BY <1>1, <1>3, <1>5, RetireBoth, SetRegisterBoth

LEMMA CompareBoth ==
    ASSUME Level, NEW d, NEW e, Alike(d, e), Compare(d), Twin!Compare(e)
    PROVE  Together(d)
<1>1. PICK r \in {"a", "x", "y"} : /\ d.op = CompareOp[r]
                                   /\ SetStatus(CompareFlags(reg_f, reg[r], d.value))
                                   /\ Retire(d, d.extra1)
  BY DEF Compare, CompareOp
<1>2. PICK q \in {"a", "x", "y"} : /\ e.op = CompareOp[q]
                                   /\ Twin!SetStatus(Twin!CompareFlags(t_reg_f, t_reg[q], e.value))
                                   /\ Twin!Retire(e, e.extra1)
  BY DEF Twin!Compare, Twin!CompareOp, CompareOp
<1>3. q = r /\ e.value = d.value /\ e.extra1 = d.extra1
  <2>1. d.op = e.op /\ e.extra1 = d.extra1
    BY DEF Alike
  <2>2. q = r /\ d.op \in {"CMP", "CPX", "CPY"}
    BY <1>1, <1>2, <2>1 DEF CompareOp
  <2> QED BY <2>1, <2>2 DEF Alike, StoreOp, BranchOp
<1>4. SameClock
  BY <1>1, <1>2, <1>3, RetireBoth
<1>5. Twin!CompareFlags(t_reg_f, t_reg[q], e.value) = CompareFlags(reg_f, reg[r], d.value)
  BY <1>3, SameCompare DEF Level
<1>6. Twin!SetStatus(CompareFlags(reg_f, reg[r], d.value))
  BY <1>2, <1>5
<1> QED BY <1>1, <1>4, <1>6, SetStatusBoth

LEMMA BitTestBoth ==
    ASSUME Level, NEW d, NEW e, Alike(d, e), BitTest(d), Twin!BitTest(e)
    PROVE  Together(d)
<1>1. d.op = "BIT" /\ e.value = d.value /\ e.mode = d.mode
  BY DEF BitTest, Alike, StoreOp, BranchOp
<1>2. PICK F : F = Assign(IF d.mode = "imm" THEN reg_f
                          ELSE Assign(reg_f, [N |-> 7 \in Bits(d.value), V |-> 6 \in Bits(d.value)]),
                          [Z |-> (BitAnd(reg["a"], d.value) = 0)])
  OBVIOUS
<1>3. SetStatus(F) /\ Retire(d, 0)
  BY <1>2, Zenon DEF BitTest
<1>4. F = Twin!Assign(IF e.mode = "imm" THEN t_reg_f
                      ELSE Twin!Assign(t_reg_f, [N |-> 7 \in Twin!Bits(e.value),
                                                 V |-> 6 \in Twin!Bits(e.value)]),
                      [Z |-> (Twin!BitAnd(t_reg["a"], e.value) = 0)])
  BY <1>1, <1>2, SameAssign, SameBits, SameBitwise DEF Level
<1>5. Twin!SetStatus(F) /\ Twin!Retire(e, 0)
  BY <1>4, Zenon DEF Twin!BitTest
<1> QED BY <1>3, <1>5, RetireBoth, SetStatusBoth

LEMMA StepIndexBoth ==
    ASSUME Level, NEW d, NEW e, Alike(d, e), StepIndex(d), Twin!StepIndex(e)
    PROVE  Together(d)
<1>1. PICK r \in {"x", "y"} :
          /\ d.op \in {IncOp[r], DecOp[r]}
          /\ \E v : /\ v = Wrap8(IF d.op = IncOp[r] THEN reg[r] + 1 ELSE reg[r] - 1)
                    /\ SetRegister(r, v, SetZN(reg_f, v))
          /\ Retire(d, 0)
  BY Zenon DEF StepIndex
<1>2. PICK v : /\ v = Wrap8(IF d.op = IncOp[r] THEN reg[r] + 1 ELSE reg[r] - 1)
               /\ SetRegister(r, v, SetZN(reg_f, v))
  BY <1>1
<1>3. PICK q \in {"x", "y"} :
          /\ e.op \in {Twin!IncOp[q], Twin!DecOp[q]}
          /\ \E w : /\ w = Twin!Wrap8(IF e.op = Twin!IncOp[q] THEN t_reg[q] + 1 ELSE t_reg[q] - 1)
                    /\ Twin!SetRegister(q, w, Twin!SetZN(t_reg_f, w))
          /\ Twin!Retire(e, 0)
  BY Zenon DEF Twin!StepIndex
<1>4. PICK w : /\ w = Twin!Wrap8(IF e.op = Twin!IncOp[q] THEN t_reg[q] + 1 ELSE t_reg[q] - 1)
               /\ Twin!SetRegister(q, w, Twin!SetZN(t_reg_f, w))
  BY <1>3
<1>5. d.op = e.op /\ Twin!IncOp = IncOp /\ Twin!DecOp = DecOp
  BY DEF Alike, Twin!IncOp, IncOp, Twin!DecOp, DecOp
<1>6. q = r
  BY <1>1, <1>3, <1>5 DEF IncOp, DecOp
<1>7. w = v
  BY <1>2, <1>4, <1>5, <1>6, SameWords DEF Level
<1>8. Twin!SetRegister(r, v, SetZN(reg_f, v))
  BY <1>4, <1>6, <1>7, SameSetZN DEF Level
<1>9. SameClock
  BY <1>1, <1>3, RetireBoth
<1> QED BY <1>2, <1>8, <1>9, SetRegisterBoth

LEMMA TransferRegisterBoth ==
    ASSUME Level, NEW d, NEW e, Alike(d, e), TransferRegister(d), Twin!TransferRegister(e)
    PROVE  Together(d)
<1>1. d.op = e.op /\ Twin!Transfer = Transfer /\ reg = t_reg /\ reg_f = t_reg_f
  BY DEF Alike, Twin!Transfer, Transfer, Level
<1>2. PICK to, v : to = Transfer[d.op][2] /\ v = reg[Transfer[d.op][1]]
  OBVIOUS
<1>3. SetRegister(to, v, SetZN(reg_f, v)) /\ Retire(d, 0)
  BY <1>2, Zenon DEF TransferRegister
<1>4. Twin!SetRegister(to, v, Twin!SetZN(t_reg_f, v)) /\ Twin!Retire(e, 0)
  BY <1>1, <1>2, Zenon DEF Twin!TransferRegister
<1>5. Twin!SetRegister(to, v, SetZN(reg_f, v))
  BY <1>1, <1>4, SameSetZN
<1> QED BY <1>3, <1>4, <1>5, RetireBoth, SetRegisterBoth

LEMMA SetFlagBoth ==
    ASSUME Level, NEW d, NEW e, Alike(d, e), SetFlag(d), Twin!SetFlag(e)
    PROVE  Together(d)
<1>1. d.op = e.op /\ Twin!FlagOp = FlagOp /\ reg_f = t_reg_f
  BY DEF Alike, Twin!FlagOp, FlagOp, Level
<1>2. PICK F : F = Assign(reg_f, [f \in {FlagOp[d.op]} |-> d.op \in {"SEC", "SED", "SEI"}])
  OBVIOUS
<1>3. SetStatus(F) /\ Retire(d, 0)
  BY <1>2, Zenon DEF SetFlag
<1>4. F = Twin!Assign(t_reg_f, [f \in {Twin!FlagOp[e.op]} |-> e.op \in {"SEC", "SED", "SEI"}])
  BY <1>1, <1>2, SameAssign
<1>5. Twin!SetStatus(F) /\ Twin!Retire(e, 0)
  BY <1>4, Zenon DEF Twin!SetFlag
<1> QED BY <1>3, <1>5, RetireBoth, SetStatusBoth

LEMMA NoOperationBoth ==
    ASSUME Level, NEW d, NEW e, Alike(d, e), NoOperation(d), Twin!NoOperation(e)
    PROVE  Together(d)
<1>1. SetStatus(reg_f) /\ Twin!SetStatus(reg_f)
  BY DEF NoOperation, Twin!NoOperation, Level
<1>2. Retire(d, 0) /\ Twin!Retire(e, 0)
  BY DEF NoOperation, Twin!NoOperation
<1> QED BY <1>1, <1>2, RetireBoth, SetStatusBoth

LEMMA StoreBothAlike ==
    ASSUME Level, NEW d, NEW e, Alike(d, e), Store(d), Twin!Store(e)
    PROVE  Together(d)
<1>1. d.op = e.op /\ reg = t_reg /\ reg_f = t_reg_f
  BY DEF Alike, Level
<1>2. d.op \in {"STA", "STX", "STY", "STZ"}
  BY DEF Store, StoreOp
<1>3. d.at = e.at
  BY <1>2 DEF Alike, StoreOps, StoreOp, OnAccumulator
<1>4. PICK v : v = StoreOp[d.op]
  OBVIOUS
<1>5. Twin!StoreOp[e.op] = v
  BY <1>1, <1>4 DEF Twin!StoreOp, StoreOp
<1>6. StoreTo(d.at, v, reg_f) /\ Retire(d, 0)
  BY <1>4 DEF Store
<1>7. Twin!StoreTo(d.at, v, reg_f) /\ Twin!Retire(e, 0)
  BY <1>1, <1>3, <1>5 DEF Twin!Store
<1> QED BY <1>6, <1>7, RetireBoth, StoreToBoth

LEMMA ShiftBoth ==
    ASSUME Level, NEW d, NEW e, Alike(d, e), Shift(d), Twin!Shift(e)
    PROVE  Together(d)
<1>1. d.op \in {"ASL", "LSR", "ROL", "ROR"} /\ d.op = e.op /\ d.value = e.value
  BY DEF Shift, Alike, StoreOp, BranchOp
<1>2. PICK r : r = ShiftResult(d.op, reg_f, d.value)
  OBVIOUS
<1>3. Modify(d, r.value, r.flags) /\ Retire(d, 0)
  BY <1>2, Zenon DEF Shift
<1>4. r = Twin!ShiftResult(e.op, t_reg_f, e.value)
  BY <1>1, <1>2, SameShifts DEF Level
<1>5. Twin!Modify(e, r.value, r.flags) /\ Twin!Retire(e, 0)
  BY <1>4, Zenon DEF Twin!Shift
<1>6. d.op \in StoreOps
  BY <1>1 DEF StoreOps
<1> QED BY <1>3, <1>5, <1>6, RetireBoth, ModifyBoth

LEMMA IncrementDecrementBoth ==
    ASSUME Level, NEW d, NEW e, Alike(d, e), IncrementDecrement(d), Twin!IncrementDecrement(e)
    PROVE  Together(d)
<1>1. d.op \in {"INC", "DEC"} /\ d.op = e.op /\ d.value = e.value
  BY DEF IncrementDecrement, Alike, StoreOp, BranchOp
<1>2. PICK v : v = Wrap8(IF d.op = "INC" THEN d.value + 1 ELSE d.value - 1)
  OBVIOUS
<1>3. Modify(d, v, SetZN(reg_f, v)) /\ Retire(d, 0)
  BY <1>2, Zenon DEF IncrementDecrement
<1>4. v = Twin!Wrap8(IF e.op = "INC" THEN e.value + 1 ELSE e.value - 1)
  BY <1>1, <1>2, SameWords
<1>5. Twin!Modify(e, v, Twin!SetZN(t_reg_f, v)) /\ Twin!Retire(e, 0)
  BY <1>4, Zenon DEF Twin!IncrementDecrement
<1>6. Twin!Modify(e, v, SetZN(reg_f, v)) /\ d.op \in StoreOps
  BY <1>1, <1>5, SameSetZN DEF Level, StoreOps
<1> QED BY <1>3, <1>5, <1>6, RetireBoth, ModifyBoth

LEMMA WriteBitBoth ==
    ASSUME Level, NEW d, NEW e, Alike(d, e), WriteBit(d), Twin!WriteBit(e)
    PROVE  Together(d)
<1>1. d.op \in {"RMB", "SMB"} /\ d.op = e.op /\ d.value = e.value /\ d.bit = e.bit
  BY DEF WriteBit, Alike, StoreOp, BranchOp
<1>2. d.at = e.at
  BY <1>1 DEF Alike, StoreOps, OnAccumulator
<1>3. PICK v : v = FromBits(IF d.op = "SMB" THEN Bits(d.value) \cup {d.bit}
                                           ELSE Bits(d.value) \ {d.bit})
  OBVIOUS
<1>4. StoreTo(d.at, v, reg_f) /\ Retire(d, 0)
  BY <1>3, Zenon DEF WriteBit
<1>5. v = Twin!FromBits(IF e.op = "SMB" THEN Twin!Bits(e.value) \cup {e.bit}
                                       ELSE Twin!Bits(e.value) \ {e.bit})
  BY <1>1, <1>3, SameBits
<1>6. Twin!StoreTo(d.at, v, reg_f) /\ Twin!Retire(e, 0)
  BY <1>2, <1>5 DEF Twin!WriteBit, Level
<1> QED BY <1>4, <1>6, RetireBoth, StoreToBoth

LEMMA TestAndWriteBitsBoth ==
    ASSUME Level, NEW d, NEW e, Alike(d, e), TestAndWriteBits(d), Twin!TestAndWriteBits(e)
    PROVE  Together(d)
<1>1. d.op \in {"TRB", "TSB"} /\ d.op = e.op /\ d.value = e.value
  BY DEF TestAndWriteBits, Alike, StoreOp, BranchOp
<1>2. d.at = e.at
  BY <1>1 DEF Alike, StoreOps, OnAccumulator
<1>3. PICK v, F : /\ v = IF d.op = "TSB" THEN BitOr(d.value, reg["a"]) ELSE BitClear(d.value, reg["a"])
                  /\ F = Assign(reg_f, [Z |-> (BitAnd(reg["a"], d.value) = 0)])
  OBVIOUS
<1>4. StoreTo(d.at, v, F) /\ Retire(d, 0)
  BY <1>3, Zenon DEF TestAndWriteBits
<1>5. /\ v = IF e.op = "TSB" THEN Twin!BitOr(e.value, t_reg["a"])
                            ELSE Twin!BitClear(e.value, t_reg["a"])
      /\ F = Twin!Assign(t_reg_f, [Z |-> (Twin!BitAnd(t_reg["a"], e.value) = 0)])
  BY <1>1, <1>3, SameBitwise, SameAssign DEF Level
<1>6. Twin!StoreTo(d.at, v, F) /\ Twin!Retire(e, 0)
  BY <1>2, <1>5, Zenon DEF Twin!TestAndWriteBits
<1> QED BY <1>4, <1>6, RetireBoth, StoreToBoth

LEMMA PushRegisterBoth ==
    ASSUME Level, NEW d, NEW e, Alike(d, e), PushRegister(d), Twin!PushRegister(e)
    PROVE  Together(d)
<1>1. d.op = e.op /\ reg = t_reg /\ reg_f = t_reg_f
  BY DEF Alike, Level
<1>2. PICK b : b = PushOp[d.op]
  OBVIOUS
<1>3. Twin!PushOp[e.op] = b
  <2>1. d.op \in {"PHA", "PHX", "PHY", "PHP"}
    BY DEF PushRegister, PushOp
  <2>2. Twin!PushedStatus(t_reg_f, TRUE) = PushedStatus(reg_f, TRUE)
    BY <1>1, SameStatus
  <2> QED BY <1>1, <1>2, <2>1, <2>2 DEF Twin!PushOp, PushOp
<1>4. /\ Push(<<b>>) /\ Retire(d, 0)
      /\ UNCHANGED <<reg, reg_f, stopped, waiting>>
  BY <1>2 DEF PushRegister, modeVars
<1>5. /\ Twin!Push(<<b>>) /\ Twin!Retire(e, 0)
      /\ UNCHANGED <<t_reg, t_reg_f, t_stopped, t_waiting>>
  BY <1>3 DEF Twin!PushRegister, Twin!modeVars
<1>6. SameRegisters
  BY <1>4, <1>5 DEF SameRegisters, Level
<1>7. Len(<<b>>) \in 1 .. 3
  OBVIOUS
<1> QED BY <1>4, <1>5, <1>6, <1>7, RetireBoth, PushesBoth

LEMMA PullRegisterBoth ==
    ASSUME Level, Sees, Alike(Decoded, Twin!Decoded), PullRegister(Decoded),
           Twin!PullRegister(Twin!Decoded)
    PROVE  Together(Decoded)
<1> DEFINE d == Decoded  e == Twin!Decoded
<1>1. d.op = e.op /\ reg = t_reg /\ reg_f = t_reg_f
  BY DEF Alike, Level
<1>2. d.op \in {"PLA", "PLX", "PLY", "PLP"}
  BY DEF PullRegister, PullOp
<1>3. Twin!Pulled(1) = Pulled(1)
  BY <1>2, PulledBoth DEF PullCount
<1>4. PICK v : v = Pulled(1)
  OBVIOUS
<1>5. /\ \/ \E r \in {"a", "x", "y"} :
                d.op = PullOp[r] /\ reg' = [reg EXCEPT ![r] = v] /\ reg_f' = SetZN(reg_f, v)
         \/ d.op = "PLP" /\ reg_f' = PulledFlags(v) /\ reg' = reg
      /\ Pull(1) /\ Retire(d, 0)
      /\ UNCHANGED <<stopped, waiting>>
  BY <1>4 DEF PullRegister, PullOp, modeVars
<1>6. /\ \/ \E r \in {"a", "x", "y"} :
                e.op = PullOp[r] /\ t_reg' = [t_reg EXCEPT ![r] = v] /\ t_reg_f' = SetZN(t_reg_f, v)
         \/ e.op = "PLP" /\ t_reg_f' = PulledFlags(v) /\ t_reg' = t_reg
      /\ Twin!Pull(1) /\ Twin!Retire(e, 0)
      /\ UNCHANGED <<t_stopped, t_waiting>>
  <2>1. Twin!SetZN(t_reg_f, v) = SetZN(t_reg_f, v) /\ Twin!PulledFlags(v) = PulledFlags(v)
    BY SameSetZN, SameStatus
  <2> QED BY <1>3, <1>4, <2>1 DEF Twin!PullRegister, Twin!PullOp, PullOp, Twin!modeVars
<1> HIDE DEF d, e
<1>7. reg' = t_reg' /\ reg_f' = t_reg_f'
  <2>1. CASE d.op = "PLP"
    BY <1>1, <1>5, <1>6, <2>1 DEF PullOp
  <2>2. ASSUME NEW r \in {"a", "x", "y"}, d.op = PullOp[r]
        PROVE  reg' = t_reg' /\ reg_f' = t_reg_f'
    <3>1. reg' = [reg EXCEPT ![r] = v] /\ reg_f' = SetZN(reg_f, v)
      BY <1>5, <2>2 DEF PullOp
    <3>2. t_reg' = [t_reg EXCEPT ![r] = v] /\ t_reg_f' = SetZN(t_reg_f, v)
      BY <1>1, <1>6, <2>2 DEF PullOp
    <3> QED BY <1>1, <3>1, <3>2
  <2> QED BY <1>5, <2>1, <2>2
<1>8. SameRegisters
  BY <1>5, <1>6, <1>7 DEF SameRegisters, Level
<1>9. SameClock
  BY <1>5, <1>6, RetireBoth DEF d, e
<1> QED BY <1>5, <1>6, <1>8, <1>9, PullsBoth DEF d

LEMMA TransferStackPointerBoth ==
    ASSUME Level, NEW d, NEW e, Alike(d, e), TransferStackPointer(d), Twin!TransferStackPointer(e)
    PROVE  Together(d)
<1>1. d.op = e.op /\ reg = t_reg /\ reg_f = t_reg_f /\ sp = t_sp
  BY DEF Alike, Level
<1>2. CASE d.op = "TSX"
  <2>1. SetRegister("x", Low(sp), SetZN(reg_f, Low(sp))) /\ Retire(d, 0)
    BY <1>2 DEF TransferStackPointer
  <2>2. Twin!SetRegister("x", Twin!Low(t_sp), Twin!SetZN(t_reg_f, Twin!Low(t_sp))) /\ Twin!Retire(e, 0)
    BY <1>1, <1>2 DEF Twin!TransferStackPointer
  <2>3. Twin!SetRegister("x", Low(sp), SetZN(reg_f, Low(sp)))
    BY <1>1, <2>2, SameWords, SameSetZN
  <2> QED BY <2>1, <2>2, <2>3, RetireBoth, SetRegisterBoth
<1>3. CASE d.op = "TXS"
  <2>1. sp' = StackPage(reg["x"]) /\ Quiet /\ Retire(d, 0) /\ UNCHANGED <<reg, reg_f, modeVars>>
    BY <1>3 DEF TransferStackPointer
  <2>2. /\ t_sp' = StackPage(reg["x"]) /\ Twin!Quiet /\ Twin!Retire(e, 0)
        /\ UNCHANGED <<t_reg, t_reg_f, t_stopped, t_waiting>>
    BY <1>1, <1>3, SameStackPage DEF Twin!TransferStackPointer, Twin!modeVars
  <2>3. SameClock
    BY <2>1, <2>2, RetireBoth
  <2> QED BY <1>3, <2>1, <2>2, <2>3 DEF Together, SameRegisters, QuietBoth, Level, modeVars
<1> QED BY <1>2, <1>3 DEF TransferStackPointer

LEMMA BranchBoth ==
    ASSUME Level, NEW d, NEW e, Alike(d, e), Branch(d), Twin!Branch(e)
    PROVE  Together(d)
<1>1. /\ d.op \in DOMAIN BranchOp \cup {"BRA", "BBR", "BBS"}
      /\ d.op = e.op /\ d.offset = e.offset /\ d.next = e.next /\ d.cycles = e.cycles /\ d.bit = e.bit
      /\ d.op \in {"BBR", "BBS"} => d.value = e.value
      /\ reg_f = t_reg_f
  BY DEF Branch, Alike, StoreOp, BranchOp, Level
<1>2. Twin!Taken(e) = Taken(d)
  <2>1. Twin!BranchOp = BranchOp
    BY DEF Twin!BranchOp, BranchOp
  <2>2. CASE d.op \in DOMAIN BranchOp
    BY <1>1, <2>1, <2>2 DEF Twin!Taken, Taken
  <2>3. CASE d.op = "BRA"
    BY <1>1, <2>1, <2>3 DEF Twin!Taken, Taken, BranchOp
  <2>4. CASE d.op \in {"BBR", "BBS"}
    BY <1>1, <2>1, <2>4, SameBits DEF Twin!Taken, Taken, BranchOp
  <2> QED BY <1>1, <2>2, <2>3, <2>4
<1>3. PICK t, n : /\ t = Wrap16(d.next + d.offset)
                  /\ n = d.cycles + CASE ~Taken(d) -> 0
                                      [] Taken(d) /\ SamePage(d.next, t) -> 1
                                      [] OTHER -> 2
  OBVIOUS
<1>4. pc' = (IF Taken(d) THEN t ELSE d.next) /\ Spend(n) /\ SetStatus(reg_f)
  BY <1>3, Zenon DEF Branch
<1>5. /\ t = Twin!Wrap16(e.next + e.offset)
      /\ n = e.cycles + CASE ~Twin!Taken(e) -> 0
                          [] Twin!Taken(e) /\ Twin!SamePage(e.next, t) -> 1
                          [] OTHER -> 2
  BY <1>1, <1>2, <1>3, SameWords
<1>6. t_pc' = (IF Twin!Taken(e) THEN t ELSE e.next) /\ Twin!Spend(n) /\ Twin!SetStatus(t_reg_f)
  BY <1>5, Zenon DEF Twin!Branch
<1>7. SameClock
  BY <1>1, <1>2, <1>4, <1>6, SpendBoth DEF SameClock
<1> QED BY <1>1, <1>4, <1>6, <1>7, SetStatusBoth

LEMMA JumpBoth ==
    ASSUME Level, NEW d, NEW e, Alike(d, e), Jump(d), Twin!Jump(e)
    PROVE  Together(d)
<1>1. /\ d.op \in {"JMP", "JSR"} /\ d.op = e.op /\ d.next = e.next /\ d.cycles = e.cycles
      /\ d.at = e.at
  BY DEF Jump, Alike, OnAccumulator
<1>2. SameRegisters
  BY DEF Jump, Twin!Jump, SameRegisters, Level, modeVars, Twin!modeVars
<1>3. SameClock
  BY <1>1, SpendBoth DEF Jump, Twin!Jump, SameClock
<1>4. CASE d.op = "JMP"
  <2>1. Quiet /\ sp' = sp /\ Twin!Quiet /\ t_sp' = t_sp
    BY <1>1, <1>4 DEF Jump, Twin!Jump
  <2> QED BY <1>2, <1>3, <2>1 DEF Together, QuietBoth, Level
<1>5. CASE d.op = "JSR"
  <2>1. PICK bytes : bytes = <<High(Wrap16(d.next - 1)), Low(Wrap16(d.next - 1))>>
    OBVIOUS
  <2>2. Push(bytes)
    BY <1>5, <2>1 DEF Jump
  <2>3. bytes = <<Twin!High(Twin!Wrap16(e.next - 1)), Twin!Low(Twin!Wrap16(e.next - 1))>>
    BY <1>1, <2>1, SameWords
  <2>4. Twin!Push(bytes)
    BY <1>1, <1>5, <2>3 DEF Twin!Jump
  <2>5. Len(bytes) \in 1 .. 3
    BY <2>1
  <2> QED BY <1>2, <1>3, <2>2, <2>4, <2>5, PushesBoth
<1> QED BY <1>1, <1>4, <1>5

LEMMA ReturnBoth ==
    ASSUME Level, Sees, Alike(Decoded, Twin!Decoded), Return(Decoded), Twin!Return(Twin!Decoded)
    PROVE  Together(Decoded)
<1> DEFINE d == Decoded  e == Twin!Decoded
<1>1. d.op \in {"RTS", "RTI"} /\ d.op = e.op /\ d.cycles = e.cycles /\ reg_f = t_reg_f
  BY DEF Return, Alike, Level
<1>2. Spend(d.cycles) /\ UNCHANGED <<reg, modeVars>>
  BY DEF Return
<1>3. Twin!Spend(e.cycles) /\ UNCHANGED <<t_reg, t_stopped, t_waiting>>
  BY DEF Twin!Return, Twin!modeVars
<1>4. cycles' = t_cycles'
  BY <1>1, <1>2, <1>3, SpendBoth
<1>5. CASE d.op = "RTS"
  <2>1. Twin!Pulled(1) = Pulled(1) /\ Twin!Pulled(2) = Pulled(2)
    BY <1>5, PulledBoth DEF PullCount
  <2>2. pc' = Wrap16(Pair(Pulled(1), Pulled(2)) + 1) /\ Pull(2) /\ reg_f' = reg_f
    BY <1>5 DEF Return
  <2>3. /\ t_pc' = Twin!Wrap16(Twin!Pair(Twin!Pulled(1), Twin!Pulled(2)) + 1)
        /\ Twin!Pull(2) /\ t_reg_f' = t_reg_f
    BY <1>1, <1>5 DEF Twin!Return
  <2>4. pc' = t_pc'
    BY <2>1, <2>2, <2>3, SameWords
  <2>5. SameRegisters /\ SameClock
    BY <1>1, <1>2, <1>3, <1>4, <2>2, <2>3, <2>4 DEF SameRegisters, SameClock, Level, modeVars
  <2> QED BY <2>2, <2>3, <2>5, PullsBoth
<1>6. CASE d.op = "RTI"
  <2>1. /\ Twin!Pulled(1) = Pulled(1) /\ Twin!Pulled(2) = Pulled(2)
        /\ Twin!Pulled(3) = Pulled(3)
    BY <1>6, PulledBoth DEF PullCount
  <2>2. pc' = Pair(Pulled(2), Pulled(3)) /\ Pull(3) /\ reg_f' = PulledFlags(Pulled(1))
    BY <1>6 DEF Return
  <2>3. /\ t_pc' = Twin!Pair(Twin!Pulled(2), Twin!Pulled(3))
        /\ Twin!Pull(3) /\ t_reg_f' = Twin!PulledFlags(Twin!Pulled(1))
    BY <1>1, <1>6 DEF Twin!Return
  <2>4. pc' = t_pc' /\ reg_f' = t_reg_f'
    BY <2>1, <2>2, <2>3, SameWords, SameStatus
  <2>5. SameRegisters /\ SameClock
    BY <1>2, <1>3, <1>4, <2>4 DEF SameRegisters, SameClock, Level, modeVars
  <2> QED BY <2>2, <2>3, <2>5, PullsBoth
<1> QED BY <1>1, <1>5, <1>6

LEMMA BreakBoth ==
    ASSUME Level, Sees, Alike(Decoded, Twin!Decoded), Break(Decoded), Twin!Break(Twin!Decoded)
    PROVE  Together(Decoded)
<1> DEFINE d == Decoded  e == Twin!Decoded
<1>1. d.op = "BRK" /\ e.next = d.next /\ reg_f = t_reg_f
  BY DEF Break, Alike, Level
<1>2. PICK bytes : bytes = <<High(Wrap16(d.next + 1)), Low(Wrap16(d.next + 1)),
                             PushedStatus(reg_f, TRUE)>>
  OBVIOUS
<1>3. /\ Push(bytes) /\ reg_f' = reg_f \cup {"I"} /\ pc' = Read16(IrqVector) /\ Spend(0)
      /\ waiting' = FALSE /\ UNCHANGED <<reg, stopped>>
  BY <1>2 DEF Break, Interrupt
<1>4. bytes = <<Twin!High(Twin!Wrap16(e.next + 1)), Twin!Low(Twin!Wrap16(e.next + 1)),
                Twin!PushedStatus(t_reg_f, TRUE)>>
  BY <1>1, <1>2, SameWords, SameStatus
<1>5. /\ Twin!Push(bytes) /\ t_reg_f' = t_reg_f \cup {"I"} /\ t_pc' = Twin!Read16(Twin!IrqVector)
      /\ Twin!Spend(0) /\ t_waiting' = FALSE /\ UNCHANGED <<t_reg, t_stopped>>
  BY <1>4 DEF Twin!Break, Twin!Interrupt
<1>6. Twin!Read16(Twin!IrqVector) = Read16(IrqVector)
  <2>1. Twin!IrqVector = IrqVector /\ Wrap16(IrqVector + 1) = IrqVector + 1
    BY DEF Twin!IrqVector, IrqVector, Wrap16
  <2>2. /\ Twin!Read(IrqVector) = Read(IrqVector)
        /\ Twin!Read(IrqVector + 1) = Read(IrqVector + 1)
    BY <1>1, VectorIsRead DEF Sees
  <2> QED BY <2>1, <2>2, SameWord
<1>7. SameRegisters /\ SameClock
  BY <1>1, <1>3, <1>5, <1>6, SpendBoth DEF SameRegisters, SameClock, Level
<1>8. Len(bytes) \in 1 .. 3
  BY <1>2
<1> QED BY <1>3, <1>5, <1>7, <1>8, PushesBoth

LEMMA HaltBoth ==
    ASSUME Level, NEW d, NEW e, Alike(d, e), Halt(d), Twin!Halt(e)
    PROVE  Together(d)
<1>1. d.op = e.op
  BY DEF Alike
<1>2. Quiet /\ Retire(d, 0) /\ UNCHANGED <<reg, reg_f, sp>>
  BY DEF Halt
<1>3. Twin!Quiet /\ Twin!Retire(e, 0) /\ UNCHANGED <<t_reg, t_reg_f, t_sp>>
  BY DEF Twin!Halt
<1>4. stopped' = t_stopped' /\ waiting' = t_waiting'
  BY <1>1 DEF Halt, Twin!Halt, Level
<1>5. SameClock
  BY <1>2, <1>3, RetireBoth
<1> QED BY <1>2, <1>3, <1>4, <1>5 DEF Together, SameRegisters, QuietBoth, Level

-----------------------------------------------------------------------------
\* The group of Operate that an operation belongs to.
Family(op) ==
    CASE op \in {"LDA", "LDX", "LDY"} -> "LoadRegister"
      [] op \in {"AND", "ORA", "EOR"} -> "Logical"
      [] op \in {"ADC", "SBC"} -> "AddSubtract"
      [] op \in {"CMP", "CPX", "CPY"} -> "Compare"
      [] op = "BIT" -> "BitTest"
      [] op \in {"INX", "INY", "DEX", "DEY"} -> "StepIndex"
      [] op \in {"TAX", "TAY", "TXA", "TYA"} -> "TransferRegister"
      [] op \in {"CLC", "CLD", "CLI", "CLV", "SEC", "SED", "SEI"} -> "SetFlag"
      [] op = "NOP" -> "NoOperation"
      [] op \in {"STA", "STX", "STY", "STZ"} -> "Store"
      [] op \in {"ASL", "LSR", "ROL", "ROR"} -> "Shift"
      [] op \in {"INC", "DEC"} -> "IncrementDecrement"
      [] op \in {"RMB", "SMB"} -> "WriteBit"
      [] op \in {"TRB", "TSB"} -> "TestAndWriteBits"
      [] op \in {"PHA", "PHX", "PHY", "PHP"} -> "PushRegister"
      [] op \in {"PLA", "PLX", "PLY", "PLP"} -> "PullRegister"
      [] op \in {"TSX", "TXS"} -> "TransferStackPointer"
      [] op \in {"BCC", "BCS", "BNE", "BEQ", "BPL", "BMI", "BVC", "BVS", "BRA", "BBR", "BBS"} -> "Branch"
      [] op \in {"JMP", "JSR"} -> "Jump"
      [] op \in {"RTS", "RTI"} -> "Return"
      [] op = "BRK" -> "Break"
      [] op \in {"STP", "KIL", "WAI"} -> "Halt"

LEMMA OperationFamily ==
    ASSUME NEW d
    PROVE  /\ LoadRegister(d) => Family(d.op) = "LoadRegister"
           /\ Logical(d) => Family(d.op) = "Logical"
           /\ AddSubtract(d) => Family(d.op) = "AddSubtract"
           /\ Compare(d) => Family(d.op) = "Compare"
           /\ BitTest(d) => Family(d.op) = "BitTest"
           /\ StepIndex(d) => Family(d.op) = "StepIndex"
           /\ TransferRegister(d) => Family(d.op) = "TransferRegister"
           /\ SetFlag(d) => Family(d.op) = "SetFlag"
           /\ NoOperation(d) => Family(d.op) = "NoOperation"
           /\ Store(d) => Family(d.op) = "Store"
           /\ Shift(d) => Family(d.op) = "Shift"
           /\ IncrementDecrement(d) => Family(d.op) = "IncrementDecrement"
           /\ WriteBit(d) => Family(d.op) = "WriteBit"
           /\ TestAndWriteBits(d) => Family(d.op) = "TestAndWriteBits"
           /\ PushRegister(d) => Family(d.op) = "PushRegister"
           /\ PullRegister(d) => Family(d.op) = "PullRegister"
           /\ TransferStackPointer(d) => Family(d.op) = "TransferStackPointer"
           /\ Branch(d) => Family(d.op) = "Branch"
           /\ Jump(d) => Family(d.op) = "Jump"
           /\ Return(d) => Family(d.op) = "Return"
           /\ Break(d) => Family(d.op) = "Break"
           /\ Halt(d) => Family(d.op) = "Halt"
<1>1. LoadRegister(d) => Family(d.op) = "LoadRegister"
  BY DEF LoadRegister, LoadOp, Family
<1>2. Logical(d) => Family(d.op) = "Logical"
  BY DEF Logical, Family
<1>3. AddSubtract(d) => Family(d.op) = "AddSubtract"
  BY DEF AddSubtract, Family
<1>4. Compare(d) => Family(d.op) = "Compare"
  BY DEF Compare, CompareOp, Family
<1>5. BitTest(d) => Family(d.op) = "BitTest"
  BY DEF BitTest, Family
<1>6. StepIndex(d) => Family(d.op) = "StepIndex"
  BY DEF StepIndex, IncOp, DecOp, Family
<1>7. TransferRegister(d) => Family(d.op) = "TransferRegister"
  BY DEF TransferRegister, Transfer, Family
<1>8. SetFlag(d) => Family(d.op) = "SetFlag"
  BY DEF SetFlag, FlagOp, Family
<1>9. NoOperation(d) => Family(d.op) = "NoOperation"
  BY DEF NoOperation, Family
<1>10. Store(d) => Family(d.op) = "Store"
  BY DEF Store, StoreOp, Family
<1>11. Shift(d) => Family(d.op) = "Shift"
  BY DEF Shift, Family
<1>12. IncrementDecrement(d) => Family(d.op) = "IncrementDecrement"
  BY DEF IncrementDecrement, Family
<1>13. WriteBit(d) => Family(d.op) = "WriteBit"
  BY DEF WriteBit, Family
<1>14. TestAndWriteBits(d) => Family(d.op) = "TestAndWriteBits"
  BY DEF TestAndWriteBits, Family
<1>15. PushRegister(d) => Family(d.op) = "PushRegister"
  BY DEF PushRegister, PushOp, Family
<1>16. PullRegister(d) => Family(d.op) = "PullRegister"
  BY DEF PullRegister, PullOp, Family
<1>17. TransferStackPointer(d) => Family(d.op) = "TransferStackPointer"
  BY DEF TransferStackPointer, Family
<1>18. Branch(d) => Family(d.op) = "Branch"
  BY DEF Branch, BranchOp, Family
<1>19. Jump(d) => Family(d.op) = "Jump"
  BY DEF Jump, Family
<1>20. Return(d) => Family(d.op) = "Return"
  BY DEF Return, Family
<1>21. Break(d) => Family(d.op) = "Break"
  BY DEF Break, Family
<1>22. Halt(d) => Family(d.op) = "Halt"
  BY DEF Halt, Family
<1> QED BY <1>1, <1>2, <1>3, <1>4, <1>5, <1>6, <1>7, <1>8, <1>9, <1>10, <1>11, <1>12, <1>13,
           <1>14, <1>15, <1>16, <1>17, <1>18, <1>19, <1>20, <1>21, <1>22

LEMMA TwinOperationFamily ==
    ASSUME NEW e
    PROVE  /\ Twin!LoadRegister(e) => Family(e.op) = "LoadRegister"
           /\ Twin!Logical(e) => Family(e.op) = "Logical"
           /\ Twin!AddSubtract(e) => Family(e.op) = "AddSubtract"
           /\ Twin!Compare(e) => Family(e.op) = "Compare"
           /\ Twin!BitTest(e) => Family(e.op) = "BitTest"
           /\ Twin!StepIndex(e) => Family(e.op) = "StepIndex"
           /\ Twin!TransferRegister(e) => Family(e.op) = "TransferRegister"
           /\ Twin!SetFlag(e) => Family(e.op) = "SetFlag"
           /\ Twin!NoOperation(e) => Family(e.op) = "NoOperation"
           /\ Twin!Store(e) => Family(e.op) = "Store"
           /\ Twin!Shift(e) => Family(e.op) = "Shift"
           /\ Twin!IncrementDecrement(e) => Family(e.op) = "IncrementDecrement"
           /\ Twin!WriteBit(e) => Family(e.op) = "WriteBit"
           /\ Twin!TestAndWriteBits(e) => Family(e.op) = "TestAndWriteBits"
           /\ Twin!PushRegister(e) => Family(e.op) = "PushRegister"
           /\ Twin!PullRegister(e) => Family(e.op) = "PullRegister"
           /\ Twin!TransferStackPointer(e) => Family(e.op) = "TransferStackPointer"
           /\ Twin!Branch(e) => Family(e.op) = "Branch"
           /\ Twin!Jump(e) => Family(e.op) = "Jump"
           /\ Twin!Return(e) => Family(e.op) = "Return"
           /\ Twin!Break(e) => Family(e.op) = "Break"
           /\ Twin!Halt(e) => Family(e.op) = "Halt"
<1>1. Twin!LoadRegister(e) => Family(e.op) = "LoadRegister"
  BY DEF Twin!LoadRegister, Twin!LoadOp, Family
<1>2. Twin!Logical(e) => Family(e.op) = "Logical"
  BY DEF Twin!Logical, Family
<1>3. Twin!AddSubtract(e) => Family(e.op) = "AddSubtract"
  BY DEF Twin!AddSubtract, Family
<1>4. Twin!Compare(e) => Family(e.op) = "Compare"
  BY DEF Twin!Compare, Twin!CompareOp, Family
<1>5. Twin!BitTest(e) => Family(e.op) = "BitTest"
  BY DEF Twin!BitTest, Family
<1>6. Twin!StepIndex(e) => Family(e.op) = "StepIndex"
  BY DEF Twin!StepIndex, Twin!IncOp, Twin!DecOp, Family
<1>7. Twin!TransferRegister(e) => Family(e.op) = "TransferRegister"
  BY DEF Twin!TransferRegister, Twin!Transfer, Family
<1>8. Twin!SetFlag(e) => Family(e.op) = "SetFlag"
  BY DEF Twin!SetFlag, Twin!FlagOp, Family
<1>9. Twin!NoOperation(e) => Family(e.op) = "NoOperation"
  BY DEF Twin!NoOperation, Family
<1>10. Twin!Store(e) => Family(e.op) = "Store"
  BY DEF Twin!Store, Twin!StoreOp, Family
<1>11. Twin!Shift(e) => Family(e.op) = "Shift"
  BY DEF Twin!Shift, Family
<1>12. Twin!IncrementDecrement(e) => Family(e.op) = "IncrementDecrement"
  BY DEF Twin!IncrementDecrement, Family
<1>13. Twin!WriteBit(e) => Family(e.op) = "WriteBit"
  BY DEF Twin!WriteBit, Family
<1>14. Twin!TestAndWriteBits(e) => Family(e.op) = "TestAndWriteBits"
  BY DEF Twin!TestAndWriteBits, Family
<1>15. Twin!PushRegister(e) => Family(e.op) = "PushRegister"
  BY DEF Twin!PushRegister, Twin!PushOp, Family
<1>16. Twin!PullRegister(e) => Family(e.op) = "PullRegister"
  BY DEF Twin!PullRegister, Twin!PullOp, Family
<1>17. Twin!TransferStackPointer(e) => Family(e.op) = "TransferStackPointer"
  BY DEF Twin!TransferStackPointer, Family
<1>18. Twin!Branch(e) => Family(e.op) = "Branch"
  BY DEF Twin!Branch, Twin!BranchOp, Family
<1>19. Twin!Jump(e) => Family(e.op) = "Jump"
  BY DEF Twin!Jump, Family
<1>20. Twin!Return(e) => Family(e.op) = "Return"
  BY DEF Twin!Return, Family
<1>21. Twin!Break(e) => Family(e.op) = "Break"
  BY DEF Twin!Break, Family
<1>22. Twin!Halt(e) => Family(e.op) = "Halt"
  BY DEF Twin!Halt, Family
<1> QED BY <1>1, <1>2, <1>3, <1>4, <1>5, <1>6, <1>7, <1>8, <1>9, <1>10, <1>11, <1>12, <1>13,
           <1>14, <1>15, <1>16, <1>17, <1>18, <1>19, <1>20, <1>21, <1>22

\* An instruction that both execute leaves them alike.
LEMMA OperateBoth ==
    ASSUME Level, Sees, Alike(Decoded, Twin!Decoded), Operate(Decoded), Twin!Operate(Twin!Decoded)
    PROVE  Together(Decoded)
<1> DEFINE d == Decoded  e == Twin!Decoded  k == Family(d.op)
<1>1. k = Family(e.op)
  BY DEF Alike
<1>2. LoadRegister(d) => Together(d)
  <2>1. LoadRegister(d) => Twin!LoadRegister(e)
    BY <1>1, OperationFamily, TwinOperationFamily DEF Twin!Operate
  <2> QED BY <2>1, LoadRegisterBoth
<1>3. Logical(d) => Together(d)
  <2>1. Logical(d) => Twin!Logical(e)
    BY <1>1, OperationFamily, TwinOperationFamily DEF Twin!Operate
  <2> QED BY <2>1, LogicalBoth
<1>4. AddSubtract(d) => Together(d)
  <2>1. AddSubtract(d) => Twin!AddSubtract(e)
    BY <1>1, OperationFamily, TwinOperationFamily DEF Twin!Operate
  <2> QED BY <2>1, AddSubtractBoth
<1>5. Compare(d) => Together(d)
  <2>1. Compare(d) => Twin!Compare(e)
    BY <1>1, OperationFamily, TwinOperationFamily DEF Twin!Operate
  <2> QED BY <2>1, CompareBoth
<1>6. BitTest(d) => Together(d)
  <2>1. BitTest(d) => Twin!BitTest(e)
    BY <1>1, OperationFamily, TwinOperationFamily DEF Twin!Operate
  <2> QED BY <2>1, BitTestBoth
<1>7. StepIndex(d) => Together(d)
  <2>1. StepIndex(d) => Twin!StepIndex(e)
    BY <1>1, OperationFamily, TwinOperationFamily DEF Twin!Operate
  <2> QED BY <2>1, StepIndexBoth
<1>8. TransferRegister(d) => Together(d)
  <2>1. TransferRegister(d) => Twin!TransferRegister(e)
    BY <1>1, OperationFamily, TwinOperationFamily DEF Twin!Operate
  <2> QED BY <2>1, TransferRegisterBoth
<1>9. SetFlag(d) => Together(d)
  <2>1. SetFlag(d) => Twin!SetFlag(e)
    BY <1>1, OperationFamily, TwinOperationFamily DEF Twin!Operate
  <2> QED BY <2>1, SetFlagBoth
<1>10. NoOperation(d) => Together(d)
  <2>1. NoOperation(d) => Twin!NoOperation(e)
    BY <1>1, OperationFamily, TwinOperationFamily DEF Twin!Operate
  <2> QED BY <2>1, NoOperationBoth
<1>11. Store(d) => Together(d)
  <2>1. Store(d) => Twin!Store(e)
    BY <1>1, OperationFamily, TwinOperationFamily DEF Twin!Operate
  <2> QED BY <2>1, StoreBothAlike
<1>12. Shift(d) => Together(d)
  <2>1. Shift(d) => Twin!Shift(e)
    BY <1>1, OperationFamily, TwinOperationFamily DEF Twin!Operate
  <2> QED BY <2>1, ShiftBoth
<1>13. IncrementDecrement(d) => Together(d)
  <2>1. IncrementDecrement(d) => Twin!IncrementDecrement(e)
    BY <1>1, OperationFamily, TwinOperationFamily DEF Twin!Operate
  <2> QED BY <2>1, IncrementDecrementBoth
<1>14. WriteBit(d) => Together(d)
  <2>1. WriteBit(d) => Twin!WriteBit(e)
    BY <1>1, OperationFamily, TwinOperationFamily DEF Twin!Operate
  <2> QED BY <2>1, WriteBitBoth
<1>15. TestAndWriteBits(d) => Together(d)
  <2>1. TestAndWriteBits(d) => Twin!TestAndWriteBits(e)
    BY <1>1, OperationFamily, TwinOperationFamily DEF Twin!Operate
  <2> QED BY <2>1, TestAndWriteBitsBoth
<1>16. PushRegister(d) => Together(d)
  <2>1. PushRegister(d) => Twin!PushRegister(e)
    BY <1>1, OperationFamily, TwinOperationFamily DEF Twin!Operate
  <2> QED BY <2>1, PushRegisterBoth
<1>17. PullRegister(d) => Together(d)
  <2>1. PullRegister(d) => Twin!PullRegister(e)
    BY <1>1, OperationFamily, TwinOperationFamily DEF Twin!Operate
  <2> QED BY <2>1, PullRegisterBoth
<1>18. TransferStackPointer(d) => Together(d)
  <2>1. TransferStackPointer(d) => Twin!TransferStackPointer(e)
    BY <1>1, OperationFamily, TwinOperationFamily DEF Twin!Operate
  <2> QED BY <2>1, TransferStackPointerBoth
<1>19. Branch(d) => Together(d)
  <2>1. Branch(d) => Twin!Branch(e)
    BY <1>1, OperationFamily, TwinOperationFamily DEF Twin!Operate
  <2> QED BY <2>1, BranchBoth
<1>20. Jump(d) => Together(d)
  <2>1. Jump(d) => Twin!Jump(e)
    BY <1>1, OperationFamily, TwinOperationFamily DEF Twin!Operate
  <2> QED BY <2>1, JumpBoth
<1>21. Return(d) => Together(d)
  <2>1. Return(d) => Twin!Return(e)
    BY <1>1, OperationFamily, TwinOperationFamily DEF Twin!Operate
  <2> QED BY <2>1, ReturnBoth
<1>22. Break(d) => Together(d)
  <2>1. Break(d) => Twin!Break(e)
    BY <1>1, OperationFamily, TwinOperationFamily DEF Twin!Operate
  <2> QED BY <2>1, BreakBoth
<1>23. Halt(d) => Together(d)
  <2>1. Halt(d) => Twin!Halt(e)
    BY <1>1, OperationFamily, TwinOperationFamily DEF Twin!Operate
  <2> QED BY <2>1, HaltBoth
<1> HIDE DEF d, e, k
<1> QED BY <1>2, <1>3, <1>4, <1>5, <1>6, <1>7, <1>8, <1>9, <1>10, <1>11, <1>12, <1>13, <1>14,
           <1>15, <1>16, <1>17, <1>18, <1>19, <1>20, <1>21, <1>22, <1>23 DEF Operate, d

-----------------------------------------------------------------------------
(***************************************************************************)
(* The cells in which the two memories may differ.                         *)
(***************************************************************************)
LEMMA DepthInverse ==
    ASSUME NEW a \in PageOne
    PROVE  StackPage(Top - Depth(a)) = a
<1>1. a \in Int /\ Top \in Int
  BY StackAssumption DEF PageOne
<1>2. PICK j \in Int : (Top - a) % 256 = Top - a - 256 * j
  BY <1>1
<1>3. Top - Depth(a) = a + 256 * j
  BY <1>1, <1>2 DEF Depth
<1>4. (a + 256 * j) % 256 = a - 256
  BY <1>1 DEF PageOne
<1> QED BY <1>1, <1>3, <1>4 DEF StackPage, Wrap8

LEMMA SlotBelow ==
    ASSUME NEW p \in PageOne, NEW k \in Int
    PROVE  StackPage(Top - (Depth(p) + k)) = StackPage(p - k)
<1>1. p \in Int /\ Top \in Int
  BY StackAssumption DEF PageOne
<1>2. Depth(p) \in Int /\ Top - Depth(p) \in Int /\ -k \in Int
  BY <1>1, DepthIsByte
<1>3. StackPage(StackPage(Top - Depth(p)) + -k) = StackPage(Top - Depth(p) + -k)
  BY <1>2, StackPageOfSum
<1>4. Top - Depth(p) + -k = Top - (Depth(p) + k) /\ p + -k = p - k
  BY <1>1, <1>2
<1> QED BY <1>3, <1>4, DepthInverse

LEMMA ExemptGrows ==
    ASSUME NEW m \in Int, NEW n \in Int, m <= n, NEW a \in Exempt(n)
    PROVE  a \in Exempt(m)
<1>1. CASE a \in HandlerCells
  BY <1>1 DEF Exempt
<1>2. CASE a \notin HandlerCells
  <2>1. PICK i \in n .. Reach - 1 : a = StackPage(Top - i)
    BY <1>2 DEF Exempt
  <2>2. i \in m .. Reach - 1
    BY <2>1, StackAssumption
  <2> QED BY <2>1, <2>2 DEF Exempt
<1> QED BY <1>1, <1>2

LEMMA BelowIsExempt ==
    ASSUME NEW n \in Int, NEW a \in PageOne, n <= Depth(a), Depth(a) < Reach
    PROVE  a \in Exempt(n)
<1>1. Depth(a) \in n .. Reach - 1
  <2>1. a \in Int /\ Reach \in Int
    BY StackAssumption DEF PageOne
  <2>2. Depth(a) \in Int
    BY <2>1, DepthIsByte
  <2> QED BY <2>1, <2>2
<1> QED BY <1>1, DepthInverse DEF Exempt

\* A pull that stays in the stack's area moves the stack pointer up.
LEMMA PullDepth ==
    ASSUME NEW p \in PageOne, Depth(p) <= Reach, NEW n \in 1 .. 3,
           Depth(StackPage(p + n)) <= Reach
    PROVE  Depth(StackPage(p + n)) <= Depth(p)
<1>1. p \in Int /\ Reach \in Int /\ Reach <= 252
  BY StackAssumption DEF PageOne
<1>2. Depth(p) \in Int /\ Depth(p) \in 0 .. 255
  BY <1>1, DepthIsByte
<1>3. CASE n <= Depth(p)
  <2>1. -n \in Int /\ 0 <= Depth(p) + -n /\ Depth(p) + -n <= 255 /\ p - -n = p + n
    BY <1>1, <1>2, <1>3
  <2>2. Depth(StackPage(p - -n)) = Depth(p) + -n
    BY <1>1, <2>1, DepthMoves
  <2>3. Depth(StackPage(p + n)) = Depth(p) + -n
    BY <2>1, <2>2
  <2> QED BY <1>2, <2>3
<1>4. CASE ~(n <= Depth(p))
  <2> DEFINE m == 256 - n
  <2>1. m \in Int /\ 0 <= Depth(p) + m /\ Depth(p) + m <= 255 /\ Depth(p) + m > 252
    BY <1>2, <1>4
  <2>2. StackPage(p - m) = StackPage(p + n)
    <3>1. p - m = (p + n) - 256
      BY <1>1
    <3>2. p + n \in Int
      BY <1>1
    <3> HIDE DEF m
    <3> QED BY <3>1, <3>2 DEF StackPage, Wrap8
  <2> HIDE DEF m
  <2>3. Depth(StackPage(p - m)) = Depth(p) + m
    BY <1>1, <2>1, DepthMoves
  <2>4. Depth(StackPage(p + n)) = Depth(p) + m
    BY <2>2, <2>3
  <2> QED BY <1>1, <1>2, <2>1, <2>4
<1> QED BY <1>3, <1>4

LEMMA WriteBoth ==
    ASSUME NEW cells, Write(cells), Twin!Write(cells)
    PROVE  /\ \A a : Read(a) = Twin!Read(a) \/ a \in DOMAIN cells \ {output_addr}
                         => Read(a)' = Twin!Read(a)'
           /\ output = t_output => output' = t_output'
<1> DEFINE ram == [c \in DOMAIN cells \ {output_addr} |-> cells[c]]
<1>1. memory' = Stored(memory, ram) /\ t_memory' = Twin!Stored(t_memory, ram)
  BY DEF Write, Twin!Write
<1>2. DOMAIN ram = DOMAIN cells \ {output_addr}
  OBVIOUS
<1> HIDE DEF ram
<1>3. ASSUME NEW a PROVE Read(a)' = IF a \in DOMAIN ram THEN ram[a] ELSE Read(a)
  BY <1>1 DEF Stored, Read
<1>4. ASSUME NEW a PROVE Twin!Read(a)' = IF a \in DOMAIN ram THEN ram[a] ELSE Twin!Read(a)
  BY <1>1 DEF Twin!Stored, Twin!Read
<1>5. output = t_output => output' = t_output'
  BY DEF Write, Twin!Write
<1> QED BY <1>2, <1>3, <1>4, <1>5

LEMMA QuietMemories ==
    ASSUME Quiet, Twin!Quiet
    PROVE  /\ \A a : Read(a) = Twin!Read(a) => Read(a)' = Twin!Read(a)'
           /\ output = t_output => output' = t_output'
  BY DEF Quiet, Twin!Quiet, dataVars, Twin!dataVars, Read, Twin!Read

\* The cells that a push takes out of the exempt area are the ones it writes.
LEMMA PushCovers ==
    ASSUME sp \in PageOne, output_addr \notin PageOne, NEW bytes, Len(bytes) \in 1 .. 3,
           NEW a \in Exempt(Depth(sp)), a \notin Exempt(Depth(sp) + Len(bytes))
    PROVE  a \in DOMAIN PushCells(bytes) \ {output_addr}
<1> DEFINE n == Len(bytes)
<1>1. Depth(sp) \in Int /\ sp \in Int
  <2>1. sp \in Int
    BY DEF PageOne
  <2> QED BY <2>1, DepthIsByte
<1>2. n \in 1 .. 3
  OBVIOUS
<1> HIDE DEF n
<1>3. a \notin HandlerCells /\ a \in Exempt(Depth(sp)) /\ a \notin Exempt(Depth(sp) + n)
  BY DEF Exempt, n
<1>4. PICK i \in Depth(sp) .. Reach - 1 : a = StackPage(Top - i)
  BY <1>3 DEF Exempt
<1>5. i \notin Depth(sp) + n .. Reach - 1
  BY <1>3, <1>4 DEF Exempt
<1>6. PICK k \in Int : k = i - Depth(sp)
  BY <1>1, <1>4
<1>7. 0 <= k /\ k < n /\ i = Depth(sp) + k
  BY <1>1, <1>2, <1>4, <1>5, <1>6, StackAssumption
<1>8. a = StackPage(sp - k)
  BY <1>4, <1>7, SlotBelow
<1>9. a = PushSlot(k + 1) /\ k + 1 \in 1 .. n
  <2>1. k + 1 \in 1 .. n /\ (k + 1) - 1 = k /\ (k + 1 = 1 <=> k = 0)
    BY <1>2, <1>7
  <2>2. CASE k = 0
    <3>1. sp - k = sp
      BY <1>1, <2>2
    <3> QED BY <1>8, <2>1, <2>2, <3>1, StackPageFixes DEF PushSlot
  <2>3. CASE k # 0
    BY <1>8, <2>1, <2>3 DEF PushSlot
  <2> QED BY <2>1, <2>2, <2>3
<1>10. a \in DOMAIN PushCells(bytes)
  BY <1>9 DEF PushCells, n
<1>11. a \in PageOne
  <2>1. sp - k \in Int
    BY <1>1
  <2> QED BY <1>8, <2>1, StackPageIsPageOne
<1> QED BY <1>10, <1>11

\* Both write the same cells when they push the same bytes.
LEMMA PushCellsBoth ==
    ASSUME sp \in PageOne, sp = t_sp, NEW bytes, Len(bytes) \in 1 .. 3, Push(bytes), Twin!Push(bytes)
    PROVE  Write(PushCells(bytes)) /\ Twin!Write(PushCells(bytes))
<1> DEFINE n == Len(bytes)  cells == PushCells(bytes)  twins == Twin!PushCells(bytes)
<1>1. \A i : Twin!PushSlot(i) = PushSlot(i)
  BY SameStackPage DEF Twin!PushSlot, PushSlot
<1>2. \A i, j \in 1 .. n : PushSlot(i) = PushSlot(j) => i = j
  <2>1. PushSlot(1) = sp /\ PushSlot(2) = StackPage(sp - 1) /\ PushSlot(3) = StackPage(sp - 2)
    BY DEF PushSlot
  <2>2. /\ sp # StackPage(sp - 1) /\ sp # StackPage(sp - 2)
        /\ StackPage(sp - 1) # StackPage(sp - 2)
    BY FrameCells
  <2>3. n \in 1 .. 3
    OBVIOUS
  <2> HIDE DEF n
  <2>4. \A i, j \in {1, 2, 3} : PushSlot(i) = PushSlot(j) => i = j
    BY <2>1, <2>2
  <2>5. \A i \in 1 .. n : i \in {1, 2, 3}
    BY <2>3
  <2> QED BY <2>4, <2>5
<1>3. DOMAIN cells = {PushSlot(i) : i \in 1 .. n} /\ DOMAIN twins = {PushSlot(i) : i \in 1 .. n}
  BY <1>1 DEF PushCells, Twin!PushCells
<1>4. ASSUME NEW i \in 1 .. n
      PROVE  cells[PushSlot(i)] = twins[PushSlot(i)]
  <2>1. cells[PushSlot(i)] = bytes[CHOOSE j \in 1 .. n : PushSlot(i) = PushSlot(j)]
    BY DEF PushCells
  <2>2. twins[PushSlot(i)] = bytes[CHOOSE j \in 1 .. n : PushSlot(i) = Twin!PushSlot(j)]
    BY <1>1 DEF Twin!PushCells
  <2>3. (CHOOSE j \in 1 .. n : PushSlot(i) = PushSlot(j)) = i
    BY <1>2
  <2>4. (CHOOSE j \in 1 .. n : PushSlot(i) = Twin!PushSlot(j)) = i
    BY <1>1, <1>2
  <2> QED BY <2>1, <2>2, <2>3, <2>4
<1>5. cells = [a \in DOMAIN cells |-> cells[a]] /\ twins = [a \in DOMAIN twins |-> twins[a]]
  BY DEF PushCells, Twin!PushCells
<1> HIDE DEF cells, twins, n
<1>6. cells = twins
  BY <1>3, <1>4, <1>5
<1> QED BY <1>6 DEF Push, Twin!Push, cells, twins

\* An instruction that both execute leaves the memories in agreement.
LEMMA TogetherAgree ==
    ASSUME output_addr \notin PageOne, sp \in PageOne, sp = t_sp, Depth(sp) <= Reach,
           sp' \in Int, Depth(sp') <= Reach, Agree(Depth(sp)), output = t_output,
           NEW d, Together(d), d.op = "TXS" => Depth(sp') <= Depth(sp)
    PROVE  /\ output' = t_output'
           /\ \A a : a \notin Exempt(Depth(sp')) => Read(a)' = Twin!Read(a)'
<1>1. Depth(sp) \in Int /\ sp \in Int
  <2>1. sp \in Int
    BY DEF PageOne
  <2> QED BY <2>1, DepthIsByte
<1>2. CASE QuietBoth(d)
  <2>1. sp' = sp \/ d.op = "TXS" \/ \E n \in 1 .. 3 : sp' = StackPage(sp + n)
    BY <1>2 DEF QuietBoth
  <2>2. Depth(sp') <= Depth(sp) /\ Depth(sp') \in Int
    <3>1. CASE sp' = sp
      BY <1>1, <3>1
    <3>2. CASE d.op = "TXS"
      <4>1. Depth(sp') \in Int
        BY DepthIsByte
      <4> QED BY <3>2, <4>1
    <3>3. CASE \E n \in 1 .. 3 : sp' = StackPage(sp + n)
      <4>1. PICK n \in 1 .. 3 : sp' = StackPage(sp + n)
        BY <3>3
      <4>2. sp + n \in Int
        BY <1>1
      <4>3. StackPage(sp + n) \in Int
        BY <4>2, StackPageIsPageOne DEF PageOne
      <4> QED BY <4>1, <4>3, PullDepth, DepthIsByte
    <3> QED BY <2>1, <3>1, <3>2, <3>3
  <2>3. \A a : a \notin Exempt(Depth(sp')) => a \notin Exempt(Depth(sp))
    BY <1>1, <2>2, ExemptGrows
  <2> QED BY <1>2, <2>3, QuietMemories DEF QuietBoth, Agree
<1>3. CASE StoreBoth
  <2>1. PICK cells : Write(cells) /\ Twin!Write(cells)
    BY <1>3 DEF StoreBoth
  <2>2. Depth(sp') = Depth(sp)
    BY <1>3 DEF StoreBoth
  <2> QED BY <2>1, <2>2, WriteBoth DEF Agree
<1>4. CASE PushBoth
  <2>1. PICK bytes : Len(bytes) \in 1 .. 3 /\ Push(bytes) /\ Twin!Push(bytes)
    BY <1>4 DEF PushBoth
  <2>2. PICK cells : cells = PushCells(bytes)
    OBVIOUS
  <2>3. Write(cells) /\ Twin!Write(cells)
    BY <2>1, <2>2, PushCellsBoth
  <2>4. Depth(sp') = Depth(sp) + Len(bytes)
    BY <2>1, PushChanges
  <2>5. ASSUME NEW a, a \notin Exempt(Depth(sp'))
        PROVE  Read(a)' = Twin!Read(a)'
    <3>1. CASE a \notin Exempt(Depth(sp))
      BY <2>3, <3>1, WriteBoth DEF Agree
    <3>2. CASE a \in Exempt(Depth(sp))
      <4>1. a \in DOMAIN cells \ {output_addr}
        BY <2>1, <2>2, <2>4, <2>5, <3>2, PushCovers
      <4> QED BY <2>3, <4>1, WriteBoth
    <3> QED BY <3>1, <3>2
  <2> QED BY <2>3, <2>5, WriteBoth
<1> QED BY <1>2, <1>3, <1>4 DEF Together

\* What runs in a handler changes only cells in which the two may differ.
LEMMA HandlerKeepsAgree ==
    ASSUME output_addr \notin PageOne, sp \in PageOne, ~reset_pending, Depth(sp) <= Reach,
           sp' \in Int, Depth(sp') <= Reach, Tick, NEW n \in Int, n <= Depth(sp), Agree(n),
           \A a : Stores(a) => a \in HandlerCells \ {output_addr},
           t_memory' = t_memory
    PROVE  /\ output' = output
           /\ \A a : a \notin Exempt(n) => Read(a)' = Twin!Read(a)'
<1>1. /\ \A a : Read(a)' # Read(a) => Stores(a) \/ PushedOver(a)
      /\ output' # output => Stores(output_addr)
  BY TickChanges
<1>2. ASSUME NEW a, a \notin Exempt(n) PROVE Read(a)' = Read(a)
  <2>1. ~Stores(a)
    BY <1>2 DEF Exempt
  <2>2. ~PushedOver(a)
    <3> SUFFICES ASSUME PushedOver(a) PROVE FALSE
      OBVIOUS
    <3>1. a \in PageOne /\ Depth(sp) <= Depth(a) /\ Depth(a) < Depth(sp')
      BY DEF PushedOver
    <3>2. a \in Int /\ sp \in Int /\ Reach \in Int
      BY <3>1, StackAssumption DEF PageOne
    <3>3. Depth(a) \in Int /\ Depth(sp) \in Int /\ Depth(sp') \in Int
      BY <3>2, DepthIsByte
    <3>4. n <= Depth(a) /\ Depth(a) < Reach
      BY <3>1, <3>2, <3>3
    <3> QED BY <1>2, <3>1, <3>4, BelowIsExempt
  <2> QED BY <1>1, <2>1, <2>2
<1>3. \A a : Twin!Read(a)' = Twin!Read(a)
  BY DEF Twin!Read
<1> QED BY <1>1, <1>2, <1>3 DEF Agree

-----------------------------------------------------------------------------
(***************************************************************************)
(* The ticks.  What the invariant says of the next state, in terms of the  *)
(* values that the tick leaves.                                            *)
(***************************************************************************)
AgreeAfter(n) == \A a : a \notin Exempt(n) => Read(a)' = Twin!Read(a)'

LevelAfter == /\ reg' = t_reg' /\ reg_f' = t_reg_f' /\ sp' = t_sp' /\ pc' = t_pc'
              /\ stopped' = t_stopped' /\ waiting' = t_waiting'

SuspendedAfter(fr) ==
    /\ t_reg' = fr.reg /\ t_reg_f' = fr.status /\ t_sp' = fr.sp /\ t_pc' = fr.pc
    /\ t_waiting' = FALSE
    /\ t_stopped' \in BOOLEAN /\ (t_stopped' => stopped')
    /\ t_cycles' = 0
    /\ "U" \in fr.status
    /\ AgreeAfter(Depth(fr.sp))

InHandlerAfter   == \E i \in 1 .. Len(frames') : frames'[i].kind # "brk"
OutermostAfter(i) == frames'[i].kind # "brk" /\ \A j \in 1 .. i - 1 : frames'[j].kind = "brk"

TwinAfter ==
    /\ t_nmi_pending' = FALSE /\ t_irq_line' = FALSE
    /\ t_cycles' \in Nat /\ t_cycles' <= cycles'
    /\ output' = t_output'
    /\ ~InHandlerAfter => LevelAfter /\ AgreeAfter(Depth(sp'))
    /\ \A i \in 1 .. Len(frames') : OutermostAfter(i) => SuspendedAfter(frames'[i])

LEMMA LevelLater == Level' <=> LevelAfter
  BY DEF Level, LevelAfter

LEMMA AgreeLater == Agree(Depth(sp))' <=> AgreeAfter(Depth(sp'))
  BY DEF Agree, AgreeAfter, Exempt, Depth

LEMMA InHandlerLater == InHandler' <=> InHandlerAfter
  BY DEF InHandler, InHandlerAfter

LEMMA SuspendedLater ==
    ASSUME NEW i, OutermostAfter(i) => SuspendedAfter(frames'[i])
    PROVE  (Outermost(i) => Suspended(frames[i]))'
<1>1. PICK fr : fr = frames'[i]
  OBVIOUS
<1>2. Outermost(i)' <=> OutermostAfter(i)
  BY DEF Outermost, OutermostAfter
<1>3. SuspendedAfter(fr) => Suspended(fr)'
  BY DEF SuspendedAfter, Suspended, AgreeAfter, Agree, Exempt, Depth
<1>4. Suspended(fr)' => Suspended(frames[i])'
  BY <1>1 DEF Suspended, Agree, Exempt, Depth
<1> QED BY <1>1, <1>2, <1>3, <1>4

LEMMA TickLater ==
    ASSUME TwinAfter, FramesOK', calls_left' = calls_left,
           calls_left["reset"] = 0, calls_left["load"] = 0,
           ~reset_pending', "U" \in reg_f'
    PROVE  TwinOK'
<1>1. (~InHandler => Level /\ (~reset_pending => Agree(Depth(sp))))'
  BY LevelLater, AgreeLater, InHandlerLater DEF TwinAfter
<1>2. (\A i \in 1 .. Len(frames) : Outermost(i) => Suspended(frames[i]))'
  BY SuspendedLater DEF TwinAfter
<1> QED BY <1>1, <1>2 DEF TwinAfter, TwinOK

\* A tick that is not a reset does not restart a stopped CPU.
LEMMA StaysStopped ==
    ASSUME Tick, ~reset_pending
    PROVE  stopped => stopped'
<1>1. CASE CountDown \/ Idle
  BY <1>1 DEF CountDown, Idle, vars, cpuVars, modeVars
<1>2. CASE ServeNmi \/ ServeIrq
  BY <1>2 DEF ServeNmi, ServeIrq, Interrupt
<1>3. CASE ServeReset \/ Execute
  BY <1>3 DEF ServeReset, Execute
<1> QED BY <1>1, <1>2, <1>3 DEF Tick

LEMMA HandlerState ==
    ASSUME TwinOK, InHandler
    PROVE  /\ ~reset_pending /\ sp \in PageOne /\ Depth(sp) <= Reach
           /\ frames \in Seq(FrameType) /\ Len(frames) \in Nat /\ Len(frames) >= 1
<1>1. frames \in Seq(FrameType) /\ frames # <<>>
  BY DEF TwinOK, FramesOK, InHandler
<1>2. ~reset_pending
  BY <1>1 DEF TwinOK
<1> QED BY <1>1, <1>2 DEF TwinOK, FramesOK, WithinStack

LEMMA TickKeepsLines ==
    ASSUME Tick, ~reset_pending
    PROVE  ~reset_pending'
<1>1. CASE CountDown \/ Idle
  BY <1>1 DEF CountDown, Idle, vars, lineVars
<1>2. CASE ServeNmi \/ ServeIrq
  BY <1>2 DEF ServeNmi, ServeIrq, consume_nmi, lineVars
<1>3. CASE ServeReset \/ Execute
  BY <1>3 DEF ServeReset, Execute, lineVars
<1> QED BY <1>1, <1>2, <1>3 DEF Tick

LEMMA StackAfter ==
    ASSUME TwinOK, Clock, Behaves, ~reset_pending
    PROVE  /\ sp \in PageOne /\ sp' \in PageOne /\ sp' \in Int
           /\ Depth(sp) <= Reach /\ Depth(sp') <= Reach
           /\ Depth(sp) \in Int
<1>1. Tick
  BY DEF Clock
<1>2. sp \in PageOne /\ Depth(sp) <= Reach
  BY DEF TwinOK, FramesOK, WithinStack
<1>3. ~reset_pending'
  BY <1>1, TickKeepsLines
<1>4. Depth(sp') <= Reach
  BY <1>3 DEF Behaves, WithinStack, Depth
<1>5. sp' \in PageOne
  BY <1>1, <1>2, TickKeepsStack DEF StackKept, TwinOK, FramesOK
<1>6. sp' \in Int
  BY <1>5 DEF PageOne
<1>7. sp \in Int
  BY <1>2 DEF PageOne
<1>8. Depth(sp) \in Int
  BY <1>7, DepthIsByte
<1> QED BY <1>2, <1>4, <1>5, <1>6, <1>8

\* While a handler runs, the twin stays where the program was interrupted.
LEMMA StaysSuspended ==
    ASSUME TwinOK, output_addr \notin PageOne, Clock, Behaves, Apart, InHandler,
           NEW i \in 1 .. Len(frames), Outermost(i),
           UNCHANGED <<t_memory, t_reg, t_reg_f, t_sp, t_pc, t_stopped>>,
           t_waiting' = t_waiting \/ t_waiting' = FALSE,
           t_cycles > 0 \/ t_cycles' = t_cycles
    PROVE  SuspendedAfter(frames[i])
<1>1. PICK fr : fr = frames[i]
  OBVIOUS
<1>2. Suspended(fr) /\ fr \in FrameType /\ Depth(fr.sp) + 3 <= Depth(sp)
  BY <1>1, FramesAreAbove DEF TwinOK
<1>3. ~reset_pending /\ Tick
  BY HandlerState DEF Clock
<1>4. PICK n : n = Depth(fr.sp)
  OBVIOUS
<1>5. n \in Int /\ n <= Depth(sp)
  <2>1. Depth(fr.sp) \in Int
    BY <1>2, FrameStack
  <2>2. Depth(sp) \in Int
    BY <1>3, StackAfter
  <2> QED BY <1>2, <1>4, <2>1, <2>2
<1>6. Agree(n)
  BY <1>2, <1>4 DEF Suspended
<1>7. \A a : Stores(a) => a \in HandlerCells \ {output_addr}
  BY DEF Apart, Stores
<1>8. AgreeAfter(n)
  BY <1>3, <1>5, <1>6, <1>7, StackAfter, HandlerKeepsAgree DEF AgreeAfter
<1>9. t_stopped' \in BOOLEAN /\ (t_stopped' => stopped')
  BY <1>2, <1>3, StaysStopped DEF Suspended
<1>10. t_cycles' = 0 /\ t_waiting' = FALSE
  BY <1>2 DEF Suspended
<1>11. SuspendedAfter(fr)
  BY <1>2, <1>4, <1>8, <1>9, <1>10 DEF SuspendedAfter, Suspended
<1> QED BY <1>1, <1>11

\* A handler prints nothing.
LEMMA HandlerPrintsNothing ==
    ASSUME TwinOK, output_addr \notin PageOne, Clock, Apart, InHandler
    PROVE  output' = output
<1>1. ~reset_pending /\ sp \in PageOne /\ Depth(sp) <= Reach /\ Tick
  BY HandlerState DEF Clock
<1>2. output' # output => Stores(output_addr)
  BY <1>1, TickChanges
<1>3. ~Stores(output_addr)
  BY DEF Apart, Stores
<1> QED BY <1>2, <1>3

-----------------------------------------------------------------------------
\* How the frames move.
LEMMA FrontFrames ==
    ASSUME frames \in Seq(FrameType), frames # <<>>, frames' = SubSeq(frames, 1, Len(frames) - 1)
    PROVE  Len(frames') = Len(frames) - 1 /\ \A i \in 1 .. Len(frames) - 1 : frames'[i] = frames[i]
<1> DEFINE n == Len(frames)
<1>1. n \in Nat /\ n >= 1 /\ \A i \in 1 .. n - 1 : frames[i] \in FrameType
  OBVIOUS
<1>2. frames' = SubSeq(frames, 1, n - 1) /\ 1 \in Int /\ n - 1 \in Int
  BY <1>1
<1> HIDE DEF n
<1>3. /\ Len(SubSeq(frames, 1, n - 1)) = IF 1 <= n - 1 THEN n - 1 - 1 + 1 ELSE 0
      /\ \A i \in 1 .. n - 1 - 1 + 1 : SubSeq(frames, 1, n - 1)[i] = frames[1 + i - 1]
  BY <1>1, <1>2, SubSeqProperties
<1>4. Len(SubSeq(frames, 1, n - 1)) = n - 1 /\ n - 1 - 1 + 1 = n - 1
  BY <1>1, <1>3
<1>5. \A i \in 1 .. n - 1 : 1 + i - 1 = i
  OBVIOUS
<1> QED BY <1>2, <1>3, <1>4, <1>5 DEF n

LEMMA MoreFrames ==
    ASSUME frames \in Seq(FrameType), NEW fr \in FrameType, frames' = Append(frames, fr)
    PROVE  /\ Len(frames) \in Nat
           /\ Len(frames') = Len(frames) + 1 /\ frames'[Len(frames) + 1] = fr
           /\ \A i \in 1 .. Len(frames) : frames'[i] = frames[i]
  OBVIOUS

\* A handler under a new frame still runs, and the outermost one stays.
LEMMA NestedFrames ==
    ASSUME frames \in Seq(FrameType), NEW fr \in FrameType, frames' = Append(frames, fr), InHandler
    PROVE  /\ InHandlerAfter
           /\ \A i \in 1 .. Len(frames') : OutermostAfter(i) =>
                  i \in 1 .. Len(frames) /\ Outermost(i) /\ frames'[i] = frames[i]
<1> DEFINE n == Len(frames)
<1>1. /\ n \in Nat /\ Len(frames') = n + 1
      /\ \A i \in 1 .. n : frames'[i] = frames[i]
  BY MoreFrames
<1>2. PICK j \in 1 .. n : frames[j].kind # "brk"
  BY DEF InHandler
<1> HIDE DEF n
<1>3. InHandlerAfter
  <2>1. j \in 1 .. n + 1
    BY <1>1, <1>2
  <2> QED BY <1>1, <1>2, <2>1 DEF InHandlerAfter
<1>4. ASSUME NEW i \in 1 .. n + 1, OutermostAfter(i)
      PROVE  i \in 1 .. n /\ Outermost(i) /\ frames'[i] = frames[i]
  <2>1. i # n + 1
    <3> SUFFICES ASSUME i = n + 1 PROVE FALSE
      OBVIOUS
    <3>1. j \in 1 .. i - 1
      BY <1>1, <1>2
    <3> QED BY <1>1, <1>2, <1>4, <3>1 DEF OutermostAfter
  <2>2. i \in 1 .. n
    BY <1>1, <2>1
  <2>3. \A k \in 1 .. i - 1 : k \in 1 .. n
    BY <1>1, <2>2
  <2>4. Outermost(i)
    BY <1>1, <1>4, <2>2, <2>3 DEF OutermostAfter, Outermost
  <2> QED BY <1>1, <2>2, <2>4
<1> QED BY <1>1, <1>3, <1>4 DEF n

LEMMA SameFrames ==
    ASSUME frames' = frames
    PROVE  /\ InHandlerAfter <=> InHandler
           /\ \A i \in 1 .. Len(frames') : OutermostAfter(i) =>
                  i \in 1 .. Len(frames) /\ Outermost(i) /\ frames'[i] = frames[i]
  BY DEF InHandlerAfter, InHandler, OutermostAfter, Outermost

\* A return to a handler leaves its frames as they are.
LEMMA FewerFrames ==
    ASSUME frames \in Seq(FrameType), frames # <<>>, frames' = SubSeq(frames, 1, Len(frames) - 1)
    PROVE  \A i \in 1 .. Len(frames') : OutermostAfter(i) =>
                  i \in 1 .. Len(frames) /\ Outermost(i) /\ frames'[i] = frames[i]
<1> DEFINE n == Len(frames)
<1>1. Len(frames') = n - 1 /\ n \in Nat /\ \A i \in 1 .. n - 1 : frames'[i] = frames[i]
  BY FrontFrames
<1> HIDE DEF n
<1>2. ASSUME NEW i \in 1 .. n - 1, OutermostAfter(i)
      PROVE  i \in 1 .. n /\ Outermost(i) /\ frames'[i] = frames[i]
  <2>1. i \in 1 .. n /\ \A k \in 1 .. i - 1 : k \in 1 .. n - 1
    BY <1>1
  <2> QED BY <1>1, <1>2, <2>1 DEF OutermostAfter, Outermost
<1> QED BY <1>1, <1>2 DEF n

\* The program's own BRK and RTI enter and leave no handler of a signal.
LEMMA ProgramFrames ==
    ASSUME frames \in Seq(FrameType), ~InHandler,
           \/ frames' = frames
           \/ \E fr \in FrameType : fr.kind = "brk" /\ frames' = Append(frames, fr)
           \/ frames # <<>> /\ frames' = SubSeq(frames, 1, Len(frames) - 1)
    PROVE  ~InHandlerAfter /\ \A i \in 1 .. Len(frames') : ~OutermostAfter(i)
<1> DEFINE n == Len(frames)
<1>1. n \in Nat /\ \A i \in 1 .. n : frames[i].kind = "brk"
  BY DEF InHandler
<1>2. \A i \in 1 .. Len(frames') : frames'[i].kind = "brk"
  <2>1. CASE frames' = frames
    BY <1>1, <2>1
  <2>2. CASE \E fr \in FrameType : fr.kind = "brk" /\ frames' = Append(frames, fr)
    <3>1. PICK fr \in FrameType : fr.kind = "brk" /\ frames' = Append(frames, fr)
      BY <2>2
    <3>2. /\ Len(frames') = n + 1 /\ frames'[n + 1] = fr
          /\ \A i \in 1 .. n : frames'[i] = frames[i]
      BY <3>1, MoreFrames
    <3> HIDE DEF n
    <3>3. \A i \in 1 .. n + 1 : i \in 1 .. n \/ i = n + 1
      BY <1>1
    <3> QED BY <1>1, <3>1, <3>2, <3>3
  <2>3. CASE frames # <<>> /\ frames' = SubSeq(frames, 1, Len(frames) - 1)
    <3>1. Len(frames') = n - 1 /\ \A i \in 1 .. n - 1 : frames'[i] = frames[i]
      BY <2>3, FrontFrames
    <3> HIDE DEF n
    <3>2. \A i \in 1 .. n - 1 : i \in 1 .. n
      BY <1>1
    <3> QED BY <1>1, <3>1, <3>2
  <2> QED BY <2>1, <2>2, <2>3
<1> QED BY <1>2 DEF InHandlerAfter, OutermostAfter

-----------------------------------------------------------------------------
(***************************************************************************)
(* Each kind of tick keeps the invariant.                                  *)
(***************************************************************************)
TwinRests == UNCHANGED <<t_nmi_pending, t_irq_line, t_memory, t_output, t_reg, t_reg_f, t_sp, t_pc,
                         t_stopped>>

LEMMA ResetAfter ==
    ASSUME TwinOK, Remember, ServeReset, Twin!ServeReset
    PROVE  TwinAfter
<1>1. frames' = <<>>
  BY Remembers DEF ServeReset
<1>2. Len(frames') = 0
  BY <1>1
<1>3. \A a : Read(a) = Twin!Read(a)
  BY DEF TwinOK, ServeReset
<1>4. Twin!Read16(ResetVector) = Read16(ResetVector) /\ Twin!ResetVector = ResetVector
  BY <1>3, SameWords DEF Twin!Read16, Read16, Twin!ResetVector, ResetVector
<1>5. LevelAfter
  BY <1>4 DEF ServeReset, Twin!ServeReset, LevelAfter
<1>6. Quiet /\ Twin!Quiet /\ output = t_output
  BY DEF ServeReset, Twin!ServeReset, TwinOK
<1>7. AgreeAfter(Depth(sp')) /\ output' = t_output'
  BY <1>3, <1>6, QuietMemories DEF AgreeAfter
<1>8. t_cycles' = 0 /\ cycles' = 0
  BY DEF ServeReset, Twin!ServeReset
<1>9. t_nmi_pending' = FALSE /\ t_irq_line' = FALSE
  BY DEF Twin!ServeReset, Twin!consume_reset, TwinOK
<1> QED BY <1>2, <1>5, <1>7, <1>8, <1>9 DEF TwinAfter

\* A tick in a handler after which a handler still runs.
LEMMA HandlerTick ==
    ASSUME TwinOK, output_addr \notin PageOne, Clock, Behaves, Apart, InHandler, TwinRests,
           t_waiting' = t_waiting \/ t_waiting' = FALSE, t_cycles > 0 \/ t_cycles' = t_cycles,
           t_cycles' \in Nat, t_cycles' <= cycles', InHandlerAfter,
           \A i \in 1 .. Len(frames') : OutermostAfter(i) =>
               i \in 1 .. Len(frames) /\ Outermost(i) /\ frames'[i] = frames[i]
    PROVE  TwinAfter
<1>1. output' = t_output'
  BY HandlerPrintsNothing DEF TwinRests, TwinOK
<1>2. ASSUME NEW i \in 1 .. Len(frames'), OutermostAfter(i)
      PROVE  SuspendedAfter(frames'[i])
  <2>1. i \in 1 .. Len(frames) /\ Outermost(i) /\ frames'[i] = frames[i]
    BY <1>2
  <2>2. SuspendedAfter(frames[i])
    BY <2>1, StaysSuspended DEF TwinRests
  <2> QED BY <2>1, <2>2
<1>3. t_nmi_pending' = FALSE /\ t_irq_line' = FALSE
  BY DEF TwinRests, TwinOK
<1> QED BY <1>1, <1>2, <1>3 DEF TwinAfter

LEMMA CountDownAfter ==
    ASSUME TwinOK, output_addr \notin PageOne, Clock, Behaves, Apart, Remember, CountDown,
           IF t_cycles > 0 THEN Twin!CountDown ELSE UNCHANGED <<twinRest, twinModes>>
    PROVE  TwinAfter
<1>1. ~reset_pending /\ cycles > 0 /\ cycles' = cycles - 1
  BY DEF CountDown
<1>2. cycles \in 0 .. 7 /\ t_cycles \in Nat /\ t_cycles <= cycles
  BY DEF TwinOK, FramesOK, StateOK, CyclesOK
<1>3. frames' = frames
  <2>1. ~Boundary
    BY <1>1 DEF Boundary
  <2>2. ~NmiEntry /\ ~IrqEntry /\ ~BrkEntry /\ ~Executes({"RTI"})
    BY <2>1, Zenon DEF NmiEntry, IrqEntry, BrkEntry, Executes, NoInterrupt
  <2> QED BY <1>1, <2>2, Remembers
<1>4. TwinRests /\ t_waiting' = t_waiting
  <2>1. CASE t_cycles > 0
    <3>1. /\ UNCHANGED Twin!lineVars /\ UNCHANGED Twin!dataVars /\ UNCHANGED Twin!modeVars
          /\ UNCHANGED <<t_reg, t_reg_f, t_sp, t_pc>>
      BY <2>1 DEF Twin!CountDown
    <3> QED BY <3>1 DEF TwinRests, Twin!lineVars, Twin!dataVars, Twin!modeVars
  <2>2. CASE ~(t_cycles > 0)
    BY <2>2 DEF TwinRests, twinRest, twinModes
  <2> QED BY <2>1, <2>2
<1>5. \/ t_cycles > 0 /\ t_cycles' = t_cycles - 1
      \/ t_cycles = 0 /\ t_cycles' = t_cycles
  <2>1. t_cycles > 0 => t_cycles' = t_cycles - 1
    BY DEF Twin!CountDown
  <2>2. ~(t_cycles > 0) => t_cycles' = t_cycles
    BY DEF twinRest
  <2>3. t_cycles \in Nat => t_cycles > 0 \/ t_cycles = 0
    OBVIOUS
  <2> QED BY <1>2, <2>1, <2>2, <2>3, Zenon
<1>6. t_cycles' \in Nat /\ t_cycles' <= cycles'
  BY <1>1, <1>2, <1>5
<1>7. CASE InHandler
  BY <1>3, <1>4, <1>5, <1>6, <1>7, SameFrames, HandlerTick
<1>8. CASE ~InHandler
  <2>1. Level /\ Agree(Depth(sp)) /\ output = t_output
    BY <1>1, <1>8 DEF TwinOK
  <2>2. /\ reg' = reg /\ reg_f' = reg_f /\ sp' = sp /\ pc' = pc /\ stopped' = stopped
        /\ waiting' = waiting /\ memory' = memory /\ output' = output
    BY DEF CountDown, modeVars, dataVars
  <2>3. LevelAfter /\ output' = t_output'
    BY <1>4, <2>1, <2>2 DEF Level, LevelAfter, TwinRests
  <2>4. AgreeAfter(Depth(sp'))
    BY <1>4, <2>1, <2>2 DEF Agree, AgreeAfter, Read, Twin!Read, TwinRests
  <2>5. t_nmi_pending' = FALSE /\ t_irq_line' = FALSE
    BY <1>4 DEF TwinRests, TwinOK
  <2>6. \A i \in 1 .. Len(frames') : ~OutermostAfter(i)
    BY <1>3, <1>8 DEF OutermostAfter, InHandler
  <2> QED BY <1>6, <2>3, <2>4, <2>5, <2>6 DEF TwinAfter
<1> QED BY <1>7, <1>8

LEMMA IdleAfter ==
    ASSUME TwinOK, output_addr \notin PageOne, Clock, Behaves, Apart, Remember, Idle,
           UNCHANGED <<twinRest, twinModes>>
    PROVE  TwinAfter
<1>1. NoInterrupt /\ (stopped \/ waiting) /\ UNCHANGED vars /\ ~reset_pending
  BY DEF Idle, NoInterrupt, Boundary
<1>2. frames' = frames
  <2>1. ~NmiEntry /\ ~IrqEntry /\ ~BrkEntry /\ ~Executes({"RTI"})
    BY <1>1, Zenon DEF NmiEntry, IrqEntry, BrkEntry, Executes, NoInterrupt
  <2> QED BY <1>1, <2>1, Remembers
<1>3. TwinRests /\ t_waiting' = t_waiting /\ t_cycles' = t_cycles
  BY DEF TwinRests, twinRest, twinModes
<1>4. /\ reg' = reg /\ reg_f' = reg_f /\ sp' = sp /\ pc' = pc /\ stopped' = stopped
      /\ waiting' = waiting /\ memory' = memory /\ output' = output /\ cycles' = cycles
  BY <1>1 DEF vars, cpuVars, modeVars, dataVars
<1>5. t_cycles' \in Nat /\ t_cycles' <= cycles'
  BY <1>3, <1>4 DEF TwinOK
<1>6. CASE InHandler
  BY <1>2, <1>3, <1>5, <1>6, SameFrames, HandlerTick
<1>7. CASE ~InHandler
  <2>1. Level /\ Agree(Depth(sp)) /\ output = t_output
    BY <1>1, <1>7 DEF TwinOK
  <2>2. LevelAfter /\ output' = t_output'
    BY <1>3, <1>4, <2>1 DEF Level, LevelAfter, TwinRests
  <2>3. AgreeAfter(Depth(sp'))
    BY <1>3, <1>4, <2>1 DEF Agree, AgreeAfter, Read, Twin!Read, TwinRests
  <2>4. t_nmi_pending' = FALSE /\ t_irq_line' = FALSE
    BY <1>3 DEF TwinRests, TwinOK
  <2>5. \A i \in 1 .. Len(frames') : ~OutermostAfter(i)
    BY <1>2, <1>7 DEF OutermostAfter, InHandler
  <2> QED BY <1>5, <2>2, <2>3, <2>4, <2>5 DEF TwinAfter
<1> QED BY <1>6, <1>7

\* The frame that an NMI or an IRQ adds.
LEMMA SignalFrame ==
    ASSUME TwinOK, Remember, ServeNmi \/ ServeIrq
    PROVE  \E fr \in FrameType :
               /\ frames' = Append(frames, fr) /\ fr.kind # "brk"
               /\ fr.sp = sp /\ fr.reg = reg /\ fr.status = reg_f /\ fr.pc = pc
<1>1. ~reset_pending /\ (NmiEntry \/ IrqEntry)
  BY DEF ServeNmi, ServeIrq, NmiEntry, IrqEntry, Boundary
<1>2. reg_f \in SUBSET Settable /\ pc \in Word /\ reg \in [{"a", "x", "y"} -> Byte] /\ sp \in PageOne
  BY <1>1 DEF TwinOK, FramesOK, StateOK, RegistersOK, AddressesOK
<1>3. ASSUME NEW k \in {"nmi", "irq"}
      PROVE  [kind |-> k, pc |-> pc, status |-> reg_f, sp |-> sp, reg |-> reg] \in FrameType
  BY <1>2 DEF FrameType
<1>4. PICK k \in {"nmi", "irq"} :
          frames' = Append(frames, [kind |-> k, pc |-> pc, status |-> reg_f, sp |-> sp, reg |-> reg])
  BY <1>1, Remembers
<1> QED BY <1>3, <1>4

LEMMA SignalAfter ==
    ASSUME TwinOK, output_addr \notin PageOne, Clock, Behaves, Apart, Remember, StateOK',
           ServeNmi \/ ServeIrq, t_waiting' = FALSE, UNCHANGED <<twinRest, t_stopped>>
    PROVE  TwinAfter
<1>1. PICK fr \in FrameType :
          /\ frames' = Append(frames, fr) /\ fr.kind # "brk"
          /\ fr.sp = sp /\ fr.reg = reg /\ fr.status = reg_f /\ fr.pc = pc
  BY SignalFrame
<1>2. /\ frames \in Seq(FrameType) /\ Len(frames) \in Nat
      /\ Len(frames') = Len(frames) + 1 /\ frames'[Len(frames) + 1] = fr
      /\ \A i \in 1 .. Len(frames) : frames'[i] = frames[i]
  <2>1. frames \in Seq(FrameType)
    BY DEF TwinOK, FramesOK
  <2> QED BY <1>1, <2>1, MoreFrames
<1>3. ~reset_pending /\ cycles = 0 /\ Tick
  BY DEF ServeNmi, ServeIrq, Boundary, Clock
<1>4. TwinRests /\ t_cycles' = t_cycles
  BY DEF TwinRests, twinRest
<1>5. t_cycles = 0
  BY <1>3 DEF TwinOK
<1>6. t_cycles' \in Nat /\ t_cycles' <= cycles'
  <2>1. cycles' \in 0 .. 7
    BY DEF StateOK, CyclesOK
  <2> QED BY <1>4, <1>5, <2>1
<1>7. CASE InHandler
  BY <1>1, <1>2, <1>4, <1>6, <1>7, NestedFrames, HandlerTick
<1>8. CASE ~InHandler
  <2>1. Level /\ Agree(Depth(sp)) /\ output = t_output
    BY <1>3, <1>8 DEF TwinOK
  <2>2. \A a : ~Stores(a)
    <3>1. ~NoInterrupt
      BY Zenon DEF ServeNmi, ServeIrq, NoInterrupt
    <3> QED BY <3>1 DEF Stores, Executes
  <2>3. t_memory' = t_memory
    BY <1>4 DEF TwinRests
  <2>4. PICK n : n = Depth(sp)
    OBVIOUS
  <2>5. n \in Int /\ n <= Depth(sp) /\ Agree(n)
    BY <1>3, <2>1, <2>4, StackAfter
  <2>6. output' = output /\ AgreeAfter(n)
    BY <1>3, <2>2, <2>3, <2>5, StackAfter, HandlerKeepsAgree DEF AgreeAfter
  <2>7. stopped \in BOOLEAN /\ stopped' = stopped
    BY DEF TwinOK, FramesOK, StateOK, ModesOK, ServeNmi, ServeIrq, Interrupt
  <2>8. SuspendedAfter(fr)
    <3>1. AgreeAfter(Depth(fr.sp))
      BY <1>1, <2>4, <2>6
    <3>2. "U" \in fr.status
      BY <1>1, <1>3 DEF TwinOK
    <3> QED BY <1>1, <1>4, <1>5, <2>1, <2>7, <3>1, <3>2 DEF SuspendedAfter, Level, TwinRests
  <2>9. ASSUME NEW i \in 1 .. Len(frames'), OutermostAfter(i)
        PROVE  SuspendedAfter(frames'[i])
    <3>1. CASE i \in 1 .. Len(frames)
      BY <1>2, <1>8, <2>9, <3>1 DEF OutermostAfter, InHandler
    <3>2. CASE i = Len(frames) + 1
      BY <1>2, <2>8, <3>2
    <3> QED BY <1>2, <3>1, <3>2
  <2>10. InHandlerAfter
    <3>1. Len(frames) + 1 \in 1 .. Len(frames')
      BY <1>2
    <3> QED BY <1>1, <1>2, <3>1 DEF InHandlerAfter
  <2>11. t_nmi_pending' = FALSE /\ t_irq_line' = FALSE /\ output' = t_output'
    BY <1>4, <2>1, <2>6 DEF TwinRests, TwinOK
  <2> QED BY <1>6, <2>9, <2>10, <2>11 DEF TwinAfter
<1> QED BY <1>7, <1>8

\* Which frame an instruction adds or drops.
LEMMA ExecuteFrames ==
    ASSUME StateOK, sp \in PageOne, Behaves, Remember, Execute
    PROVE  \/ frames' = frames
           \/ \E fr \in FrameType : fr.kind = "brk" /\ frames' = Append(frames, fr)
           \/ /\ Executes({"RTI"})
              /\ frames # <<>> /\ frames' = SubSeq(frames, 1, Len(frames) - 1)
<1>1. NoInterrupt
  BY ExecutesDecoded
<1>2. ~reset_pending /\ ~NmiEntry /\ ~IrqEntry
  BY <1>1, Zenon DEF NoInterrupt, Boundary, NmiEntry, IrqEntry
<1>3. CASE BrkEntry
  <2>1. frames' = Append(frames, [kind |-> "brk", pc |-> Wrap16(pc + 3), status |-> reg_f,
                                  sp |-> sp, reg |-> reg])
    BY <1>3, Remembers
  <2>2. /\ reg_f \in SUBSET Settable /\ Wrap16(pc + 3) \in Word
        /\ reg \in [{"a", "x", "y"} -> Byte]
    BY WrapsAreWords DEF StateOK, RegistersOK, AddressesOK, Word
  <2>3. [kind |-> "brk", pc |-> Wrap16(pc + 3), status |-> reg_f, sp |-> sp, reg |-> reg]
            \in FrameType
    BY <2>2 DEF FrameType
  <2> QED BY <2>1, <2>3
<1>4. CASE Executes({"RTI"})
  BY <1>4, Remembers DEF Behaves
<1>5. CASE ~BrkEntry /\ ~Executes({"RTI"})
  BY <1>2, <1>5, Remembers
<1> QED BY <1>3, <1>4, <1>5

\* An instruction of the program, which both execute.
LEMMA ProgramAfter ==
    ASSUME TwinOK, output_addr \notin PageOne, Clock, Behaves, Apart, Remember, StateOK',
           Execute, ~InHandler, Twin!Execute
    PROVE  TwinAfter
<1>1. /\ Operate(Decoded) /\ NoInterrupt /\ ~stopped /\ ~waiting
      /\ \A ops : Executes(ops) <=> Decoded.op \in ops
  BY ExecutesDecoded
<1>2. ~reset_pending /\ Executing
  BY <1>1 DEF NoInterrupt, Boundary, Executing
<1>3. Level /\ Agree(Depth(sp)) /\ output = t_output /\ StateOK
  BY <1>2 DEF TwinOK, FramesOK
<1>4. Sees
  BY <1>2, <1>3, ReadsAgree DEF Apart
<1>5. Twin!Operate(Twin!Decoded)
  BY Zenon DEF Twin!Execute
<1>6. Together(Decoded)
  BY <1>1, <1>3, <1>4, <1>5, DecodedAlike, OperateBoth
<1>7. PICK d : d = Decoded
  OBVIOUS
<1>8. Together(d) /\ (d.op = "TXS" => Depth(sp') <= Depth(sp))
  BY <1>1, <1>6, <1>7 DEF Apart
<1>9. output' = t_output' /\ AgreeAfter(Depth(sp'))
  BY <1>2, <1>3, <1>8, StackAfter, TogetherAgree DEF Level, AgreeAfter
<1>10. LevelAfter /\ t_cycles' = cycles'
  BY <1>8 DEF Together, SameRegisters, SameClock, LevelAfter
<1>11. t_cycles' \in Nat /\ t_cycles' <= cycles'
  BY <1>10 DEF StateOK, CyclesOK
<1>12. t_nmi_pending' = FALSE /\ t_irq_line' = FALSE
  BY DEF Twin!Execute, Twin!lineVars, TwinOK
<1>13. frames \in Seq(FrameType)
  BY DEF TwinOK, FramesOK
<1>14. \/ frames' = frames
       \/ \E fr \in FrameType : fr.kind = "brk" /\ frames' = Append(frames, fr)
       \/ frames # <<>> /\ frames' = SubSeq(frames, 1, Len(frames) - 1)
  BY <1>2, <1>3, StackAfter, ExecuteFrames
<1>15. ~InHandlerAfter /\ \A i \in 1 .. Len(frames') : ~OutermostAfter(i)
  BY <1>13, <1>14, ProgramFrames
<1> QED BY <1>9, <1>10, <1>11, <1>12, <1>15 DEF TwinAfter

\* The return of the handler that interrupted the program itself.
LEMMA ReturnAfter ==
    ASSUME TwinOK, output_addr \notin PageOne, Clock, Behaves, Apart, Remember, FramesNext,
           Execute, Executes({"RTI"}), InHandler, UNCHANGED <<twinRest, twinModes>>, StateOK',
           frames' = SubSeq(frames, 1, Len(frames) - 1), ~InHandlerAfter
    PROVE  TwinAfter
<1> DEFINE n == Len(frames)
<1>1. /\ n \in Nat /\ n >= 1 /\ frames \in Seq(FrameType) /\ ~reset_pending /\ FramesOK
  BY HandlerState DEF TwinOK
<1>2. Len(frames') = n - 1 /\ \A i \in 1 .. n - 1 : frames'[i] = frames[i]
  BY <1>1, FrontFrames
<1>3. PICK y : y = frames[n]
  OBVIOUS
<1>4. TwinRests /\ t_waiting' = t_waiting /\ t_cycles' = t_cycles
  BY DEF TwinRests, twinRest, twinModes
<1>5. \A i \in 1 .. n - 1 : frames[i].kind = "brk"
  BY <1>2 DEF InHandlerAfter
<1>6. Youngest = y
  BY <1>3 DEF Youngest
<1> HIDE DEF n
<1>7. Outermost(n) /\ n \in 1 .. Len(frames)
  <2>1. PICK j \in 1 .. n : frames[j].kind # "brk"
    BY DEF InHandler, n
  <2>2. j = n
    BY <1>1, <1>5, <2>1
  <2>3. n \in 1 .. Len(frames)
    BY <1>1 DEF n
  <2> QED BY <1>5, <2>1, <2>2, <2>3 DEF Outermost
<1>8. SuspendedAfter(y)
  BY <1>3, <1>4, <1>7, StaysSuspended DEF TwinRests
<1>9. y.kind # "brk" /\ Suspended(y)
  BY <1>3, <1>7 DEF Outermost, TwinOK
<1>10. pc' = y.pc /\ reg_f' = y.status \cup {"U"} /\ sp' = y.sp
  BY <1>1, <1>6, ReturningKeepsFrames
<1>11. reg = y.reg
  BY <1>6, <1>9 DEF Apart
<1>12. Return(Decoded) /\ ~stopped /\ ~waiting
  BY ExecutesDecoded, OperationsOf
<1>13. reg' = reg /\ stopped' = stopped /\ waiting' = waiting
  BY <1>12 DEF Return, modeVars
<1>14. stopped' \in BOOLEAN /\ waiting' \in BOOLEAN
  BY DEF StateOK, ModesOK
<1>15. stopped' = t_stopped' /\ waiting' = t_waiting'
  BY <1>8, <1>12, <1>13, <1>14 DEF SuspendedAfter
<1>16. reg_f' = y.status
  BY <1>8, <1>10 DEF SuspendedAfter
<1>17. LevelAfter
  BY <1>8, <1>10, <1>11, <1>13, <1>15, <1>16 DEF LevelAfter, SuspendedAfter
<1>18. AgreeAfter(Depth(sp'))
  BY <1>8, <1>10 DEF SuspendedAfter
<1>19. output' = t_output' /\ t_nmi_pending' = FALSE /\ t_irq_line' = FALSE
  BY <1>4, HandlerPrintsNothing DEF TwinRests, TwinOK
<1>20. t_cycles' = 0 /\ cycles' \in 0 .. 7
  BY <1>8 DEF SuspendedAfter, StateOK, CyclesOK
<1>21. \A i \in 1 .. Len(frames') : ~OutermostAfter(i)
  BY DEF InHandlerAfter, OutermostAfter
<1>22. t_cycles' \in Nat /\ t_cycles' <= cycles'
  BY <1>20
<1> QED BY <1>17, <1>18, <1>19, <1>21, <1>22 DEF TwinAfter

\* An instruction of a handler, at which the twin stands still.
LEMMA HandlerAfter ==
    ASSUME TwinOK, output_addr \notin PageOne, Clock, Behaves, Apart, Remember, FramesNext, StateOK',
           Execute, InHandler, UNCHANGED <<twinRest, twinModes>>
    PROVE  TwinAfter
<1>1. /\ Operate(Decoded) /\ NoInterrupt /\ ~stopped /\ ~waiting
      /\ \A ops : Executes(ops) <=> Decoded.op \in ops
  BY ExecutesDecoded
<1>2. ~reset_pending /\ cycles = 0 /\ frames \in Seq(FrameType) /\ StateOK
  BY <1>1 DEF NoInterrupt, Boundary, TwinOK, FramesOK
<1>3. TwinRests /\ t_waiting' = t_waiting /\ t_cycles' = t_cycles
  BY DEF TwinRests, twinRest, twinModes
<1>4. t_cycles' \in Nat /\ t_cycles' <= cycles'
  <2>1. cycles' \in 0 .. 7 /\ t_cycles \in Nat /\ t_cycles <= 0
    BY <1>2 DEF StateOK, CyclesOK, TwinOK
  <2> QED BY <1>3, <2>1
<1>5. \/ frames' = frames
      \/ \E fr \in FrameType : fr.kind = "brk" /\ frames' = Append(frames, fr)
      \/ /\ Executes({"RTI"}) /\ frames # <<>> /\ frames' = SubSeq(frames, 1, Len(frames) - 1)
  BY <1>2, StackAfter, ExecuteFrames
<1>6. CASE frames' = frames
  BY <1>3, <1>4, <1>6, SameFrames, HandlerTick
<1>7. CASE \E fr \in FrameType : fr.kind = "brk" /\ frames' = Append(frames, fr)
  BY <1>2, <1>3, <1>4, <1>7, NestedFrames, HandlerTick
<1>8. CASE Executes({"RTI"}) /\ frames # <<>> /\ frames' = SubSeq(frames, 1, Len(frames) - 1)
  <2>1. CASE InHandlerAfter
    BY <1>2, <1>3, <1>4, <1>8, <2>1, FewerFrames, HandlerTick
  <2>2. CASE ~InHandlerAfter
    BY <1>8, <2>2, ReturnAfter
  <2> QED BY <2>1, <2>2
<1> QED BY <1>5, <1>6, <1>7, <1>8

-----------------------------------------------------------------------------
(***************************************************************************)
(* The invariant is inductive.                                             *)
(***************************************************************************)
LEMMA TwinStart ==
    ASSUME \A s \in Setups : s.reset /\ s.calls["reset"] = 0 /\ s.calls["load"] = 0, TwinInit
    PROVE  TwinOK
<1>1. FramesInit /\ Init /\ CpuInit /\ Twin!CpuInit /\ frames = <<>>
  BY DEF TwinInit, FramesInit, Init
<1>2. FramesOK
  BY <1>1, FramesStart
<1>3. reset_pending /\ calls_left["reset"] = 0 /\ calls_left["load"] = 0
  BY <1>1 DEF Init
<1>4. /\ t_nmi_pending = FALSE /\ t_irq_line = FALSE /\ t_memory = memory /\ t_output = output
  BY DEF TwinInit
<1>5. cycles = 0 /\ t_cycles = 0 /\ Level
  BY <1>1 DEF CpuInit, Twin!CpuInit, Level
<1>6. \A a : Read(a) = Twin!Read(a)
  BY <1>4 DEF Read, Twin!Read
<1>7. 1 .. Len(frames) = {}
  BY <1>1
<1> QED BY <1>1, <1>2, <1>3, <1>4, <1>5, <1>6, <1>7 DEF TwinOK

\* Nothing moves but the lines of the machine.
LEMMA TwinUnmoved ==
    ASSUME TwinOK, FramesOK', calls_left'["reset"] = 0, calls_left'["load"] = 0,
           UNCHANGED <<reset_pending, memory, output, reg, reg_f, sp, pc, cycles, stopped, waiting,
                       frames>>,
           UNCHANGED <<twinRest, twinModes>>
    PROVE  TwinOK'
<1>1. /\ t_nmi_pending' = t_nmi_pending /\ t_irq_line' = t_irq_line /\ t_memory' = t_memory
      /\ t_output' = t_output /\ t_reg' = t_reg /\ t_reg_f' = t_reg_f /\ t_sp' = t_sp
      /\ t_pc' = t_pc /\ t_cycles' = t_cycles /\ t_stopped' = t_stopped /\ t_waiting' = t_waiting
  BY DEF twinRest, twinModes
<1>2. \A a : Read(a)' = Read(a) /\ Twin!Read(a)' = Twin!Read(a)
  BY <1>1 DEF Read, Twin!Read
<1>3. /\ t_nmi_pending' = FALSE /\ t_irq_line' = FALSE
      /\ t_cycles' \in Nat /\ t_cycles' <= cycles' /\ output' = t_output'
  BY <1>1 DEF TwinOK
<1>4. (reset_pending => frames = <<>> /\ \A a : Read(a) = Twin!Read(a))'
  BY <1>2 DEF TwinOK
<1>5. (~reset_pending => "U" \in reg_f)'
  BY DEF TwinOK
<1>6. (~InHandler => Level /\ (~reset_pending => Agree(Depth(sp))))'
  <2>1. InHandler' <=> InHandler
    BY DEF InHandler
  <2>2. Level => Level'
    BY <1>1 DEF Level
  <2>3. Agree(Depth(sp)) => Agree(Depth(sp))'
    BY <1>2 DEF Agree, Exempt, Depth
  <2> QED BY <2>1, <2>2, <2>3 DEF TwinOK
<1>7. (\A i \in 1 .. Len(frames) : Outermost(i) => Suspended(frames[i]))'
  <2> SUFFICES ASSUME NEW i \in 1 .. Len(frames), Outermost(i)'
               PROVE  Suspended(frames[i])'
    OBVIOUS
  <2>1. PICK fr : fr = frames[i]
    OBVIOUS
  <2>2. Suspended(fr)
    <3>1. Outermost(i)
      BY DEF Outermost
    <3> QED BY <2>1, <3>1 DEF TwinOK
  <2>3. Suspended(fr)'
    BY <1>1, <1>2, <2>2 DEF Suspended, Agree, Exempt, Depth
  <2> QED BY <2>1, <2>3 DEF Suspended, Agree, Exempt, Depth
<1> QED BY <1>3, <1>4, <1>5, <1>6, <1>7 DEF TwinOK

\* The host moves lines only: it may neither reset nor load any more.
LEMMA HostMovesLines ==
    ASSUME CallsOK, calls_left["reset"] = 0, calls_left["load"] = 0, Host
    PROVE  /\ calls_left'["reset"] = 0 /\ calls_left'["load"] = 0
           /\ UNCHANGED <<reset_pending, dataVars, cpuVars>>
<1>1. ASSUME NEW c \in {"nmi", "irq", "clear_irq"}, HostCalls(c)
      PROVE  calls_left'["reset"] = 0 /\ calls_left'["load"] = 0 /\ UNCHANGED cpuVars
  BY <1>1 DEF HostCalls, CallsOK, Call
<1>2. ~HostCalls("reset") /\ ~HostCalls("load")
  BY DEF HostCalls
<1>3. \/ HostCalls("nmi") /\ Nmi
      \/ HostCalls("irq") /\ Irq
      \/ HostCalls("clear_irq") /\ ClearIrq
  BY <1>2 DEF Host
<1> QED BY <1>1, <1>3 DEF Nmi, Irq, ClearIrq

LEMMA FollowTicks == Follow => Tick
  BY DEF Follow, Tick

LEMMA ClockAfter ==
    ASSUME TwinOK, output_addr \notin PageOne, Follow, Clock, Behaves, Apart, Remember, FramesNext,
           StateOK'
    PROVE  TwinAfter
<1>1. CASE ServeReset /\ Twin!ServeReset
  BY <1>1, ResetAfter
<1>2. CASE CountDown /\ IF t_cycles > 0 THEN Twin!CountDown ELSE UNCHANGED <<twinRest, twinModes>>
  BY <1>2, CountDownAfter
<1>3. CASE (ServeNmi \/ ServeIrq) /\ t_waiting' = FALSE /\ UNCHANGED <<twinRest, t_stopped>>
  BY <1>3, SignalAfter
<1>4. CASE Idle /\ UNCHANGED <<twinRest, twinModes>>
  BY <1>4, IdleAfter
<1>5. CASE Execute /\ IF InHandler THEN UNCHANGED <<twinRest, twinModes>> ELSE Twin!Execute
  <2>1. CASE InHandler
    BY <1>5, <2>1, HandlerAfter
  <2>2. CASE ~InHandler
    BY <1>5, <2>2, ProgramAfter
  <2> QED BY <2>1, <2>2
<1> QED BY <1>1, <1>2, <1>3, <1>4, <1>5 DEF Follow

LEMMA TwinStepOK ==
    ASSUME output_addr \notin PageOne
    PROVE  TwinOK /\ [TwinClock \/ TwinHost]_twinVars /\ [Behaves /\ Apart]_twinVars => TwinOK'
<1> SUFFICES ASSUME TwinOK, [TwinClock \/ TwinHost]_twinVars, [Behaves /\ Apart]_twinVars
             PROVE  TwinOK'
  OBVIOUS
<1>1. FramesOK /\ CallsOK /\ calls_left["reset"] = 0 /\ calls_left["load"] = 0
  BY DEF TwinOK, FramesOK
<1>2. CASE UNCHANGED twinVars
  <2>1. UNCHANGED allVars /\ UNCHANGED <<twinRest, twinModes>>
    BY <1>2 DEF twinVars
  <2>2. FramesOK'
    BY <1>1, <2>1, FramesNextOK
  <2>3. /\ UNCHANGED <<reset_pending, memory, output, reg, reg_f, sp, pc, cycles, stopped, waiting,
                       frames>>
        /\ calls_left' = calls_left
    BY <2>1 DEF allVars, machineVars, vars, lineVars, dataVars, cpuVars, modeVars
  <2> QED BY <1>1, <2>1, <2>2, <2>3, TwinUnmoved
<1>3. CASE TwinHost /\ Behaves
  <2>1. FramesHost /\ UNCHANGED <<twinRest, twinModes>>
    BY <1>3 DEF TwinHost
  <2>2. FramesOK'
    BY <1>1, <1>3, <2>1, FramesNextOK DEF FramesNext
  <2>3. Host /\ frames' = frames
    BY <2>1 DEF FramesHost
  <2>4. /\ calls_left'["reset"] = 0 /\ calls_left'["load"] = 0
        /\ UNCHANGED <<reset_pending, memory, output, reg, reg_f, sp, pc, cycles, stopped, waiting>>
    BY <1>1, <2>3, HostMovesLines DEF dataVars, cpuVars, modeVars
  <2> QED BY <2>1, <2>2, <2>3, <2>4, TwinUnmoved
<1>4. CASE TwinClock /\ Behaves /\ Apart
  <2>1. Follow /\ Remember /\ calls_left' = calls_left
    BY <1>4 DEF TwinClock
  <2>2. Tick /\ Clock /\ FramesNext /\ Next
    BY <2>1, FollowTicks DEF Clock, FramesNext, FramesClock, Next
  <2>3. FramesOK' /\ StateOK'
    <3>1. FramesOK'
      BY <1>1, <1>4, <2>2, FramesNextOK
    <3> QED BY <3>1 DEF FramesOK
  <2>4. TwinAfter
    BY <1>4, <2>1, <2>2, <2>3, ClockAfter
  <2>5. ~reset_pending' /\ "U" \in reg_f'
    <3>1. CASE reset_pending
      <4>1. ServeReset
        BY <2>2, <3>1, Zenon DEF Tick, ServeReset, CountDown, ServeNmi, ServeIrq, Idle, Execute,
                                 NoInterrupt, Boundary
      <4> QED BY <4>1 DEF ServeReset, consume_reset
    <3>2. CASE ~reset_pending
      <4>1. "U" \in reg_f
        BY <3>2 DEF TwinOK
      <4>2. "U" \in reg_f'
        BY <2>2, <4>1, NextSwitchesModes
      <4> QED BY <2>2, <3>2, <4>2, TickKeepsLines
    <3> QED BY <3>1, <3>2
  <2> QED BY <1>1, <2>1, <2>3, <2>4, <2>5, TickLater
<1> QED BY <1>2, <1>3, <1>4

-----------------------------------------------------------------------------
\* What the theorems ask of the host: it asserts reset before it clocks the CPU,
\* and later it neither resets nor loads; the console is not on the stack.
LEMMA TwinAlwaysOK ==
    ASSUME \A s \in Setups : s.reset /\ s.calls["reset"] = 0 /\ s.calls["load"] = 0,
           output_addr \notin PageOne
    PROVE  TwinSpec /\ ProgramsBehave => []TwinOK
  BY TwinStart, TwinStepOK, PTL DEF TwinSpec, ProgramsBehave

LEMMA LevelIsTransparent == TwinOK => Transparent
<1> SUFFICES ASSUME TwinOK, ~InHandler
             PROVE  /\ <<reg, reg_f, sp, pc, stopped, waiting>>
                           = <<t_reg, t_reg_f, t_sp, t_pc, t_stopped, t_waiting>>
                    /\ output = t_output
                    /\ \A a : a \notin HandlerCells \cup BelowStack => Read(a) = Twin!Read(a)
  BY DEF Transparent
<1>1. Level /\ output = t_output
  BY DEF TwinOK
<1>2. reset_pending \/ Agree(Depth(sp))
  BY DEF TwinOK
<1>3. HandlerCells \cup BelowStack = Exempt(Depth(sp))
  BY DEF Exempt, BelowStack
<1>4. \A a : a \notin Exempt(Depth(sp)) => Read(a) = Twin!Read(a)
  BY <1>2 DEF TwinOK, Agree
<1> QED BY <1>1, <1>3, <1>4 DEF Level

\* Interrupts leave no trace.  Whatever NMIs and IRQs come, at whichever ticks, and
\* however their handlers nest: when none of them runs, the registers, the flags,
\* the stack pointer, the pc, the RAM that the program uses and the console are
\* those of a CPU that was never interrupted.
THEOREM InterruptsLeaveNoTrace ==
    ASSUME \A s \in Setups : s.reset /\ s.calls["reset"] = 0 /\ s.calls["load"] = 0,
           output_addr \notin PageOne
    PROVE  TwinSpec /\ ProgramsBehave => []Transparent
  BY TwinAlwaysOK, LevelIsTransparent, PTL

\* The twin does not hold the machine up: whenever the program executes, the twin
\* is at the start of an instruction too, at the same pc, and neither stopped nor waiting.
THEOREM TwinIsReady ==
    ASSUME \A s \in Setups : s.reset /\ s.calls["reset"] = 0 /\ s.calls["load"] = 0,
           output_addr \notin PageOne
    PROVE  TwinSpec /\ ProgramsBehave =>
               [](Executing /\ ~InHandler =>
                      Twin!NoInterrupt /\ ~t_stopped /\ ~t_waiting /\ t_pc = pc)
<1>1. TwinOK => (Executing /\ ~InHandler =>
                     Twin!NoInterrupt /\ ~t_stopped /\ ~t_waiting /\ t_pc = pc)
  <2> SUFFICES ASSUME TwinOK, Executing, ~InHandler
               PROVE  Twin!NoInterrupt /\ ~t_stopped /\ ~t_waiting /\ t_pc = pc
    OBVIOUS
  <2>1. ~reset_pending /\ cycles = 0 /\ ~stopped /\ ~waiting
    BY DEF Executing, NoInterrupt, Boundary
  <2>2. t_cycles = 0 /\ t_nmi_pending = FALSE /\ t_irq_line = FALSE
    BY <2>1 DEF TwinOK
  <2>3. t_stopped = stopped /\ t_waiting = waiting /\ t_pc = pc
    BY DEF TwinOK, Level
  <2> QED BY <2>1, <2>2, <2>3 DEF Twin!NoInterrupt, Twin!Boundary, Twin!IrqEnabled
<1> QED BY <1>1, TwinAlwaysOK, PTL
===============================================================================
