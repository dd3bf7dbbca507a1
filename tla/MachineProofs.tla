---------------------------- MODULE MachineProofs ----------------------------
(***************************************************************************)
(* The safety of the machine, for every program, host and console: type    *)
(* correctness, the B flag, the stack page, and the refinement of the      *)
(* control contract.                                                       *)
(*                                                                         *)
(* The inductive invariant is StateOK.  It strengthens TypeOK by what an   *)
(* instruction needs from its predecessors: without reg_f \subseteq        *)
(* Settable an interrupt would push, and an addition keep, a stray B.      *)
(***************************************************************************)
EXTENDS Machine, OperatorProofs

MemoryOK == /\ DOMAIN memory \subseteq Word
            /\ memory \in [DOMAIN memory -> Byte]
            /\ output \in Seq(Byte)

RegistersOK == reg \in [{"a", "x", "y"} -> Byte] /\ reg_f \subseteq Settable

AddressesOK == sp \in Word /\ pc \in Word /\ addr_abs \in Word /\ addr_rel \in Word

CyclesOK == cycles \in 0 .. 7

LinesOK == reset_pending \in BOOLEAN /\ nmi_pending \in BOOLEAN /\ irq_line \in BOOLEAN

ModesOK == stopped \in BOOLEAN /\ waiting \in BOOLEAN

StateOK == /\ MemoryOK
           /\ RegistersOK
           /\ AddressesOK
           /\ opcode \in Byte
           /\ CyclesOK
           /\ LinesOK
           /\ ModesOK
           /\ model \in Models

-----------------------------------------------------------------------------
(***************************************************************************)
(* The bus: a read returns a byte, and writes of bytes keep RAM and        *)
(* console well formed.                                                    *)
(***************************************************************************)
LEMMA ReadIsByte == MemoryOK => \A a : Read(a) \in Byte
  BY DEF MemoryOK, Read, Byte

LEMMA Read16IsWord == MemoryOK => \A a : Read16(a) \in Word
  BY ReadIsByte, PairsAreWords DEF Read16

LEMMA WriteKeepsMemory ==
    ASSUME NEW cells, DOMAIN cells \subseteq Word, \A a \in DOMAIN cells : cells[a] \in Byte,
           MemoryOK, Write(cells)
    PROVE  MemoryOK'
<1> DEFINE stored == [a \in DOMAIN cells \ {output_addr} |-> cells[a]]
<1>1. memory' = [a \in DOMAIN memory \cup DOMAIN stored |->
                    IF a \in DOMAIN stored THEN stored[a] ELSE memory[a]]
  BY DEF Write, Stored
<1>2. DOMAIN memory' \subseteq Word
  BY <1>1 DEF MemoryOK
<1>3. memory' \in [DOMAIN memory' -> Byte]
  BY <1>1 DEF MemoryOK
<1>4. output' \in Seq(Byte)
  BY DEF Write, MemoryOK
<1> QED
  BY <1>2, <1>3, <1>4 DEF MemoryOK

LEMMA QuietKeepsMemory == MemoryOK /\ Quiet => MemoryOK'
  BY DEF MemoryOK, Quiet, dataVars

-----------------------------------------------------------------------------
(***************************************************************************)
(* The stack.                                                              *)
(***************************************************************************)
PageOne == 256 .. 511

LEMMA StackPageIsPageOne ==
    ASSUME NEW n \in Int
    PROVE  StackPage(n) \in PageOne
  BY DEF StackPage, Wrap8, PageOne

LEMMA PageOneIsWord == PageOne \subseteq Word
  BY DEF PageOne, Word

\* What an instruction does to sp: nothing, or it leaves it in page one.
StackKept == sp' = sp \/ sp' \in PageOne

LEMMA PushOK ==
    ASSUME NEW bytes \in Seq(Byte), MemoryOK, sp \in Word, Push(bytes)
    PROVE  MemoryOK' /\ StackKept
<1>1. \A i \in 1 .. Len(bytes) : PushSlot(i) \in Word
  <2> SUFFICES ASSUME NEW i \in 1 .. Len(bytes) PROVE PushSlot(i) \in Word
    OBVIOUS
  <2>1. sp - (i - 1) \in Int
    BY DEF Word
  <2>2. StackPage(sp - (i - 1)) \in Word
    BY <2>1, StackPageIsPageOne, PageOneIsWord
  <2> QED
    BY <2>2 DEF PushSlot
<1>2. DOMAIN PushCells(bytes) \subseteq Word
  BY <1>1 DEF PushCells
<1>3. ASSUME NEW a \in DOMAIN PushCells(bytes)
      PROVE  PushCells(bytes)[a] \in Byte
  <2>1. \E i \in 1 .. Len(bytes) : a = PushSlot(i)
    BY DEF PushCells
  <2>2. PushCells(bytes)[a] = bytes[CHOOSE i \in 1 .. Len(bytes) : a = PushSlot(i)]
    BY DEF PushCells
  <2> DEFINE j == CHOOSE i \in 1 .. Len(bytes) : a = PushSlot(i)
  <2>3. j \in 1 .. Len(bytes)
    BY <2>1
  <2> HIDE DEF j
  <2>4. bytes[j] \in Byte
    BY <2>3
  <2> QED
    BY <2>2, <2>4 DEF j
<1>4. MemoryOK'
  BY <1>2, <1>3, WriteKeepsMemory DEF Push
<1>5. StackKept
  BY StackPageIsPageOne DEF Push, StackKept, Word
<1> QED
  BY <1>4, <1>5

LEMMA PullOK ==
    ASSUME NEW n \in Nat, MemoryOK, sp \in Word, Pull(n)
    PROVE  MemoryOK' /\ StackKept
  BY QuietKeepsMemory, StackPageIsPageOne DEF Pull, StackKept, Word

-----------------------------------------------------------------------------
(***************************************************************************)
(* Decoding: what an operation is handed.                                  *)
(***************************************************************************)
LEMMA ReadsAreWords ==
    MemoryOK => \A a : Read(a) \in Nat /\ Read(a) < 256 /\ Read(a) \in Word
  BY ReadIsByte DEF Byte, Word

LEMMA EffectiveAddressOK ==
    ASSUME NEW mode \in Mode, StateOK
    PROVE  EffectiveAddress(mode) \in Word
<1>1. reg["x"] \in Int /\ reg["y"] \in Int
  BY DEF StateOK, RegistersOK, Byte
<1>2. Arg \in Int /\ Arg \in Word /\ Arg16 \in Int /\ Arg16 \in Word
  BY ReadsAreWords, Read16IsWord DEF StateOK, Arg, Arg16, Word
<1>3. \A z : ZeroPage16(z) \in Word /\ ZeroPage16(z) \in Int
  BY ReadIsByte, PairsAreWords DEF StateOK, ZeroPage16, Word
<1>4. Base(mode) \in Int
  BY <1>2, <1>3 DEF Base
<1>5. Wrap16(pc + 1) \in Word
  BY WrapsAreWords DEF StateOK, AddressesOK, Word
<1>6. /\ Wrap8(Arg + reg["x"]) \in Word /\ Wrap8(Arg + reg["y"]) \in Word
      /\ Wrap16(Base(mode) + reg["x"]) \in Word /\ Wrap16(Base(mode) + reg["y"]) \in Word
  BY <1>1, <1>2, <1>4, WrapsAreWords
<1>7. \A ptr : Indirect(ptr) \in Word
  BY ReadIsByte, PairsAreWords, Read16IsWord DEF StateOK, Indirect
<1>8. Read16(Wrap16(Arg16 + reg["x"])) \in Word
  BY Read16IsWord DEF StateOK
<1>9. addr_abs \in Word
  BY DEF StateOK, AddressesOK
<1> QED
  BY <1>2, <1>3, <1>5, <1>6, <1>7, <1>8, <1>9 DEF EffectiveAddress

LEMMA RelativeOffsetOK ==
    ASSUME NEW mode \in Mode, StateOK
    PROVE  RelativeOffset(mode) \in Word
<1>1. SignExtend(Arg) \in Word /\ SignExtend(Read(Wrap16(pc + 2))) \in Word
  BY ReadIsByte, OffsetsAreWords DEF StateOK, Arg
<1> QED
  BY <1>1 DEF RelativeOffset, StateOK, AddressesOK

DecodedOK(d) ==
    /\ d.cycles \in 1 .. 8
    /\ d.op \in Penalised => d.cycles <= 6
    /\ d.next \in Word
    /\ d.at \in Word
    /\ d.offset \in Word
    /\ d.extra1 \in {0, 1}
    /\ d.value \in Byte

LEMMA DecodeOK ==
    ASSUME StateOK
    PROVE  DecodedOK(Decoded)
<1> DEFINE inst == table[model][Read(pc)]
           mode == inst.mode
<1>1. EntryOK(inst)
  BY ReadIsByte, TablesOK DEF StateOK
<1> HIDE DEF inst
<1>2. mode \in Mode
  BY <1>1 DEF EntryOK
<1>3. Wrap16(pc + Length(mode)) \in Word
  <2>1. Length(mode) \in Int
    BY DEF Length
  <2>2. pc + Length(mode) \in Int
    BY <2>1 DEF StateOK, AddressesOK, Word
  <2> QED
    BY <2>2, WrapsAreWords
<1>4. EffectiveAddress(mode) \in Word
  BY <1>2, EffectiveAddressOK
<1>5. RelativeOffset(mode) \in Word
  BY <1>2, RelativeOffsetOK
<1>6. PageCross(mode) \in {0, 1}
  BY DEF PageCross
<1>7. (IF mode \in {"imp", "acc"} THEN reg["a"] ELSE Read(EffectiveAddress(mode))) \in Byte
  BY ReadIsByte DEF StateOK, RegistersOK
<1> HIDE DEF mode
<1> QED
  BY <1>1, <1>3, <1>4, <1>5, <1>6, <1>7 DEF Decoded, DecodedOK, EntryOK, inst, mode

-----------------------------------------------------------------------------
(***************************************************************************)
(* What every instruction but the halting ones keeps.                      *)
(***************************************************************************)
Effect == MemoryOK' /\ RegistersOK' /\ StackKept
Flow   == pc' \in Word /\ CyclesOK'
Obeyed == Effect /\ Flow /\ UNCHANGED modeVars

LEMMA SpendOK ==
    ASSUME NEW n \in 0 .. 8, Spend(n)
    PROVE  CyclesOK'
  BY DEF Spend, CyclesOK

LEMMA RetireOK ==
    ASSUME NEW d, DecodedOK(d), NEW extra \in 0 .. 2, extra = 0 \/ d.op \in Penalised,
           Retire(d, extra)
    PROVE  Flow
<1>1. d.cycles + extra \in 0 .. 8
  BY DEF DecodedOK
<1> QED
  BY <1>1, SpendOK DEF Retire, DecodedOK, Flow

LEMMA SetRegisterOK ==
    ASSUME NEW r \in {"a", "x", "y"}, NEW v \in Byte, NEW F, F \subseteq Settable, StateOK,
           SetRegister(r, v, F)
    PROVE  Effect /\ UNCHANGED modeVars
<1>1. RegistersOK'
  BY DEF SetRegister, StateOK, RegistersOK
<1> QED
  BY <1>1, QuietKeepsMemory DEF SetRegister, StateOK, Effect, StackKept

LEMMA SetStatusOK ==
    ASSUME NEW F, F \subseteq Settable, StateOK, SetStatus(F)
    PROVE  Effect /\ UNCHANGED modeVars
<1>1. RegistersOK'
  BY DEF SetStatus, StateOK, RegistersOK
<1> QED
  BY <1>1, QuietKeepsMemory DEF SetStatus, StateOK, Effect, StackKept

LEMMA StoreToOK ==
    ASSUME NEW a \in Word, NEW v \in Byte, NEW F, F \subseteq Settable, StateOK,
           StoreTo(a, v, F)
    PROVE  Effect /\ UNCHANGED modeVars
<1>1. RegistersOK'
  BY DEF StoreTo, StateOK, RegistersOK
<1>2. MemoryOK'
  <2> DEFINE cells == [c \in {a} |-> v]
  <2>1. DOMAIN cells \subseteq Word /\ \A c \in DOMAIN cells : cells[c] \in Byte
    OBVIOUS
  <2>2. Write(cells) /\ MemoryOK
    BY DEF StoreTo, StateOK
  <2> HIDE DEF cells
  <2> QED
    BY <2>1, <2>2, WriteKeepsMemory
<1> QED
  BY <1>1, <1>2 DEF StoreTo, Effect, StackKept

LEMMA ModifyOK ==
    ASSUME NEW d, DecodedOK(d), NEW v \in Byte, NEW F, F \subseteq Settable, StateOK,
           Modify(d, v, F)
    PROVE  Effect /\ UNCHANGED modeVars
  BY SetRegisterOK, StoreToOK DEF Modify, DecodedOK

-----------------------------------------------------------------------------
(***************************************************************************)
(* The instructions that work on the registers.                            *)
(***************************************************************************)
LEMMA LoadRegisterOK ==
    ASSUME NEW d, DecodedOK(d), StateOK, LoadRegister(d)
    PROVE  Obeyed
<1>1. PICK r \in DOMAIN LoadOp :
          /\ d.op = LoadOp[r]
          /\ SetRegister(r, d.value, SetZN(reg_f, d.value))
          /\ Retire(d, d.extra1)
  BY DEF LoadRegister
<1>2. r \in {"a", "x", "y"} /\ d.op \in Penalised
  BY <1>1 DEF LoadOp, Penalised
<1>3. Effect /\ UNCHANGED modeVars
  BY <1>1, <1>2, SetZNIsSettable, SetRegisterOK DEF StateOK, RegistersOK, DecodedOK
<1>4. Flow
  BY <1>1, <1>2, RetireOK DEF DecodedOK
<1> QED
  BY <1>3, <1>4 DEF Obeyed

LEMMA LogicalOK ==
    ASSUME NEW d, DecodedOK(d), StateOK, Logical(d)
    PROVE  Obeyed
<1> DEFINE v == CASE d.op = "AND" -> BitAnd(reg["a"], d.value)
                  [] d.op = "ORA" -> BitOr(reg["a"], d.value)
                  [] d.op = "EOR" -> BitXor(reg["a"], d.value)
<1>1. d.op \in {"AND", "ORA", "EOR"} /\ SetRegister("a", v, SetZN(reg_f, v))
      /\ Retire(d, d.extra1)
  BY DEF Logical
<1>2. v \in Byte
  BY <1>1, BitwiseIsByte, Zenon
<1>3. d.op \in Penalised
  BY <1>1 DEF Penalised
<1> HIDE DEF v
<1>4. Effect /\ UNCHANGED modeVars
  BY <1>1, <1>2, SetZNIsSettable, SetRegisterOK DEF StateOK, RegistersOK
<1>5. Flow
  BY <1>1, <1>3, RetireOK DEF DecodedOK
<1> QED
  BY <1>4, <1>5 DEF Obeyed

LEMMA AddSubtractOK ==
    ASSUME NEW d, DecodedOK(d), StateOK, AddSubtract(d)
    PROVE  Obeyed
<1> DEFINE r == IF d.op = "ADC" THEN Adc(model, reg_f, reg["a"], d.value)
                                ELSE Sbc(model, reg_f, reg["a"], d.value)
<1>1. d.op \in {"ADC", "SBC"} /\ SetRegister("a", r.value, r.flags)
      /\ Retire(d, d.extra1 + r.cycles)
  BY DEF AddSubtract
<1>2. ResultOK(r)
  BY ArithmeticOK DEF StateOK, RegistersOK, DecodedOK
<1>3. d.op \in Penalised
  BY <1>1 DEF Penalised
<1> HIDE DEF r
<1>4. Effect /\ UNCHANGED modeVars
  BY <1>1, <1>2, SetRegisterOK DEF ResultOK
<1>5. Flow
  <2>1. d.extra1 + r.cycles \in 0 .. 2
    BY <1>2 DEF DecodedOK, ResultOK
  <2> QED
    BY <1>1, <1>3, <2>1, RetireOK
<1> QED
  BY <1>4, <1>5 DEF Obeyed

LEMMA CompareOK ==
    ASSUME NEW d, DecodedOK(d), StateOK, Compare(d)
    PROVE  Obeyed
<1>1. PICK r \in DOMAIN CompareOp :
          /\ d.op = CompareOp[r]
          /\ SetStatus(CompareFlags(reg_f, reg[r], d.value))
          /\ Retire(d, d.extra1)
  BY DEF Compare
<1>2. d.op \in Penalised
  BY <1>1 DEF CompareOp, Penalised
<1>3. Effect /\ UNCHANGED modeVars
  BY <1>1, CompareIsSettable, SetStatusOK DEF StateOK, RegistersOK
<1>4. Flow
  BY <1>1, <1>2, RetireOK DEF DecodedOK
<1> QED
  BY <1>3, <1>4 DEF Obeyed

LEMMA BitTestOK ==
    ASSUME NEW d, DecodedOK(d), StateOK, BitTest(d)
    PROVE  Obeyed
<1> DEFINE Z  == [Z |-> (BitAnd(reg["a"], d.value) = 0)]
           NV == [N |-> 7 \in Bits(d.value), V |-> 6 \in Bits(d.value)]
           F  == IF d.mode = "imm" THEN reg_f ELSE Assign(reg_f, NV)
<1>1. SetStatus(Assign(F, Z)) /\ Retire(d, 0)
  BY DEF BitTest
<1>2. DOMAIN Z \subseteq Settable /\ DOMAIN NV \subseteq Settable
  BY DEF Settable, Flag
<1> HIDE DEF Z, NV
<1>3. F \subseteq Settable
  BY <1>2, AssignIsSettable DEF StateOK, RegistersOK
<1> HIDE DEF F
<1>4. Effect /\ UNCHANGED modeVars
  BY <1>1, <1>2, <1>3, AssignIsSettable, SetStatusOK
<1>5. Flow
  BY <1>1, RetireOK
<1> QED
  BY <1>4, <1>5 DEF Obeyed

LEMMA StepIndexOK ==
    ASSUME NEW d, DecodedOK(d), StateOK, StepIndex(d)
    PROVE  Obeyed
<1>1. PICK r \in {"x", "y"} :
          LET v == Wrap8(IF d.op = IncOp[r] THEN reg[r] + 1 ELSE reg[r] - 1)
          IN  SetRegister(r, v, SetZN(reg_f, v)) /\ Retire(d, 0)
  BY DEF StepIndex
<1> DEFINE v == Wrap8(IF d.op = IncOp[r] THEN reg[r] + 1 ELSE reg[r] - 1)
<1>2. v \in Byte
  <2>1. (IF d.op = IncOp[r] THEN reg[r] + 1 ELSE reg[r] - 1) \in Int
    BY DEF StateOK, RegistersOK, Byte
  <2> QED
    BY <2>1, WrapsAreWords
<1>3. SetRegister(r, v, SetZN(reg_f, v)) /\ Retire(d, 0)
  BY <1>1
<1> HIDE DEF v
<1>4. Effect /\ UNCHANGED modeVars
  BY <1>2, <1>3, SetZNIsSettable, SetRegisterOK DEF StateOK, RegistersOK
<1>5. Flow
  BY <1>3, RetireOK
<1> QED
  BY <1>4, <1>5 DEF Obeyed

LEMMA TransferRegisterOK ==
    ASSUME NEW d, DecodedOK(d), StateOK, TransferRegister(d)
    PROVE  Obeyed
<1> DEFINE from == Transfer[d.op][1]
           to   == Transfer[d.op][2]
<1>1. d.op \in DOMAIN Transfer /\ SetRegister(to, reg[from], SetZN(reg_f, reg[from]))
      /\ Retire(d, 0)
  BY DEF TransferRegister
<1>2. from \in {"a", "x", "y"} /\ to \in {"a", "x", "y"}
  BY <1>1 DEF Transfer
<1> HIDE DEF from, to
<1>3. reg[from] \in Byte
  BY <1>2 DEF StateOK, RegistersOK
<1>4. Effect /\ UNCHANGED modeVars
  BY <1>1, <1>2, <1>3, SetZNIsSettable, SetRegisterOK DEF StateOK, RegistersOK
<1>5. Flow
  BY <1>1, RetireOK
<1> QED
  BY <1>4, <1>5 DEF Obeyed

LEMMA SetFlagOK ==
    ASSUME NEW d, DecodedOK(d), StateOK, SetFlag(d)
    PROVE  Obeyed
<1> DEFINE g == [f \in {FlagOp[d.op]} |-> d.op \in {"SEC", "SED", "SEI"}]
<1>1. d.op \in DOMAIN FlagOp /\ SetStatus(Assign(reg_f, g)) /\ Retire(d, 0)
  BY DEF SetFlag
<1>2. FlagOp[d.op] \in Settable
  BY <1>1 DEF FlagOp, Settable, Flag
<1>3. DOMAIN g \subseteq Settable
  BY <1>2
<1> HIDE DEF g
<1>4. Effect /\ UNCHANGED modeVars
  BY <1>1, <1>3, AssignIsSettable, SetStatusOK DEF StateOK, RegistersOK
<1>5. Flow
  BY <1>1, RetireOK
<1> QED
  BY <1>4, <1>5 DEF Obeyed

LEMMA NoOperationOK ==
    ASSUME NEW d, DecodedOK(d), StateOK, NoOperation(d)
    PROVE  Obeyed
  BY SetStatusOK, RetireOK DEF NoOperation, StateOK, RegistersOK, Obeyed

-----------------------------------------------------------------------------
(***************************************************************************)
(* The instructions that write memory, and the stack instructions.         *)
(***************************************************************************)
LEMMA StoreOK ==
    ASSUME NEW d, DecodedOK(d), StateOK, Store(d)
    PROVE  Obeyed
<1>1. d.op \in DOMAIN StoreOp /\ StoreTo(d.at, StoreOp[d.op], reg_f) /\ Retire(d, 0)
  BY DEF Store
<1>2. StoreOp[d.op] \in Byte
  BY <1>1 DEF StoreOp, StateOK, RegistersOK, Byte
<1>3. Effect /\ UNCHANGED modeVars
  BY <1>1, <1>2, StoreToOK DEF DecodedOK, StateOK, RegistersOK
<1>4. Flow
  BY <1>1, RetireOK
<1> QED
  BY <1>3, <1>4 DEF Obeyed

LEMMA ShiftOK ==
    ASSUME NEW d, DecodedOK(d), StateOK, Shift(d)
    PROVE  Obeyed
<1> DEFINE r == ShiftResult(d.op, reg_f, d.value)
<1>1. d.op \in {"ASL", "LSR", "ROL", "ROR"} /\ Modify(d, r.value, r.flags) /\ Retire(d, 0)
  BY DEF Shift
<1>2. r.value \in Byte /\ r.flags \subseteq Settable
  BY <1>1, ShiftsOK DEF DecodedOK, StateOK, RegistersOK
<1> HIDE DEF r
<1>3. Effect /\ UNCHANGED modeVars
  BY <1>1, <1>2, ModifyOK
<1>4. Flow
  BY <1>1, RetireOK
<1> QED
  BY <1>3, <1>4 DEF Obeyed

LEMMA IncrementDecrementOK ==
    ASSUME NEW d, DecodedOK(d), StateOK, IncrementDecrement(d)
    PROVE  Obeyed
<1> DEFINE v == Wrap8(IF d.op = "INC" THEN d.value + 1 ELSE d.value - 1)
<1>1. Modify(d, v, SetZN(reg_f, v)) /\ Retire(d, 0)
  BY DEF IncrementDecrement
<1>2. v \in Byte
  <2>1. (IF d.op = "INC" THEN d.value + 1 ELSE d.value - 1) \in Int
    BY DEF DecodedOK, Byte
  <2> QED
    BY <2>1, WrapsAreWords
<1> HIDE DEF v
<1>3. Effect /\ UNCHANGED modeVars
  BY <1>1, <1>2, SetZNIsSettable, ModifyOK DEF StateOK, RegistersOK
<1>4. Flow
  BY <1>1, RetireOK
<1> QED
  BY <1>3, <1>4 DEF Obeyed

LEMMA WriteBitOK ==
    ASSUME NEW d, DecodedOK(d), StateOK, WriteBit(d)
    PROVE  Obeyed
<1> DEFINE v == FromBits(IF d.op = "SMB" THEN Bits(d.value) \cup {d.bit}
                                         ELSE Bits(d.value) \ {d.bit})
<1>1. StoreTo(d.at, v, reg_f) /\ Retire(d, 0)
  BY DEF WriteBit
<1>2. v \in Byte
  BY FromBitsIsByte
<1> HIDE DEF v
<1>3. Effect /\ UNCHANGED modeVars
  BY <1>1, <1>2, StoreToOK DEF DecodedOK, StateOK, RegistersOK
<1>4. Flow
  BY <1>1, RetireOK
<1> QED
  BY <1>3, <1>4 DEF Obeyed

LEMMA TestAndWriteBitsOK ==
    ASSUME NEW d, DecodedOK(d), StateOK, TestAndWriteBits(d)
    PROVE  Obeyed
<1> DEFINE v == IF d.op = "TSB" THEN BitOr(d.value, reg["a"]) ELSE BitClear(d.value, reg["a"])
           Z == [Z |-> (BitAnd(reg["a"], d.value) = 0)]
<1>1. StoreTo(d.at, v, Assign(reg_f, Z)) /\ Retire(d, 0)
  BY DEF TestAndWriteBits
<1>2. v \in Byte
  BY BitwiseIsByte
<1>3. DOMAIN Z \subseteq Settable
  BY DEF Settable, Flag
<1> HIDE DEF v, Z
<1>4. Effect /\ UNCHANGED modeVars
  BY <1>1, <1>2, <1>3, AssignIsSettable, StoreToOK DEF DecodedOK, StateOK, RegistersOK
<1>5. Flow
  BY <1>1, RetireOK
<1> QED
  BY <1>4, <1>5 DEF Obeyed

LEMMA PushRegisterOK ==
    ASSUME NEW d, DecodedOK(d), StateOK, PushRegister(d)
    PROVE  Obeyed
<1>1. d.op \in DOMAIN PushOp /\ Push(<<PushOp[d.op]>>) /\ Retire(d, 0)
      /\ UNCHANGED <<reg, reg_f, modeVars>>
  BY DEF PushRegister
<1>2. PushOp[d.op] \in Byte
  <2>1. PushedStatus(reg_f, TRUE) \in Byte
    BY StatusIsByte, Zenon
  <2>2. reg["a"] \in Byte /\ reg["x"] \in Byte /\ reg["y"] \in Byte
    BY DEF StateOK, RegistersOK
  <2>3. /\ PushOp["PHA"] = reg["a"] /\ PushOp["PHX"] = reg["x"] /\ PushOp["PHY"] = reg["y"]
        /\ PushOp["PHP"] = PushedStatus(reg_f, TRUE)
    BY Zenon DEF PushOp
  <2>4. d.op \in {"PHA", "PHX", "PHY", "PHP"}
    BY <1>1, Zenon DEF PushOp
  <2> QED
    BY <2>1, <2>2, <2>3, <2>4, Zenon
<1>3. MemoryOK' /\ StackKept
  <2>1. <<PushOp[d.op]>> \in Seq(Byte)
    BY <1>2
  <2> QED
    BY <1>1, <2>1, PushOK DEF StateOK, AddressesOK
<1>4. Flow
  BY <1>1, RetireOK
<1> QED
  BY <1>1, <1>3, <1>4 DEF Obeyed, Effect, StateOK, RegistersOK

LEMMA PullRegisterOK ==
    ASSUME NEW d, DecodedOK(d), StateOK, PullRegister(d)
    PROVE  Obeyed
<1>1. Pull(1) /\ Retire(d, 0) /\ UNCHANGED modeVars
  BY DEF PullRegister
<1>2. RegistersOK'
  <2>1. Pulled(1) \in Byte
    BY ReadIsByte DEF StateOK, Pulled
  <2>2. CASE \E r \in DOMAIN PullOp : /\ reg' = [reg EXCEPT ![r] = Pulled(1)]
                                      /\ reg_f' = SetZN(reg_f, Pulled(1))
    <3>1. SetZN(reg_f, Pulled(1)) \subseteq Settable
      BY SetZNIsSettable DEF StateOK, RegistersOK
    <3> QED
      BY <2>1, <2>2, <3>1 DEF StateOK, RegistersOK, PullOp
  <2>3. CASE reg_f' = PulledFlags(Pulled(1)) /\ reg' = reg
    BY <2>3, PulledIsSettable DEF StateOK, RegistersOK
  <2> QED
    BY <2>2, <2>3 DEF PullRegister
<1>3. MemoryOK' /\ StackKept
  BY <1>1, PullOK DEF StateOK, AddressesOK
<1>4. Flow
  BY <1>1, RetireOK
<1> QED
  BY <1>1, <1>2, <1>3, <1>4 DEF Obeyed, Effect

LEMMA TransferStackPointerOK ==
    ASSUME NEW d, DecodedOK(d), StateOK, TransferStackPointer(d)
    PROVE  Obeyed
<1>1. Retire(d, 0)
  BY DEF TransferStackPointer
<1>2. Flow
  BY <1>1, RetireOK
<1>3. CASE SetRegister("x", Low(sp), SetZN(reg_f, Low(sp)))
  <2>1. Low(sp) \in Byte
    BY HalvesAreBytes DEF StateOK, AddressesOK
  <2> QED
    BY <1>2, <1>3, <2>1, SetZNIsSettable, SetRegisterOK DEF StateOK, RegistersOK, Obeyed
<1>4. CASE sp' = StackPage(reg["x"]) /\ Quiet /\ UNCHANGED <<reg, reg_f, modeVars>>
  <2>1. sp' \in PageOne
    BY <1>4, StackPageIsPageOne DEF StateOK, RegistersOK, Byte
  <2> QED
    BY <1>2, <1>4, <2>1, QuietKeepsMemory DEF StateOK, RegistersOK, Obeyed, Effect, StackKept
<1> QED
  BY <1>3, <1>4 DEF TransferStackPointer

-----------------------------------------------------------------------------
(***************************************************************************)
(* The instructions that change the flow of control, and interrupt().      *)
(***************************************************************************)
LEMMA BranchOK ==
    ASSUME NEW d, DecodedOK(d), StateOK, Branch(d)
    PROVE  Obeyed
<1> DEFINE target  == Wrap16(d.next + d.offset)
           penalty == CASE ~Taken(d) -> 0
                        [] Taken(d) /\ SamePage(d.next, target) -> 1
                        [] OTHER -> 2
<1>1. /\ d.op \in DOMAIN BranchOp \cup {"BRA", "BBR", "BBS"}
      /\ pc' = IF Taken(d) THEN target ELSE d.next
      /\ Spend(d.cycles + penalty)
      /\ SetStatus(reg_f)
  BY DEF Branch
<1>2. penalty \in {0, 1, 2}
  BY Zenon
<1>3. d.op \in Penalised
  BY <1>1 DEF BranchOp, Penalised
<1> HIDE DEF penalty
<1>4. CyclesOK'
  <2>1. d.cycles + penalty \in 0 .. 8
    BY <1>2, <1>3 DEF DecodedOK
  <2> QED
    BY <1>1, <2>1, SpendOK
<1>5. pc' \in Word
  <2>1. d.next + d.offset \in Int
    BY DEF DecodedOK, Word
  <2>2. target \in Word
    BY <2>1, WrapsAreWords
  <2> QED
    BY <1>1, <2>2 DEF DecodedOK
<1>6. Effect /\ UNCHANGED modeVars
  BY <1>1, SetStatusOK DEF StateOK, RegistersOK
<1> QED
  BY <1>4, <1>5, <1>6 DEF Obeyed, Flow

LEMMA HalvesFormSequence ==
    ASSUME NEW w \in Word
    PROVE  <<High(w), Low(w)>> \in Seq(Byte)
  BY HalvesAreBytes

LEMMA JumpOK ==
    ASSUME NEW d, DecodedOK(d), StateOK, Jump(d)
    PROVE  Obeyed
<1>1. pc' = d.at /\ Spend(d.cycles) /\ UNCHANGED <<reg, reg_f, modeVars>>
  BY DEF Jump
<1>2. MemoryOK' /\ StackKept
  <2>1. CASE Quiet /\ sp' = sp
    BY <2>1, QuietKeepsMemory DEF StateOK, StackKept
  <2>2. CASE LET ret == Wrap16(d.next - 1) IN Push(<<High(ret), Low(ret)>>)
    <3> DEFINE ret == Wrap16(d.next - 1)
    <3>1. ret \in Word
      <4>1. d.next - 1 \in Int
        BY DEF DecodedOK, Word
      <4> QED
        BY <4>1, WrapsAreWords
    <3>2. Push(<<High(ret), Low(ret)>>)
      BY <2>2
    <3> HIDE DEF ret
    <3> QED
      BY <3>1, <3>2, HalvesFormSequence, PushOK DEF StateOK, AddressesOK
  <2> QED
    BY <2>1, <2>2 DEF Jump
<1>3. Flow
  <2>1. d.cycles \in 0 .. 8
    BY DEF DecodedOK
  <2> QED
    BY <1>1, <2>1, SpendOK DEF DecodedOK, Flow
<1> QED
  BY <1>1, <1>2, <1>3 DEF Obeyed, Effect, StateOK, RegistersOK

LEMMA ReturnOK ==
    ASSUME NEW d, DecodedOK(d), StateOK, Return(d)
    PROVE  Obeyed
<1>1. Spend(d.cycles) /\ UNCHANGED <<reg, modeVars>>
  BY DEF Return
<1>2. \A i : Pulled(i) \in Byte
  BY ReadIsByte DEF StateOK, Pulled
<1>3. \A i, j : Pair(Pulled(i), Pulled(j)) \in Word
  BY <1>2, PairsAreWords
<1>4. CyclesOK'
  <2>1. d.cycles \in 0 .. 8
    BY DEF DecodedOK
  <2> QED
    BY <1>1, <2>1, SpendOK
<1>5. CASE pc' = Wrap16(Pair(Pulled(1), Pulled(2)) + 1) /\ Pull(2) /\ reg_f' = reg_f
  <2>1. Pair(Pulled(1), Pulled(2)) + 1 \in Int
    BY <1>3 DEF Word
  <2>2. pc' \in Word
    BY <1>5, <2>1, WrapsAreWords
  <2>3. MemoryOK' /\ StackKept
    BY <1>5, PullOK DEF StateOK, AddressesOK
  <2> QED
    BY <1>1, <1>4, <1>5, <2>2, <2>3 DEF Obeyed, Effect, Flow, StateOK, RegistersOK
<1>6. CASE reg_f' = PulledFlags(Pulled(1)) /\ pc' = Pair(Pulled(2), Pulled(3)) /\ Pull(3)
  <2>1. MemoryOK' /\ StackKept
    BY <1>6, PullOK DEF StateOK, AddressesOK
  <2>2. reg_f' \subseteq Settable /\ pc' \in Word
    BY <1>3, <1>6, PulledIsSettable
  <2> QED
    BY <1>1, <1>4, <2>1, <2>2 DEF Obeyed, Effect, Flow, StateOK, RegistersOK
<1> QED
  BY <1>5, <1>6 DEF Return

\* interrupt() ends a wait and leaves a stopped CPU stopped, with I set.
LEMMA InterruptOK ==
    ASSUME NEW vector, NEW return_pc \in Word, NEW cycle_count \in 0 .. 8, NEW brk, StateOK,
           Interrupt(vector, return_pc, cycle_count, brk)
    PROVE  Effect /\ Flow /\ "I" \in reg_f' /\ stopped' = stopped /\ waiting' = FALSE
<1> DEFINE bytes == <<High(return_pc), Low(return_pc), PushedStatus(reg_f, brk)>>
<1>1. /\ Push(bytes)
      /\ reg_f' = reg_f \cup {"I"}
      /\ pc' = Read16(vector)
      /\ Spend(cycle_count)
      /\ waiting' = FALSE
      /\ UNCHANGED <<reg, stopped>>
  BY DEF Interrupt
<1>2. bytes \in Seq(Byte)
  BY HalvesAreBytes, StatusIsByte
<1> HIDE DEF bytes
<1>3. MemoryOK' /\ StackKept
  BY <1>1, <1>2, PushOK DEF StateOK, AddressesOK
<1>4. RegistersOK'
  BY <1>1 DEF StateOK, RegistersOK, Settable, Flag
<1>5. Flow
  BY <1>1, Read16IsWord, SpendOK DEF StateOK, Flow
<1> QED
  BY <1>1, <1>3, <1>4, <1>5 DEF Effect

LEMMA BreakOK ==
    ASSUME NEW d, DecodedOK(d), StateOK, Break(d)
    PROVE  Effect /\ Flow /\ stopped' = stopped /\ waiting' = FALSE
<1>1. Interrupt(IrqVector, Wrap16(d.next + 1), 0, TRUE)
  BY DEF Break
<1>2. Wrap16(d.next + 1) \in Word
  <2>1. d.next + 1 \in Int
    BY DEF DecodedOK, Word
  <2> QED
    BY <2>1, WrapsAreWords
<1>3. 0 \in 0 .. 8
  OBVIOUS
<1> QED
  BY <1>1, <1>2, <1>3, InterruptOK, Zenon

LEMMA HaltOK ==
    ASSUME NEW d, DecodedOK(d), StateOK, Halt(d)
    PROVE  /\ Effect /\ Flow
           /\ reg_f' = reg_f
           /\ \/ stopped' = TRUE /\ waiting' = waiting
              \/ waiting' = TRUE /\ stopped' = stopped
<1>1. Quiet /\ Retire(d, 0) /\ UNCHANGED <<reg, reg_f, sp>>
  BY DEF Halt
<1>2. Effect
  BY <1>1, QuietKeepsMemory DEF StateOK, RegistersOK, Effect, StackKept
<1>3. Flow
  BY <1>1, RetireOK
<1>4. \/ stopped' = TRUE /\ waiting' = waiting
      \/ waiting' = TRUE /\ stopped' = stopped
  BY Zenon DEF Halt
<1>5. reg_f' = reg_f
  BY <1>1
<1> QED
  BY <1>2, <1>3, <1>4, <1>5, Zenon

-----------------------------------------------------------------------------
(***************************************************************************)
(* The tick.                                                               *)
(***************************************************************************)
\* What an instruction does to stopped and waiting.
ModesAfter ==
    \/ UNCHANGED modeVars
    \/ /\ reg_f' = reg_f
       /\ \/ stopped' = TRUE /\ waiting' = waiting
          \/ waiting' = TRUE /\ stopped' = stopped

LEMMA OperateOK ==
    ASSUME NEW d, DecodedOK(d), StateOK, ~waiting, Operate(d)
    PROVE  Effect /\ Flow /\ ModesAfter
<1>1. CASE Break(d)
  <2>1. Effect /\ Flow /\ stopped' = stopped /\ waiting' = FALSE
    BY <1>1, BreakOK
  <2>2. waiting = FALSE
    BY DEF StateOK, ModesOK
  <2>3. UNCHANGED modeVars
    BY <2>1, <2>2 DEF modeVars
  <2> QED
    BY <2>1, <2>3 DEF ModesAfter
<1>2. CASE Halt(d)
  BY <1>2, HaltOK, Zenon DEF ModesAfter
<1>3. CASE Obeyed
  BY <1>3, Zenon DEF Obeyed, ModesAfter
<1> QED
  BY <1>1, <1>2, <1>3, LoadRegisterOK, LogicalOK, AddSubtractOK, CompareOK, BitTestOK,
     StepIndexOK, TransferRegisterOK, SetFlagOK, NoOperationOK, StoreOK, ShiftOK,
     IncrementDecrementOK, WriteBitOK, TestAndWriteBitsOK, PushRegisterOK, PullRegisterOK,
     TransferStackPointerOK, BranchOK, JumpOK, ReturnOK, Zenon DEF Operate

LEMMA ExecuteOK ==
    ASSUME StateOK, Execute
    PROVE  /\ Effect /\ Flow /\ ModesAfter
           /\ addr_abs' \in Word /\ addr_rel' \in Word /\ opcode' \in Byte
           /\ UNCHANGED <<lineVars, model>>
<1>1. DecodedOK(Decoded)
  BY DecodeOK
<1>2. /\ ~waiting
      /\ opcode' = Read(pc)
      /\ addr_abs' = Decoded.at
      /\ addr_rel' = Decoded.offset
      /\ UNCHANGED <<lineVars, model>>
  BY DEF Execute
<1>3. Operate(Decoded)
  BY Zenon DEF Execute
<1>4. Effect /\ Flow /\ ModesAfter
  BY <1>1, <1>2, <1>3, OperateOK
<1>5. addr_abs' \in Word /\ addr_rel' \in Word
  BY <1>1, <1>2 DEF DecodedOK
<1>6. opcode' \in Byte
  BY <1>2, ReadIsByte DEF StateOK
<1> QED
  BY <1>2, <1>4, <1>5, <1>6

\* Entering a handler from the interrupt lines.
LEMMA ServeInterruptOK ==
    ASSUME StateOK, ServeNmi \/ ServeIrq
    PROVE  /\ Effect /\ Flow /\ "I" \in reg_f' /\ stopped' = stopped /\ waiting' = FALSE
           /\ UNCHANGED <<opcode, addr_abs, addr_rel, model>>
<1>1. pc \in Word /\ 7 \in 0 .. 8 /\ 8 \in 0 .. 8
  BY DEF StateOK, AddressesOK
<1>2. CASE ServeNmi
  <2>1. Interrupt(NmiVector, pc, 8, FALSE) /\ UNCHANGED <<opcode, addr_abs, addr_rel, model>>
    BY <1>2 DEF ServeNmi
  <2> QED
    BY <1>1, <2>1, InterruptOK, Zenon
<1>3. CASE ServeIrq
  <2>1. Interrupt(IrqVector, pc, 7, FALSE) /\ UNCHANGED <<opcode, addr_abs, addr_rel, model>>
    BY <1>3 DEF ServeIrq
  <2> QED
    BY <1>1, <2>1, InterruptOK, Zenon
<1> QED
  BY <1>2, <1>3

LEMMA ServeResetOK ==
    ASSUME StateOK, ServeReset
    PROVE  Effect /\ Flow
<1>1. /\ pc' = Read16(ResetVector) /\ sp' = 509 /\ cycles' = 0 /\ Quiet
      /\ reg' = [r \in {"a", "x", "y"} |-> 0] /\ reg_f' = {"U", "I"}
  BY DEF ServeReset
<1>2. RegistersOK'
  BY <1>1 DEF RegistersOK, Settable, Flag, Byte
<1>3. MemoryOK' /\ pc' \in Word
  BY <1>1, QuietKeepsMemory, Read16IsWord DEF StateOK
<1>4. StackKept /\ CyclesOK'
  BY <1>1 DEF StackKept, PageOne, CyclesOK
<1> QED
  BY <1>2, <1>3, <1>4 DEF Effect, Flow

\* The tick and the host's calls, one step per action.
LEMMA StateKept ==
    ASSUME StateOK, Effect, Flow,
           addr_abs' \in Word, addr_rel' \in Word, opcode' \in Byte, model' = model
    PROVE  /\ MemoryOK' /\ RegistersOK' /\ AddressesOK' /\ opcode' \in Byte /\ CyclesOK'
           /\ model' \in Models
<1>1. sp' \in Word
  BY PageOneIsWord DEF Effect, StackKept, StateOK, AddressesOK
<1> QED
  BY <1>1 DEF StateOK, AddressesOK, Effect, Flow

DataOK == /\ MemoryOK /\ RegistersOK /\ AddressesOK /\ opcode \in Byte /\ CyclesOK
          /\ model \in Models

LEMMA TickKeepsData ==
    ASSUME StateOK, Tick
    PROVE  DataOK'
<1>1. CASE ServeReset
  <2>1. addr_abs' = 0 /\ addr_rel' = 0 /\ opcode' = opcode /\ model' = model
    BY <1>1 DEF ServeReset
  <2>2. addr_abs' \in Word /\ addr_rel' \in Word /\ opcode' \in Byte
    BY <2>1 DEF StateOK, Word
  <2> QED
    BY <1>1, <2>1, <2>2, ServeResetOK, StateKept DEF DataOK
<1>2. CASE CountDown
  <2>1. /\ cycles' = cycles - 1 /\ cycles > 0
        /\ UNCHANGED <<dataVars, reg, reg_f, sp, pc, opcode, addr_abs, addr_rel, model>>
    BY <1>2 DEF CountDown
  <2>2. CyclesOK'
    BY <2>1 DEF StateOK, CyclesOK
  <2> QED
    BY <2>1, <2>2 DEF StateOK, DataOK, MemoryOK, RegistersOK, AddressesOK, dataVars
<1>3. CASE ServeNmi \/ ServeIrq
  BY <1>3, ServeInterruptOK, StateKept DEF DataOK, StateOK, AddressesOK
<1>4. CASE Idle
  <2>1. UNCHANGED vars
    BY <1>4 DEF Idle
  <2> QED
    BY <2>1 DEF StateOK, DataOK, MemoryOK, RegistersOK, AddressesOK, CyclesOK, vars, dataVars,
       cpuVars
<1>5. CASE Execute
  BY <1>5, ExecuteOK, StateKept DEF DataOK
<1> QED
  BY <1>1, <1>2, <1>3, <1>4, <1>5 DEF Tick

LEMMA TickKeepsSignals ==
    ASSUME StateOK, Tick
    PROVE  LinesOK' /\ ModesOK'
<1>1. CASE ServeReset
  BY <1>1 DEF ServeReset, consume_reset, StateOK, LinesOK, ModesOK
<1>2. CASE CountDown
  BY <1>2 DEF CountDown, lineVars, modeVars, StateOK, LinesOK, ModesOK
<1>3. CASE ServeNmi
  <2>1. LinesOK'
    BY <1>3 DEF ServeNmi, consume_nmi, StateOK, LinesOK
  <2>2. stopped' = stopped /\ waiting' = FALSE
    BY <1>3, ServeInterruptOK
  <2> QED
    BY <2>1, <2>2 DEF StateOK, ModesOK
<1>4. CASE ServeIrq
  <2>1. LinesOK'
    BY <1>4 DEF ServeIrq, lineVars, StateOK, LinesOK
  <2>2. stopped' = stopped /\ waiting' = FALSE
    BY <1>4, ServeInterruptOK
  <2> QED
    BY <2>1, <2>2 DEF StateOK, ModesOK
<1>5. CASE Idle
  BY <1>5 DEF Idle, vars, lineVars, cpuVars, modeVars, StateOK, LinesOK, ModesOK
<1>6. CASE Execute
  <2>1. ModesAfter /\ UNCHANGED lineVars
    BY <1>6, ExecuteOK
  <2> QED
    BY <2>1 DEF ModesAfter, modeVars, lineVars, StateOK, LinesOK, ModesOK
<1> QED
  BY <1>1, <1>2, <1>3, <1>4, <1>5, <1>6 DEF Tick

\* A block that the host loads consists of bytes at words, wherever its cursor wraps.
LEMMA LoadOK ==
    ASSUME MemoryOK, NEW l \in Loads, Load(l.addr, l.bytes)
    PROVE  MemoryOK'
<1> DEFINE cells == LoadCells(l.addr, l.bytes)
<1>1. l.addr \in Word /\ l.bytes \in Seq(Byte) /\ Len(l.bytes) \in Nat /\ Len(l.bytes) <= 65536
  BY MachineAssumption DEF MachineAssumption
<1>2. DOMAIN cells = {Wrap16(l.addr + i - 1) : i \in 1 .. Len(l.bytes)}
  BY DEF LoadCells
<1>3. \A i \in 1 .. Len(l.bytes) : /\ Wrap16(l.addr + i - 1) \in Word
                                  /\ Wrap16(Wrap16(l.addr + i - 1) - l.addr) = i - 1
  BY <1>1, CursorWraps
<1>4. \A a \in DOMAIN cells : a \in Word /\ cells[a] \in Byte
  <2> TAKE a \in DOMAIN cells
  <2>1. PICK i \in 1 .. Len(l.bytes) : a = Wrap16(l.addr + i - 1)
    BY <1>2
  <2>2. a \in Word /\ cells[a] = l.bytes[i]
    <3>1. cells[a] = l.bytes[Wrap16(a - l.addr) + 1]
      BY <1>2 DEF LoadCells
    <3>2. Wrap16(a - l.addr) + 1 = i
      BY <1>3, <2>1
    <3> QED
      BY <1>3, <2>1, <3>1, <3>2
  <2> QED
    BY <1>1, <2>2
<1>5. memory' = Stored(memory, cells) /\ output' = output
  BY DEF Load
<1> HIDE DEF cells
<1>6. MemoryOK'
  BY <1>4, <1>5 DEF MemoryOK, Stored
<1> QED
  BY <1>6

LEMMA HostKeepsState ==
    ASSUME StateOK, Host
    PROVE  StateOK'
<1>1. UNCHANGED cpuVars
  BY DEF Host, HostCalls
<1>2. LinesOK'
  BY DEF Host, Reset, Nmi, Irq, ClearIrq, Load, lineVars, StateOK, LinesOK
<1>3. MemoryOK'
  <2>1. CASE UNCHANGED dataVars
    BY <2>1 DEF StateOK, MemoryOK, dataVars
  <2>2. CASE \E l \in Loads : Load(l.addr, l.bytes)
    BY <2>2, LoadOK DEF StateOK
  <2> QED
    BY <2>1, <2>2 DEF Host, Reset, Nmi, Irq, ClearIrq
<1>5. RegistersOK' /\ AddressesOK'
  BY <1>1 DEF StateOK, RegistersOK, AddressesOK, cpuVars
<1>4. opcode' \in Byte /\ CyclesOK' /\ ModesOK' /\ model' \in Models
  BY <1>1 DEF StateOK, CyclesOK, ModesOK, cpuVars, modeVars
<1> QED
  BY <1>2, <1>3, <1>4, <1>5 DEF StateOK

LEMMA InitOK == Init => StateOK
<1> SUFFICES ASSUME Init PROVE StateOK
  OBVIOUS
<1> USE DEF Init, CpuInit
<1>1. MemoryOK
  <2>1. \E s \in Setups : memory = s.image
    OBVIOUS
  <2>2. \A s \in Setups : DOMAIN s.image \subseteq Word /\ s.image \in [DOMAIN s.image -> Byte]
    BY MachineAssumption DEF MachineAssumption
  <2>3. DOMAIN memory \subseteq Word /\ memory \in [DOMAIN memory -> Byte]
    BY <2>1, <2>2
  <2>4. output = <<>> /\ output \in Seq(Byte)
    OBVIOUS
  <2> QED
    BY <2>3, <2>4 DEF MemoryOK
<1>2. RegistersOK
  BY DEF RegistersOK, Byte
<1>3. AddressesOK /\ opcode \in Byte /\ CyclesOK /\ model \in Models
  BY DEF AddressesOK, Word, Byte, CyclesOK
<1>4. LinesOK /\ ModesOK
  <2>1. reset_pending \in BOOLEAN
    <3>1. \A s \in Setups : s.reset \in BOOLEAN
      BY MachineAssumption DEF MachineAssumption
    <3> QED
      BY <3>1
  <2> QED
    BY <2>1 DEF LinesOK, ModesOK
<1> QED
  BY <1>1, <1>2, <1>3, <1>4 DEF StateOK

LEMMA NextOK == StateOK /\ [Next]_machineVars => StateOK'
<1> SUFFICES ASSUME StateOK, [Next]_machineVars PROVE StateOK'
  OBVIOUS
<1>1. CASE Tick
  BY <1>1, TickKeepsData, TickKeepsSignals DEF DataOK, StateOK
<1>2. CASE Host
  BY <1>2, HostKeepsState
<1>3. CASE UNCHANGED machineVars
  BY <1>3 DEF StateOK, MemoryOK, RegistersOK, AddressesOK, CyclesOK, LinesOK, ModesOK,
     machineVars, vars, lineVars, dataVars, cpuVars, modeVars
<1> QED
  BY <1>1, <1>2, <1>3 DEF Next, Clock

LEMMA StateCorrect == SafetySpec => []StateOK
  BY InitOK, NextOK, PTL DEF SafetySpec

-----------------------------------------------------------------------------
(***************************************************************************)
(* The theorems.                                                           *)
(***************************************************************************)
\* Type correctness: whatever the program, the host and the console, every
\* member of the CPU and every cell keeps a value of its C++ type, and no tick
\* leaves more than seven cycles.
THEOREM MachineTypeCorrect == SafetySpec => []TypeOK
<1>1. StateOK => TypeOK
  <2>1. StateOK => BusTypeOK
    BY DEF StateOK, MemoryOK, LinesOK, BusTypeOK
  <2>2. StateOK => reg \in [{"a", "x", "y"} -> Byte] /\ reg_f \subseteq Flag
    BY DEF StateOK, RegistersOK, Settable
  <2>3. StateOK => /\ sp \in Word /\ pc \in Word /\ addr_abs \in Word /\ addr_rel \in Word
                   /\ opcode \in Byte /\ cycles \in 0 .. 7 /\ model \in Models
    BY DEF StateOK, AddressesOK, CyclesOK
  <2>4. StateOK => stopped \in BOOLEAN /\ waiting \in BOOLEAN
    BY DEF StateOK, ModesOK
  <2> QED
    BY <2>1, <2>2, <2>3, <2>4 DEF TypeOK
<1> QED
  BY <1>1, StateCorrect, PTL

\* No program, pull or interrupt ever sets B in the status register.
THEOREM BreakFlagNeverSet == SafetySpec => []BreakFlagClear
<1>1. StateOK => BreakFlagClear
  BY DEF StateOK, RegistersOK, Settable, BreakFlagClear
<1> QED
  BY <1>1, StateCorrect, PTL

LEMMA TickKeepsStack ==
    ASSUME StateOK, Tick
    PROVE  StackKept
<1>1. CASE ServeReset
  BY <1>1, ServeResetOK DEF Effect
<1>2. CASE CountDown
  BY <1>2 DEF CountDown, StackKept
<1>3. CASE ServeNmi \/ ServeIrq
  BY <1>3, ServeInterruptOK DEF Effect
<1>4. CASE Idle
  BY <1>4 DEF Idle, vars, cpuVars, StackKept
<1>5. CASE Execute
  BY <1>5, ExecuteOK DEF Effect
<1> QED
  BY <1>1, <1>2, <1>3, <1>4, <1>5 DEF Tick

\* Once in page one the stack pointer stays there, and whatever moves it from
\* its power-on value moves it there: for every program, nesting and wrap.
THEOREM StackPageKept == SafetySpec => StackStaysInPageOne
<1>1. StateOK /\ [Next]_machineVars =>
        [(sp \in 256 .. 511 \/ sp' # sp) => (sp' \in 256 .. 511)]_machineVars
  <2> SUFFICES ASSUME StateOK, Next
               PROVE  (sp \in 256 .. 511 \/ sp' # sp) => (sp' \in 256 .. 511)
    OBVIOUS
  <2>1. CASE Tick
    BY <2>1, TickKeepsStack DEF StackKept, PageOne
  <2>2. CASE Host
    BY <2>2 DEF Host, HostCalls, cpuVars
  <2> QED
    BY <2>1, <2>2 DEF Next, Clock
<1> QED
  BY <1>1, StateCorrect, PTL DEF SafetySpec, StackStaysInPageOne

-----------------------------------------------------------------------------
(***************************************************************************)
(* Which steps are calls of tick(), and which of those execute.            *)
(***************************************************************************)
\* What is left of the budget is a count, so a call of the host always uses it.
CallsOK == calls_left \in [Call -> Nat]

LEMMA CallsInit == Init => CallsOK
<1>1. \A s \in Setups : s.calls \in [Call -> Nat]
  BY MachineAssumption
<1> QED BY <1>1 DEF Init, CallsOK

LEMMA HostUsesCalls ==
    ASSUME CallsOK, Host
    PROVE  CallsOK' /\ calls_left' # calls_left
<1>1. PICK c \in Call : calls_left[c] > 0 /\ calls_left' = [calls_left EXCEPT ![c] = @ - 1]
  BY Zenon DEF Host, HostCalls, Call
<1> QED BY <1>1 DEF CallsOK

LEMMA CallsNext == CallsOK /\ [Next]_machineVars => CallsOK'
<1>1. CASE Clock
  BY <1>1 DEF Clock, CallsOK
<1>2. CASE Host
  BY <1>2, HostUsesCalls
<1>3. CASE UNCHANGED machineVars
  BY <1>3 DEF machineVars, CallsOK
<1> QED BY <1>1, <1>2, <1>3 DEF Next

\* The step of a machine that executes an operation is its instruction.
LEMMA TickExecutes ==
    ASSUME NEW ops, Tick, Executes(ops)
    PROVE  Execute
<1>1. ~reset_pending /\ ~nmi_pending /\ ~IrqEnabled /\ ~stopped /\ ~waiting
  BY Zenon DEF Executes, NoInterrupt, Boundary
<1>2. ~(cycles > 0)
  BY DEF Executes, NoInterrupt, Boundary
<1> QED
  BY <1>1, <1>2, Zenon DEF Tick, ServeReset, CountDown, ServeNmi, ServeIrq, Idle

LEMMA ExecutesExecute ==
    ASSUME NEW ops, CallsOK, Next, Executes(ops), UNCHANGED calls_left
    PROVE  Execute
<1>1. Tick
  BY HostUsesCalls DEF Next, Clock
<1> QED
  BY <1>1, TickExecutes

-----------------------------------------------------------------------------
(***************************************************************************)
(* Who switches decimal mode and the interrupt mask, and that U stays set. *)
(***************************************************************************)
SwitchesModes(d) ==
    \/ KeepsModes(reg_f, reg_f')
    \/ /\ d.op \in {"CLI", "PLP", "RTI"}
       /\ d.op = "CLI" => ("D" \in reg_f' <=> "D" \in reg_f)
       /\ "U" \in reg_f => "U" \in reg_f'
    \/ /\ d.op \in {"CLD", "SED"}
       /\ "I" \in reg_f' <=> "I" \in reg_f
       /\ "U" \in reg_f' <=> "U" \in reg_f
    \/ d.op \in {"SEI", "BRK"} /\ reg_f' = reg_f \cup {"I"}

LEMMA RegisterOpsKeepModes ==
    ASSUME NEW d, LoadRegister(d) \/ Logical(d) \/ AddSubtract(d) \/ Compare(d) \/ BitTest(d)
                  \/ StepIndex(d) \/ TransferRegister(d) \/ NoOperation(d)
    PROVE  KeepsModes(reg_f, reg_f')
<1>1. CASE \E v : reg_f' = SetZN(reg_f, v)
  BY <1>1, SetZNKeepsModes
<1>2. CASE AddSubtract(d)
  <2>1. reg_f' \in {Adc(model, reg_f, reg["a"], d.value).flags,
                    Sbc(model, reg_f, reg["a"], d.value).flags}
    BY <1>2 DEF AddSubtract, SetRegister
  <2> QED BY <2>1, ArithmeticKeepsModes
<1>3. CASE Compare(d)
  <2>1. PICK r \in DOMAIN CompareOp : reg_f' = CompareFlags(reg_f, reg[r], d.value)
    BY <1>3 DEF Compare, SetStatus
  <2> QED BY <2>1, ArithmeticKeepsModes
<1>4. CASE BitTest(d)
  <2> DEFINE Z  == [Z |-> (BitAnd(reg["a"], d.value) = 0)]
             NV == [N |-> 7 \in Bits(d.value), V |-> 6 \in Bits(d.value)]
  <2>1. reg_f' \in {Assign(reg_f, Z), Assign(Assign(reg_f, NV), Z)}
    BY <1>4 DEF BitTest, SetStatus
  <2>2. DOMAIN Z \cap ModeFlag = {} /\ DOMAIN NV \cap ModeFlag = {}
    BY DEF ModeFlag
  <2> HIDE DEF Z, NV
  <2> QED BY <2>1, <2>2, AssignKeepsModes, KeepingIsTransitive
<1>5. CASE NoOperation(d)
  BY <1>5 DEF NoOperation, SetStatus, KeepsModes
<1>6. CASE LoadRegister(d) \/ Logical(d) \/ StepIndex(d) \/ TransferRegister(d)
  BY <1>1, <1>6 DEF LoadRegister, Logical, StepIndex, TransferRegister, SetRegister
<1> QED BY <1>2, <1>3, <1>4, <1>5, <1>6

LEMMA MemoryOpsKeepModes ==
    ASSUME NEW d, Store(d) \/ Shift(d) \/ IncrementDecrement(d) \/ WriteBit(d)
                  \/ TestAndWriteBits(d) \/ PushRegister(d) \/ TransferStackPointer(d)
                  \/ Branch(d) \/ Jump(d) \/ Halt(d)
    PROVE  KeepsModes(reg_f, reg_f')
<1>1. CASE reg_f' = reg_f
  BY <1>1 DEF KeepsModes
<1>2. CASE Shift(d)
  <2>1. reg_f' = ShiftResult(d.op, reg_f, d.value).flags /\ d.op \in {"ASL", "LSR", "ROL", "ROR"}
    BY <1>2 DEF Shift, Modify, SetRegister, StoreTo
  <2> QED BY <2>1, ShiftsKeepModes
<1>3. CASE \E v : reg_f' = SetZN(reg_f, v)
  BY <1>3, SetZNKeepsModes
<1>4. CASE IncrementDecrement(d)
  BY <1>3, <1>4 DEF IncrementDecrement, Modify, SetRegister, StoreTo
<1>5. CASE TestAndWriteBits(d)
  <2>1. reg_f' = Assign(reg_f, [Z |-> (BitAnd(reg["a"], d.value) = 0)])
    BY <1>5 DEF TestAndWriteBits, StoreTo
  <2> QED BY <2>1, TestsKeepModes
<1>6. CASE TransferStackPointer(d)
  BY <1>1, <1>3, <1>6 DEF TransferStackPointer, SetRegister
<1>7. CASE Store(d) \/ WriteBit(d) \/ PushRegister(d) \/ Branch(d) \/ Jump(d) \/ Halt(d)
  BY <1>1, <1>7 DEF Store, WriteBit, PushRegister, Branch, Jump, Halt, StoreTo, SetStatus
<1> QED BY <1>2, <1>4, <1>5, <1>6, <1>7

LEMMA OperateSwitchesModes ==
    ASSUME NEW d, Operate(d)
    PROVE  SwitchesModes(d)
<1> USE DEF SwitchesModes
<1>1. CASE SetFlag(d)
  <2> DEFINE g == [f \in {FlagOp[d.op]} |-> d.op \in {"SEC", "SED", "SEI"}]
  <2>1. reg_f' = Assign(reg_f, g) /\ d.op \in DOMAIN FlagOp
    BY <1>1 DEF SetFlag, SetStatus
  <2>2. CASE d.op \in {"CLC", "CLV", "SEC"}
    <3>1. DOMAIN g \cap ModeFlag = {}
      BY <2>2 DEF FlagOp, ModeFlag
    <3> HIDE DEF g
    <3> QED BY <2>1, <3>1, AssignKeepsModes
  <2>3. CASE d.op = "CLI"
    <3>1. DOMAIN g = {"I"}
      BY <2>3 DEF FlagOp
    <3> HIDE DEF g
    <3> QED BY <2>1, <2>3, <3>1 DEF Assign
  <2>4. CASE d.op \in {"CLD", "SED"}
    <3>1. DOMAIN g = {"D"}
      BY <2>4 DEF FlagOp
    <3> HIDE DEF g
    <3>2. ("I" \in reg_f' <=> "I" \in reg_f) /\ ("U" \in reg_f' <=> "U" \in reg_f)
      BY <2>1, <3>1 DEF Assign
    <3> QED BY <2>4, <3>2
  <2>5. CASE d.op = "SEI"
    <3>1. DOMAIN g = {"I"} /\ g["I"]
      <4>1. FlagOp[d.op] = "I"
        BY <2>5 DEF FlagOp
      <4>2. g["I"] = (d.op \in {"SEC", "SED", "SEI"})
        BY <4>1
      <4> QED BY <2>5, <4>1, <4>2
    <3> HIDE DEF g
    <3>2. reg_f' = reg_f \cup {"I"}
      BY <2>1, <3>1 DEF Assign
    <3> QED BY <2>5, <3>2
  <2> QED BY <2>1, <2>2, <2>3, <2>4, <2>5 DEF FlagOp
<1>2. CASE PullRegister(d)
  BY <1>2, SetZNKeepsModes DEF PullRegister, PulledFlags
<1>3. CASE Return(d)
  BY <1>3 DEF Return, KeepsModes, PulledFlags
<1>4. CASE Break(d)
  BY <1>4 DEF Break, Interrupt
<1>5. CASE KeepsModes(reg_f, reg_f')
  BY <1>5
<1> QED BY <1>1, <1>2, <1>3, <1>4, <1>5, RegisterOpsKeepModes, MemoryOpsKeepModes DEF Operate

LEMMA NextSwitchesModes ==
    ASSUME Next
    PROVE  /\ "I" \in reg_f /\ "I" \notin reg_f' => Executes({"CLI", "PLP", "RTI"})
           /\ ("D" \in reg_f) # ("D" \in reg_f')
                  => reset_pending \/ Executes({"CLD", "SED", "PLP", "RTI"})
           /\ "U" \in reg_f => "U" \in reg_f'
<1>1. CASE ServeReset
  BY <1>1 DEF ServeReset
<1>2. CASE reg_f' = reg_f \/ reg_f' = reg_f \cup {"I"}
  BY <1>2
<1>3. CASE CountDown \/ ServeNmi \/ ServeIrq \/ Idle \/ Host
  BY <1>2, <1>3 DEF CountDown, ServeNmi, ServeIrq, Interrupt, Idle, vars, cpuVars, Host,
                    HostCalls
<1>4. CASE Execute
  <2>1. Operate(Decoded) /\ NoInterrupt /\ ~stopped /\ ~waiting
    BY <1>4, Zenon DEF Execute
  <2>2. SwitchesModes(Decoded)
    BY <2>1, OperateSwitchesModes
  <2>3. \A ops : Executes(ops) <=> Decoded.op \in ops
    BY <2>1 DEF Executes, Decoded
  <2> QED BY <2>2, <2>3 DEF SwitchesModes, KeepsModes, ModeFlag
<1> QED BY <1>1, <1>3, <1>4 DEF Next, Clock, Tick

\* Only a CLI or the pull of a PLP or RTI unmasks the IRQ, and only a CLD, a SED,
\* such a pull or a reset switches decimal mode: no arithmetic, no interrupt and no
\* store of the host does, whatever the program.  U, once set, is never cleared.
THEOREM ModesSwitchedOnlyBy ==
    SafetySpec => [][ /\ "I" \in reg_f /\ "I" \notin reg_f' => Executes({"CLI", "PLP", "RTI"})
                      /\ ("D" \in reg_f) # ("D" \in reg_f')
                             => reset_pending \/ Executes({"CLD", "SED", "PLP", "RTI"})
                      /\ "U" \in reg_f => "U" \in reg_f' ]_machineVars
<1>1. [Next]_machineVars =>
          [ /\ "I" \in reg_f /\ "I" \notin reg_f' => Executes({"CLI", "PLP", "RTI"})
            /\ ("D" \in reg_f) # ("D" \in reg_f')
                   => reset_pending \/ Executes({"CLD", "SED", "PLP", "RTI"})
            /\ "U" \in reg_f => "U" \in reg_f' ]_machineVars
  BY NextSwitchesModes
<1> QED BY <1>1, PTL DEF SafetySpec

-----------------------------------------------------------------------------
(***************************************************************************)
(* The refinement: masked is the I flag and busy the cycles.  Each action  *)
(* of the tick maps to the action of the contract that has its name.       *)
(***************************************************************************)
LEMMA BoundaryMaps == /\ Boundary <=> Signals!Boundary
                      /\ NoInterrupt <=> Signals!Quiescent
                      /\ IrqEnabled <=> Signals!IrqEnabled
  BY DEF Boundary, Signals!Boundary, NoInterrupt, Signals!Quiescent, IrqEnabled,
     Signals!IrqEnabled

LEMMA TickMaps ==
    ASSUME StateOK, Tick
    PROVE  Signals!Tick
<1>1. CASE ServeReset
  <2>1. reg_f' = {"U", "I"}
    BY <1>1 DEF ServeReset
  <2>2. ("I" \in reg_f)' = TRUE
    BY <2>1
  <2>3. Signals!ServeReset
    BY <1>1, <2>2, Zenon DEF ServeReset, consume_reset, Signals!ServeReset
  <2> QED
    BY <2>3 DEF Signals!Tick
<1>2. CASE CountDown
  <2>1. Signals!CountDown
    BY <1>2 DEF CountDown, lineVars, modeVars, Signals!CountDown, Signals!lines, Signals!modes
  <2> QED
    BY <2>1 DEF Signals!Tick
<1>3. CASE ServeNmi
  <2>1. "I" \in reg_f' /\ stopped' = stopped /\ waiting' = FALSE
    BY <1>3, ServeInterruptOK
  <2>2. cycles' = 7
    BY <1>3 DEF ServeNmi, Interrupt, Spend
  <2>3. Signals!ServeNmi
    BY <1>3, <2>1, <2>2, BoundaryMaps, Zenon DEF ServeNmi, consume_nmi, Signals!ServeNmi
  <2> QED
    BY <2>3 DEF Signals!Tick
<1>4. CASE ServeIrq
  <2>1. "I" \in reg_f' /\ stopped' = stopped /\ waiting' = FALSE
    BY <1>4, ServeInterruptOK
  <2>2. cycles' = 6
    BY <1>4 DEF ServeIrq, Interrupt, Spend
  <2>3. Signals!ServeIrq
    BY <1>4, <2>1, <2>2, BoundaryMaps, Zenon
       DEF ServeIrq, lineVars, Signals!ServeIrq, Signals!lines
  <2> QED
    BY <2>3 DEF Signals!Tick
<1>5. CASE Idle
  <2>1. Signals!Idle
    BY <1>5, BoundaryMaps DEF Idle, vars, lineVars, cpuVars, modeVars, Signals!Idle,
       Signals!vars, Signals!lines, Signals!modes
  <2> QED
    BY <2>1 DEF Signals!Tick
<1>6. CASE Execute
  <2>1. ModesAfter /\ UNCHANGED lineVars /\ cycles' \in 0 .. 7
    BY <1>6, ExecuteOK DEF Flow, CyclesOK
  <2>2. Signals!Quiescent /\ ~stopped /\ ~waiting
    BY <1>6, BoundaryMaps DEF Execute
  <2>3. UNCHANGED Signals!lines
    BY <2>1 DEF lineVars, Signals!lines
  <2>4. ("I" \in reg_f)' \in BOOLEAN
    OBVIOUS
  <2>5. \/ ("I" \in reg_f)' \in BOOLEAN /\ UNCHANGED Signals!modes
        \/ stopped' = TRUE /\ UNCHANGED <<"I" \in reg_f, waiting>>
        \/ waiting' = TRUE /\ UNCHANGED <<"I" \in reg_f, stopped>>
    BY <2>1, <2>4 DEF ModesAfter, modeVars, Signals!modes
  <2>6. Signals!Execute
    BY <2>1, <2>2, <2>3, <2>5, Zenon DEF Signals!Execute
  <2> QED
    BY <2>6 DEF Signals!Tick
<1> QED
  BY <1>1, <1>2, <1>3, <1>4, <1>5, <1>6 DEF Tick

LEMMA HostMaps == Host => Signals!Host \/ UNCHANGED Signals!vars
  BY DEF Host, HostCalls, Reset, Nmi, Irq, ClearIrq, Load, cpuVars, modeVars, lineVars,
     Signals!Host, Signals!Reset, Signals!Nmi, Signals!Irq, Signals!ClearIrq, Signals!modes,
     Signals!vars, Signals!lines

\* The machine implements the control contract: whatever instructions do, a
\* tick serves reset, the cycles, NMI and IRQ in the promised order, and only
\* STP, KIL and WAI stop or suspend the CPU.
THEOREM ImplementsContract == SafetySpec => ControlContract
<1>1. Init => Signals!Init
  BY MachineAssumption DEF MachineAssumption, Init, CpuInit, Signals!Init
<1>2. StateOK /\ [Next]_machineVars => [Signals!Next]_(Signals!vars)
  <2> SUFFICES ASSUME StateOK, [Next]_machineVars
               PROVE  [Signals!Next]_(Signals!vars)
    OBVIOUS
  <2>1. CASE Tick
    BY <2>1, TickMaps DEF Signals!Next
  <2>2. CASE Host
    BY <2>2, HostMaps DEF Signals!Next
  <2>3. CASE UNCHANGED machineVars
    BY <2>3 DEF machineVars, vars, lineVars, cpuVars, modeVars, Signals!vars, Signals!lines,
       Signals!modes
  <2> QED
    BY <2>1, <2>2, <2>3 DEF Next, Clock
<1> QED
  BY <1>1, <1>2, StateCorrect, PTL DEF SafetySpec, ControlContract, Signals!SafetySpec

-----------------------------------------------------------------------------
(***************************************************************************)
(* What the contract's safety says of the machine with its instructions.   *)
(***************************************************************************)
\* No program makes the CPU stopped and waiting at once.
THEOREM MachineHaltsOneWay == SafetySpec => []Signals!HaltedOneWay
<1>1. Signals!Init => Signals!HaltedOneWay
  BY DEF Signals!Init, Signals!HaltedOneWay
<1>2. Signals!HaltedOneWay /\ [Signals!Next]_(Signals!vars) => Signals!HaltedOneWay'
  BY DEF Signals!HaltedOneWay, Signals!Next, Signals!Tick, Signals!Host, Signals!vars,
     Signals!lines, Signals!modes, Signals!ServeReset, Signals!CountDown, Signals!ServeNmi,
     Signals!ServeIrq, Signals!Idle, Signals!Execute, Signals!Reset, Signals!Nmi,
     Signals!Irq, Signals!ClearIrq
<1> QED
  BY <1>1, <1>2, ImplementsContract, PTL DEF ControlContract, Signals!SafetySpec

\* Whatever the program, only a reset starts a stopped CPU again, and only a
\* reset, an NMI or an enabled IRQ ends a wait.
THEOREM MachineWakesUpOnlyFor == SafetySpec => Signals!WakeUpCauses
<1>1. [Signals!Next]_(Signals!vars) =>
        [ /\ stopped /\ ~stopped' => reset_pending
          /\ waiting /\ ~waiting' => reset_pending \/ nmi_pending \/ Signals!IrqEnabled
        ]_(Signals!vars)
  BY DEF Signals!Next, Signals!Tick, Signals!Host, Signals!vars,
     Signals!lines, Signals!modes, Signals!ServeReset, Signals!CountDown, Signals!ServeNmi,
     Signals!ServeIrq, Signals!Idle, Signals!Execute, Signals!Reset, Signals!Nmi,
     Signals!Irq, Signals!ClearIrq
<1> QED
  BY <1>1, ImplementsContract, PTL DEF ControlContract, Signals!SafetySpec, Signals!WakeUpCauses

\* Whatever the program, a pending NMI stays pending until its handler is entered
\* between two instructions, with I set and with the seven cycles to go.
THEOREM MachineNmiIsLatched == SafetySpec => Signals!NmiLatched
<1>1. [Signals!Next]_(Signals!vars) =>
        [ nmi_pending /\ ~nmi_pending' =>
              /\ cycles = 0 /\ ~reset_pending /\ ("I" \in reg_f)'
              /\ cycles' = 7 /\ ~waiting' ]_(Signals!vars)
  BY DEF Signals!Next, Signals!Tick, Signals!Host, Signals!Boundary, Signals!vars,
     Signals!lines, Signals!modes, Signals!ServeReset, Signals!CountDown, Signals!ServeNmi,
     Signals!ServeIrq, Signals!Idle, Signals!Execute, Signals!Reset, Signals!Nmi,
     Signals!Irq, Signals!ClearIrq
<1> QED
  BY <1>1, ImplementsContract, PTL DEF ControlContract, Signals!SafetySpec, Signals!NmiLatched
=============================================================================
