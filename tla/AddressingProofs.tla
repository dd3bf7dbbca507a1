--------------------------- MODULE AddressingProofs ---------------------------
(***************************************************************************)
(* The addresses that the CPU forms, for every program, index and page,    *)
(* and the audit of the entry that it executes next, for every opcode of   *)
(* both models.  The state contributes its ranges (StateOK of              *)
(* MachineProofs); the tables contribute the rest.                         *)
(***************************************************************************)
EXTENDS Addressing, OpcodeAudit, MachineProofs

-----------------------------------------------------------------------------
(***************************************************************************)
(* The tables.                                                             *)
(***************************************************************************)
\* What OpcodeAudit asks of an entry.
Audited(e) == Fresh(e) /\ Accesses(e) <= e.cycles

LEMMA RelativeOps == Relative = {"BCC", "BCS", "BNE", "BEQ", "BPL", "BMI", "BVC", "BVS", "BRA"}
  BY DEF Relative, BranchOp

LEMMA Wdc00Audited == \A i \in 1 .. 64 : Audited(Wdc00[i])
<1> SUFFICES ASSUME NEW i \in 1 .. 64, NEW e, e = Wdc00[i] PROVE Audited(e)
  OBVIOUS
<1>1. e.op \in Readers \cup Writers \cup Jumps \cup Modifiers =>
          OnAccumulator(e) \/ e.mode \notin {"imp", "acc", "rel", "zpr"}
  BY SMTT(60) DEF Wdc00, I, OnAccumulator, Readers, Writers, Jumps, Modifiers
<1>2. (e.op \in BitBranch <=> e.mode = "zpr") /\ (e.op \in Relative <=> e.mode = "rel")
  BY RelativeOps, SMTT(60) DEF Wdc00, I, BitBranch
<1>3. /\ e.mode = "acc" => OnAccumulator(e)
      /\ e.mode = "imm" => e.op \in Readers \cup {"NOP", "BRK"}
  BY SMTT(60) DEF Wdc00, I, OnAccumulator, Readers
<1>4. Accesses(e) <= e.cycles
  BY SMTT(60) DEF Wdc00, I, Accesses, OnStack, OnAccumulator, Readers, Writers, Modifiers, BitBranch
<1> QED BY <1>1, <1>2, <1>3, <1>4 DEF Audited, Fresh

LEMMA Wdc40Audited == \A i \in 1 .. 64 : Audited(Wdc40[i])
<1> SUFFICES ASSUME NEW i \in 1 .. 64, NEW e, e = Wdc40[i] PROVE Audited(e)
  OBVIOUS
<1>1. e.op \in Readers \cup Writers \cup Jumps \cup Modifiers =>
          OnAccumulator(e) \/ e.mode \notin {"imp", "acc", "rel", "zpr"}
  BY SMTT(60) DEF Wdc40, I, OnAccumulator, Readers, Writers, Jumps, Modifiers
<1>2. (e.op \in BitBranch <=> e.mode = "zpr") /\ (e.op \in Relative <=> e.mode = "rel")
  BY RelativeOps, SMTT(60) DEF Wdc40, I, BitBranch
<1>3. /\ e.mode = "acc" => OnAccumulator(e)
      /\ e.mode = "imm" => e.op \in Readers \cup {"NOP", "BRK"}
  BY SMTT(60) DEF Wdc40, I, OnAccumulator, Readers
<1>4. Accesses(e) <= e.cycles
  BY SMTT(60) DEF Wdc40, I, Accesses, OnStack, OnAccumulator, Readers, Writers, Modifiers, BitBranch
<1> QED BY <1>1, <1>2, <1>3, <1>4 DEF Audited, Fresh

LEMMA Wdc80Audited == \A i \in 1 .. 64 : Audited(Wdc80[i])
<1> SUFFICES ASSUME NEW i \in 1 .. 64, NEW e, e = Wdc80[i] PROVE Audited(e)
  OBVIOUS
<1>1. e.op \in Readers \cup Writers \cup Jumps \cup Modifiers =>
          OnAccumulator(e) \/ e.mode \notin {"imp", "acc", "rel", "zpr"}
  BY SMTT(60) DEF Wdc80, I, OnAccumulator, Readers, Writers, Jumps, Modifiers
<1>2. (e.op \in BitBranch <=> e.mode = "zpr") /\ (e.op \in Relative <=> e.mode = "rel")
  BY RelativeOps, SMTT(60) DEF Wdc80, I, BitBranch
<1>3. /\ e.mode = "acc" => OnAccumulator(e)
      /\ e.mode = "imm" => e.op \in Readers \cup {"NOP", "BRK"}
  BY SMTT(60) DEF Wdc80, I, OnAccumulator, Readers
<1>4. Accesses(e) <= e.cycles
  BY SMTT(60) DEF Wdc80, I, Accesses, OnStack, OnAccumulator, Readers, Writers, Modifiers, BitBranch
<1> QED BY <1>1, <1>2, <1>3, <1>4 DEF Audited, Fresh

LEMMA WdcC0Audited == \A i \in 1 .. 64 : Audited(WdcC0[i])
<1> SUFFICES ASSUME NEW i \in 1 .. 64, NEW e, e = WdcC0[i] PROVE Audited(e)
  OBVIOUS
<1>1. e.op \in Readers \cup Writers \cup Jumps \cup Modifiers =>
          OnAccumulator(e) \/ e.mode \notin {"imp", "acc", "rel", "zpr"}
  BY SMTT(60) DEF WdcC0, I, OnAccumulator, Readers, Writers, Jumps, Modifiers
<1>2. (e.op \in BitBranch <=> e.mode = "zpr") /\ (e.op \in Relative <=> e.mode = "rel")
  BY RelativeOps, SMTT(60) DEF WdcC0, I, BitBranch
<1>3. /\ e.mode = "acc" => OnAccumulator(e)
      /\ e.mode = "imm" => e.op \in Readers \cup {"NOP", "BRK"}
  BY SMTT(60) DEF WdcC0, I, OnAccumulator, Readers
<1>4. Accesses(e) <= e.cycles
  BY SMTT(60) DEF WdcC0, I, Accesses, OnStack, OnAccumulator, Readers, Writers, Modifiers, BitBranch
<1> QED BY <1>1, <1>2, <1>3, <1>4 DEF Audited, Fresh

LEMMA WdcAudited == \A o \in Byte : Audited(wdc65c02_table[o])
  BY WdcEntryAt, Wdc00Audited, Wdc40Audited, Wdc80Audited, WdcC0Audited

LEMMA NmosAudited == \A o \in Byte : Audited(nmos6502_table[o])
<1> SUFFICES ASSUME NEW o \in Byte PROVE Audited(nmos6502_table[o])
  OBVIOUS
<1>1. Audited(I("KIL", "imp", 1))
  BY RelativeOps DEF Audited, I, Fresh, Accesses, OnStack, OnAccumulator, Readers,
     Writers, Jumps, Modifiers, BitBranch
<1>2. \A op \in {"ASL", "ROL", "LSR", "ROR"} : Audited(I(op, "abx", 7))
  BY RelativeOps DEF Audited, I, Fresh, Accesses, OnStack, OnAccumulator, Readers,
     Writers, Jumps, Modifiers, BitBranch
<1> QED
  BY <1>1, <1>2, NmosEntryAt, WdcAudited

LEMMA TablesAudited == \A m \in Models : \A o \in Byte : Audited(table[m][o])
  BY WdcAudited, NmosAudited DEF table, Models

LEMMA EntryAudited == StateOK => Audited(entry)
  BY TablesAudited, ReadIsByte DEF StateOK, entry

\* No operation works on an address or a branch offset that an earlier
\* instruction left behind, for any opcode of either model at any pc.
THEOREM NoStaleAddress == SafetySpec => []AddressesAreFresh
<1>1. StateOK => AddressesAreFresh
  BY EntryAudited DEF Audited, AddressesAreFresh
<1> QED BY <1>1, StateCorrect, PTL

\* The base time of every instruction has a cycle for each byte it moves.
THEOREM CyclesCoverAccesses == SafetySpec => []AccessesFitInCycles
<1>1. StateOK => AccessesFitInCycles
  BY EntryAudited DEF Audited, AccessesFitInCycles
<1> QED BY <1>1, StateCorrect, PTL

-----------------------------------------------------------------------------
\* Which bit instruction stands at an opcode of the columns 7 and F.
BitOpAt(o) == IF o % 16 = 7 THEN (IF o < 128 THEN "RMB" ELSE "SMB")
                            ELSE (IF o < 128 THEN "BBR" ELSE "BBS")

BitColumn(o, e) == /\ e.op \in BitOps <=> o % 8 = 7
                   /\ o % 8 = 7 => e.op = BitOpAt(o)

\* A block of 64 entries with low in its column 7, high in its column F, and no
\* other bit instruction.
Columns(block, low, high) ==
    \A i \in 1 .. 64 : /\ block[i].op \in BitOps <=> i \in {8, 16, 24, 32, 40, 48, 56, 64}
                       /\ i \in {8, 24, 40, 56} => block[i].op = low
                       /\ i \in {16, 32, 48, 64} => block[i].op = high

LEMMA Wdc00Columns == Columns(Wdc00, "RMB", "BBR")
  BY SMTT(60) DEF Wdc00, I, Columns, BitOps, BitBranch

LEMMA Wdc40Columns == Columns(Wdc40, "RMB", "BBR")
  BY SMTT(60) DEF Wdc40, I, Columns, BitOps, BitBranch

LEMMA Wdc80Columns == Columns(Wdc80, "SMB", "BBS")
  BY SMTT(60) DEF Wdc80, I, Columns, BitOps, BitBranch

LEMMA WdcC0Columns == Columns(WdcC0, "SMB", "BBS")
  BY SMTT(60) DEF WdcC0, I, Columns, BitOps, BitBranch

LEMMA WdcColumns == \A o \in Byte : BitColumn(o, wdc65c02_table[o])
<1> SUFFICES ASSUME NEW o \in Byte PROVE BitColumn(o, wdc65c02_table[o])
  OBVIOUS
<1> DEFINE e == wdc65c02_table[o]
<1>1. PICK i \in 1 .. 64 :
          \/ o = i - 1   /\ e = Wdc00[i]
          \/ o = i + 63  /\ e = Wdc40[i]
          \/ o = i + 127 /\ e = Wdc80[i]
          \/ o = i + 191 /\ e = WdcC0[i]
  BY WdcEntryAt
<1> HIDE DEF e
<1>2. /\ o % 8 = 7 <=> i \in {8, 16, 24, 32, 40, 48, 56, 64}
      /\ o % 16 = 7 <=> i \in {8, 24, 40, 56}
  <2>1. \E k \in 0 .. 3 : o = i - 1 + 64 * k
    BY <1>1
  <2> QED BY <2>1
<1>3. ASSUME NEW block, NEW low, NEW high, Columns(block, low, high), e = block[i]
      PROVE  /\ e.op \in BitOps <=> i \in {8, 16, 24, 32, 40, 48, 56, 64}
             /\ i \in {8, 24, 40, 56} => e.op = low
             /\ i \in {16, 32, 48, 64} => e.op = high
  BY <1>3 DEF Columns
<1>4. CASE o < 128
  <2>1. \/ e = Wdc00[i]
        \/ e = Wdc40[i]
    BY <1>1, <1>4
  <2>2. /\ e.op \in BitOps <=> i \in {8, 16, 24, 32, 40, 48, 56, 64}
        /\ i \in {8, 24, 40, 56} => e.op = "RMB"
        /\ i \in {16, 32, 48, 64} => e.op = "BBR"
    <3>1. CASE e = Wdc00[i]
      BY <1>3, <3>1, Wdc00Columns
    <3>2. CASE e = Wdc40[i]
      BY <1>3, <3>2, Wdc40Columns
    <3> QED BY <2>1, <3>1, <3>2
  <2> QED
    BY <1>2, <1>4, <2>2 DEF BitColumn, BitOpAt, Byte, e
<1>5. CASE o >= 128
  <2>1. \/ e = Wdc80[i]
        \/ e = WdcC0[i]
    BY <1>1, <1>5
  <2>2. /\ e.op \in BitOps <=> i \in {8, 16, 24, 32, 40, 48, 56, 64}
        /\ i \in {8, 24, 40, 56} => e.op = "SMB"
        /\ i \in {16, 32, 48, 64} => e.op = "BBS"
    <3>1. CASE e = Wdc80[i]
      BY <1>3, <3>1, Wdc80Columns
    <3>2. CASE e = WdcC0[i]
      BY <1>3, <3>2, WdcC0Columns
    <3> QED BY <2>1, <3>1, <3>2
  <2> QED
    BY <1>2, <1>5, <2>2 DEF BitColumn, BitOpAt, Byte, e
<1> QED
  BY <1>4, <1>5 DEF Byte

\* The official opcodes of the NMOS part leave out the columns 7 and F.
LEMMA OfficialColumns == \A o \in Byte : Official(o) => o % 8 # 7
<1> SUFFICES ASSUME NEW o \in Byte, o % 8 = 7 PROVE ~Official(o)
  OBVIOUS
<1>1. (o % 16) \in {7, 15} /\ (o \div 16) + 1 \in 1 .. 16
  BY DEF Byte
<1>2. \A k \in 1 .. 16 : 7 \notin official[k] /\ 15 \notin official[k]
  BY DEF official
<1> QED
  BY <1>1, <1>2 DEF Official

LEMMA NmosHasNoBitOps == \A o \in Byte : nmos6502_table[o].op \notin BitOps
<1> SUFFICES ASSUME NEW o \in Byte PROVE nmos6502_table[o].op \notin BitOps
  OBVIOUS
<1>1. I("KIL", "imp", 1).op \notin BitOps
  BY DEF I, BitOps, BitBranch
<1>2. \A op \in {"ASL", "ROL", "LSR", "ROR"} : I(op, "abx", 7).op \notin BitOps
  BY DEF I, BitOps, BitBranch
<1>3. Official(o) => wdc65c02_table[o].op \notin BitOps
  BY WdcColumns, OfficialColumns DEF BitColumn
<1> QED
  BY <1>1, <1>2, <1>3, NmosEntryAt

\* Two opcodes of those columns with one operation and one bit are the same.
LEMMA BitOpDecides ==
    ASSUME NEW o \in Byte, NEW p \in Byte, o % 8 = 7, p % 8 = 7,
           BitOpAt(o) = BitOpAt(p), Bit(o) = Bit(p)
    PROVE  o = p
<1>1. (o % 16 = 7 <=> p % 16 = 7) /\ (o < 128 <=> p < 128)
  BY DEF BitOpAt
<1>2. (o \div 16) % 8 = (p \div 16) % 8
  BY DEF Bit
<1> QED
  BY <1>1, <1>2 DEF Byte

\* The 65C02 executes RMB, SMB, BBR and BBS for each bit, each at one opcode of
\* the columns 7 and F, and the NMOS part executes none of them.
THEOREM BitInstructionsCovered == SafetySpec => []BitInstructionsComplete
<1>1. StateOK => BitInstructionsComplete
  <2> SUFFICES ASSUME StateOK PROVE BitInstructionsComplete
    OBVIOUS
  <2> DEFINE o == Read(pc)
  <2>1. o \in Byte /\ model \in Models
    BY ReadIsByte DEF StateOK
  <2>2. CASE model = "nmos6502"
    <3>1. table[model] = nmos6502_table
      BY <2>2 DEF table, Models
    <3>2. entry.op \notin BitOps
      BY <2>1, <3>1, NmosHasNoBitOps DEF entry
    <3> QED BY <2>2, <3>2 DEF BitInstructionsComplete
  <2>3. CASE model = "wdc65c02"
    <3>1. table[model] = wdc65c02_table
      BY <2>3 DEF table, Models
    <3>2. BitColumn(o, entry)
      BY <2>1, <3>1, WdcColumns DEF entry
    <3>3. ASSUME entry.op \in BitOps, NEW p \in Byte \ {o}, table[model][p].op = entry.op
          PROVE  Bit(p) # Bit(o)
      <4>1. BitColumn(p, table[model][p])
        BY <3>1, WdcColumns
      <4>2. o % 8 = 7 /\ p % 8 = 7 /\ BitOpAt(o) = BitOpAt(p)
        BY <3>2, <3>3, <4>1 DEF BitColumn
      <4> HIDE DEF o
      <4> QED BY <2>1, <4>2, BitOpDecides
    <3>4. entry.op \in BitOps <=> o % 8 = 7
      BY <3>2 DEF BitColumn
    <3> QED BY <2>3, <3>3, <3>4 DEF BitInstructionsComplete
  <2> QED BY <2>1, <2>2, <2>3 DEF Models
<1> QED BY <1>1, StateCorrect, PTL

-----------------------------------------------------------------------------
(***************************************************************************)
(* Adding words and letting the carry or the borrow of the low byte into   *)
(* the high one are the same.                                              *)
(***************************************************************************)
LEMMA WordOfSum ==
    ASSUME NEW t \in Int, NEW u \in Int, 0 <= u, u < 65536,
           t = u \/ t = u + 65536 \/ t = u - 65536
    PROVE  t % 65536 = u
<1>1. CASE t = u
  BY <1>1
<1>2. CASE t = u + 65536
  BY <1>2
<1>3. CASE t = u - 65536
  BY <1>3
<1> QED BY <1>1, <1>2, <1>3

LEMMA CarriedIsSum ==
    ASSUME NEW w \in Word, NEW n \in -128 .. 255
    PROVE  /\ Carried(w, n).at = Wrap16(w + n)
           /\ Carried(w, n).crosses <=> ~SamePage(Wrap16(w + n), w)
<1> DEFINE h == w \div 256
           l == w % 256
           low == l + n
           k == low \div 256
           b == low % 256
           hi == (h + k) % 256
<1>1. h \in 0 .. 255 /\ l \in 0 .. 255 /\ w = 256 * h + l
  BY DEF Word
<1> HIDE DEF h, l
<1>2. k \in {-1, 0, 1} /\ b \in 0 .. 255 /\ low = 256 * k + b
  BY <1>1
<1> HIDE DEF k, b
<1>3. hi \in 0 .. 255 /\ (hi = h + k \/ hi = h + k + 256 \/ hi = h + k - 256)
  BY <1>1, <1>2, SMTT(30)
<1>4. w + n = 256 * (h + k) + b
  BY <1>1, <1>2
<1>5. k = 0 <=> hi = h
  BY <1>1, <1>2
<1> HIDE DEF hi
<1>6. (w + n) % 65536 = 256 * hi + b
  <2> DEFINE t == w + n
             u == 256 * hi + b
  <2>1. t \in Int /\ u \in Int /\ 0 <= u /\ u < 65536
    BY <1>2, <1>3 DEF Word
  <2>2. t = u \/ t = u + 65536 \/ t = u - 65536
    BY <1>1, <1>2, <1>3, <1>4
  <2> HIDE DEF t, u
  <2>3. t % 65536 = u
    BY <2>1, <2>2, WordOfSum
  <2> QED BY <2>3 DEF t, u
<1>7. ((w + n) % 65536) \div 256 = hi
  BY <1>2, <1>3, <1>6
<1>8. low \notin 0 .. 255 <=> k # 0
  BY <1>1, <1>2
<1>9. Carried(w, n).at = 256 * hi + b
  <2>1. Carried(w, n).at = Pair(b, hi)
    BY DEF Carried, Wrap8, Low, High, hi, b, k, h, l
  <2>2. Pair(b, hi) = 256 * hi + b
    BY <1>2, <1>3 DEF Pair
  <2> QED BY <2>1, <2>2
<1>10. Carried(w, n).crosses <=> low \notin 0 .. 255
  BY DEF Carried, Low, Byte, l
<1>11. SamePage(Wrap16(w + n), w) <=> hi = h
  BY <1>7 DEF SamePage, High, Wrap16, h
<1> QED BY <1>5, <1>6, <1>8, <1>9, <1>10, <1>11 DEF Wrap16

LEMMA BaseIsWord == \A mode : StateOK => Base(mode) \in Word
  BY ReadIsByte, Read16IsWord, PairsAreWords DEF StateOK, Base, Arg16, ZeroPage16

\* An indexed mode finds the cell that the byte-wise sum addresses and charges a
\* cycle exactly when the low byte carries, for every base, index and page.
THEOREM IndexingCarries == SafetySpec => []IndexedAddresses
<1>1. StateOK => IndexedAddresses
  <2> SUFFICES ASSUME StateOK, NEW mode \in {"abx", "aby", "izy"}
               PROVE  LET c == Carried(Base(mode), reg[IndexOf[mode]])
                      IN  /\ EffectiveAddress(mode) = c.at
                          /\ PageCross(mode) = IF c.crosses THEN 1 ELSE 0
    BY DEF IndexedAddresses, IndexOf
  <2> DEFINE base  == Base(mode)
             index == reg[IndexOf[mode]]
             at    == Wrap16(base + index)
  <2>1. base \in Word
    BY BaseIsWord
  <2>2. index \in -128 .. 255
    BY DEF IndexOf, StateOK, RegistersOK, Byte
  <2>3. EffectiveAddress(mode) = at
    BY DEF EffectiveAddress, IndexOf
  <2>4. PageCross(mode) = IF SamePage(at, base) THEN 0 ELSE 1
    BY <2>3 DEF PageCross
  <2> HIDE DEF base, index
  <2>5. Carried(base, index).at = at /\ (Carried(base, index).crosses <=> ~SamePage(at, base))
    BY <2>1, <2>2, CarriedIsSum
  <2> QED BY <2>3, <2>4, <2>5 DEF base, index
<1> QED BY <1>1, StateCorrect, PTL

-----------------------------------------------------------------------------
(***************************************************************************)
(* Branches.                                                               *)
(***************************************************************************)
\* The sign-extended offset moves as far as the signed byte, modulo 2^16.
LEMMA OffsetIsSigned ==
    ASSUME NEW w \in Word, NEW b \in Byte
    PROVE  /\ Signed(b) \in -128 .. 255
           /\ Wrap16(w + SignExtend(b)) = Wrap16(w + Signed(b))
  BY DEF Word, Byte, Signed, SignExtend, SignBit, Wrap16

\* The offset is the last byte of the instruction.
LEMMA OffsetIsLastByte ==
    ASSUME NEW mode \in {"rel", "zpr"}, pc \in Word
    PROVE  LET next == Wrap16(pc + Length(mode))
           IN  /\ next \in Word
               /\ RelativeOffset(mode) = SignExtend(Read(Wrap16(next - 1)))
<1>1. CASE mode = "rel"
  <2>1. Length(mode) = 2 /\ RelativeOffset(mode) = SignExtend(Read(Wrap16(pc + 1)))
    BY <1>1 DEF Length, RelativeOffset, Arg
  <2>2. Wrap16(Wrap16(pc + 2) - 1) = Wrap16(pc + 1) /\ Wrap16(pc + 2) \in Word
    BY DEF Wrap16, Word
  <2> QED BY <2>1, <2>2
<1>2. CASE mode = "zpr"
  <2>1. Length(mode) = 3 /\ RelativeOffset(mode) = SignExtend(Read(Wrap16(pc + 2)))
    BY <1>2 DEF Length, RelativeOffset
  <2>2. Wrap16(Wrap16(pc + 3) - 1) = Wrap16(pc + 2) /\ Wrap16(pc + 3) \in Word
    BY DEF Wrap16, Word
  <2> QED BY <2>1, <2>2
<1> QED BY <1>1, <1>2

LEMMA BranchesAreBranches ==
    ASSUME NEW d, d.op \in Branches, Operate(d)
    PROVE  Branch(d)
<1>1. d.op \in {"BCC", "BCS", "BNE", "BEQ", "BPL", "BMI", "BVC", "BVS", "BRA", "BBR", "BBS"}
  BY DEF Branches, BranchOp
<1>2. ~LoadRegister(d) /\ ~Compare(d)
  BY <1>1 DEF LoadRegister, LoadOp, Compare, CompareOp
<1>3. ~Logical(d) /\ ~AddSubtract(d) /\ ~BitTest(d) /\ ~NoOperation(d)
  BY <1>1 DEF Logical, AddSubtract, BitTest, NoOperation
<1>4. ~StepIndex(d) /\ ~TransferRegister(d) /\ ~SetFlag(d)
  BY <1>1 DEF StepIndex, IncOp, DecOp, TransferRegister, Transfer, SetFlag, FlagOp
<1>5. ~Store(d) /\ ~Shift(d) /\ ~IncrementDecrement(d) /\ ~WriteBit(d) /\ ~TestAndWriteBits(d)
  BY <1>1 DEF Store, StoreOp, Shift, IncrementDecrement, WriteBit, TestAndWriteBits
<1>6. ~PushRegister(d) /\ ~PullRegister(d) /\ ~TransferStackPointer(d)
  BY <1>1 DEF PushRegister, PushOp, PullRegister, PullOp, TransferStackPointer
<1>7. ~Jump(d) /\ ~Return(d) /\ ~Break(d) /\ ~Halt(d)
  BY <1>1 DEF Jump, Return, Break, Halt
<1> QED
  BY <1>2, <1>3, <1>4, <1>5, <1>6, <1>7, Zenon DEF Operate

\* Where a branch goes on, and when: d is its decoded form.
Goes(next, offset, base) ==
    LET c == Carried(next, Signed(offset))
    IN  \/ pc' = next /\ cycles' = base - 1
        \/ pc' = c.at /\ cycles' = base + (IF c.crosses THEN 1 ELSE 0)

LEMMA BranchGoes ==
    ASSUME NEW d, Branch(d), d.next \in Word, d.cycles \in 1 .. 8,
           NEW offset \in Byte, d.offset = SignExtend(offset)
    PROVE  Goes(d.next, offset, d.cycles)
<1> DEFINE target  == Wrap16(d.next + d.offset)
           near    == SamePage(d.next, target)
           penalty == CASE ~Taken(d) -> 0
                        [] Taken(d) /\ SamePage(d.next, target) -> 1
                        [] OTHER -> 2
           c       == Carried(d.next, Signed(offset))
<1>1. pc' = (IF Taken(d) THEN target ELSE d.next) /\ Spend(d.cycles + penalty)
  BY DEF Branch
<1>2. /\ ~Taken(d) => penalty = 0
      /\ Taken(d) /\ near => penalty = 1
      /\ Taken(d) /\ ~near => penalty = 2
  BY Zenon
<1>3. c.at = target /\ (c.crosses <=> ~near)
  <2>1. Signed(offset) \in -128 .. 255 /\ target = Wrap16(d.next + Signed(offset))
    BY OffsetIsSigned
  <2>2. near <=> SamePage(target, d.next)
    BY DEF SamePage
  <2> QED BY <2>1, <2>2, CarriedIsSum, ZenonT(60)
<1> HIDE DEF penalty, target, near, c
<1>4. CASE ~Taken(d)
  <2>1. pc' = d.next /\ penalty = 0
    BY <1>1, <1>2, <1>4
  <2>2. cycles' = d.cycles - 1
    BY <1>1, <2>1 DEF Spend
  <2> QED BY <2>1, <2>2 DEF Goes
<1>5. CASE Taken(d) /\ near
  <2>1. pc' = c.at /\ penalty = 1 /\ ~c.crosses
    BY <1>1, <1>2, <1>3, <1>5
  <2>2. cycles' = d.cycles + 0
    BY <1>1, <2>1 DEF Spend
  <2> QED BY <2>1, <2>2 DEF Goes, c
<1>6. CASE Taken(d) /\ ~near
  <2>1. pc' = c.at /\ penalty = 2 /\ c.crosses
    BY <1>1, <1>2, <1>3, <1>6
  <2>2. cycles' = d.cycles + 1
    BY <1>1, <2>1 DEF Spend
  <2> QED BY <2>1, <2>2 DEF Goes, c
<1> QED BY <1>4, <1>5, <1>6

\* Every branch of every program goes on behind itself or goes to the target that
\* its signed offset names, and pays for a taken branch and a crossed page.
THEOREM BranchesLand == SafetySpec => BranchTargets
<1> DEFINE inst == table[model][Read(pc)]
           next == Wrap16(pc + Length(inst.mode))
           A    == Executes(Branches) /\ UNCHANGED calls_left =>
                       Goes(next, Read(Wrap16(next - 1)), inst.cycles)
<1>1. StateOK /\ CallsOK /\ [Next]_machineVars => [A]_machineVars
  <2> SUFFICES ASSUME StateOK, CallsOK, Next, Executes(Branches), UNCHANGED calls_left
               PROVE  Goes(next, Read(Wrap16(next - 1)), inst.cycles)
    OBVIOUS
  <2>1. Execute
    BY ExecutesExecute
  <2>2. /\ Decoded.op = inst.op /\ Decoded.cycles = inst.cycles /\ Decoded.next = next
        /\ Decoded.offset = RelativeOffset(inst.mode)
    BY DEF Decoded
  <2>3. inst.op \in Branches
    BY DEF Executes
  <2>4. Branch(Decoded)
    <3>1. Operate(Decoded)
      BY <2>1, Zenon DEF Execute
    <3> QED BY <2>2, <2>3, <3>1, BranchesAreBranches
  <2>5. inst.mode \in {"rel", "zpr"}
    <3>1. Fresh(inst)
      BY EntryAudited DEF Audited, entry
    <3> QED BY <2>3, <3>1 DEF Fresh, Branches, Relative, BitBranch
  <2>6. next \in Word /\ Decoded.offset = SignExtend(Read(Wrap16(next - 1)))
    BY <2>2, <2>5, OffsetIsLastByte DEF StateOK, AddressesOK
  <2>7. Decoded.cycles \in 1 .. 8
    BY DecodeOK DEF DecodedOK
  <2>8. Read(Wrap16(next - 1)) \in Byte
    BY ReadIsByte DEF StateOK
  <2> HIDE DEF next, inst
  <2> QED BY <2>2, <2>4, <2>6, <2>7, <2>8, BranchGoes
<1>2. [A]_machineVars =>
          [ Executes(Branches) /\ UNCHANGED calls_left =>
                LET c == Carried(next, Signed(Read(Wrap16(next - 1))))
                IN  \/ pc' = next /\ cycles' = inst.cycles - 1
                    \/ pc' = c.at /\ cycles' = inst.cycles + (IF c.crosses THEN 1 ELSE 0) ]_machineVars
  BY DEF Goes
<1> QED
  BY <1>1, <1>2, StateCorrect, CallsInit, CallsNext, PTL DEF SafetySpec, BranchTargets
===============================================================================
