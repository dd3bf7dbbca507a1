---------------------------- MODULE OperatorProofs ----------------------------
(***************************************************************************)
(* What the operators that the machine is built from return: bytes, words  *)
(* and a status without the B flag from the arithmetic, a well-formed      *)
(* instruction from every entry of both dispatch tables.                   *)
(***************************************************************************)
EXTENDS Alu, OpcodeTable, TLAPS

\* The flags that the register can hold.
Settable == Flag \ {"B"}

-----------------------------------------------------------------------------
LEMMA WrapsAreWords ==
    ASSUME NEW n \in Int
    PROVE  Wrap8(n) \in Byte /\ Wrap16(n) \in Word /\ Wrap8(n) \in Word
  BY DEF Wrap8, Wrap16, Byte, Word

LEMMA HalvesAreBytes ==
    ASSUME NEW w \in Word
    PROVE  /\ Low(w) \in Byte /\ High(w) \in Byte
           /\ Pair(Low(w), High(w)) = w
  BY DEF Low, High, Pair, Byte, Word

LEMMA PairsAreWords ==
    ASSUME NEW lo \in Byte, NEW hi \in Byte
    PROVE  Pair(lo, hi) \in Word
  BY DEF Pair, Byte, Word

LEMMA OffsetsAreWords ==
    ASSUME NEW b \in Byte
    PROVE  SignExtend(b) \in Word
  BY DEF SignExtend, SignBit, Byte, Word

\* The cursor of load() finds the i-th byte again from the cell that it is in.
LEMMA CursorWraps ==
    ASSUME NEW w \in Word, NEW i \in Nat, 1 <= i, i <= 65536
    PROVE  Wrap16(w + i - 1) \in Word /\ Wrap16(Wrap16(w + i - 1) - w) = i - 1
<1>1. w \in Int /\ 0 <= w /\ w < 65536
  BY DEF Word
<1>2. CASE w + i - 1 < 65536
  <2>1. Wrap16(w + i - 1) = w + i - 1
    BY <1>1, <1>2 DEF Wrap16
  <2>2. Wrap16(i - 1) = i - 1
    BY DEF Wrap16
  <2> QED
    BY <1>1, <1>2, <2>1, <2>2 DEF Word
<1>3. CASE ~(w + i - 1 < 65536)
  <2>1. Wrap16(w + i - 1) = w + i - 1 - 65536
    BY <1>1, <1>3 DEF Wrap16
  <2>2. Wrap16(w + i - 1 - 65536 - w) = i - 1
    BY <1>1, <1>3 DEF Wrap16
  <2> QED
    BY <1>1, <1>3, <2>1, <2>2 DEF Word
<1> QED
  BY <1>2, <1>3

LEMMA FromBitsIsByte == \A S : FromBits(S) \in Byte
  BY DEF FromBits, Byte

LEMMA BitwiseIsByte ==
    \A b, c : BitAnd(b, c) \in Byte /\ BitOr(b, c) \in Byte /\ BitXor(b, c) \in Byte
              /\ BitClear(b, c) \in Byte
  BY FromBitsIsByte DEF BitAnd, BitOr, BitXor, BitClear

LEMMA StatusIsByte == \A F, brk : StatusByte(F) \in Byte /\ PushedStatus(F, brk) \in Byte
  BY FromBitsIsByte DEF StatusByte, PushedStatus

\* The bits of the byte that a set of bits makes up.
IsSumOfBits(n, b0, b1, b2, b3, b4, b5, b6, b7) ==
    n = b0 + 2 * b1 + 4 * b2 + 8 * b3 + 16 * b4 + 32 * b5 + 64 * b6 + 128 * b7

HasBits(n, b0, b1, b2, b3, b4, b5, b6, b7) ==
    /\ (n \div 1) % 2 = b0   /\ (n \div 2) % 2 = b1
    /\ (n \div 4) % 2 = b2   /\ (n \div 8) % 2 = b3
    /\ (n \div 16) % 2 = b4  /\ (n \div 32) % 2 = b5
    /\ (n \div 64) % 2 = b6  /\ (n \div 128) % 2 = b7

LEMMA BitsOfSum ==
    ASSUME NEW b0 \in {0, 1}, NEW b1 \in {0, 1}, NEW b2 \in {0, 1}, NEW b3 \in {0, 1},
           NEW b4 \in {0, 1}, NEW b5 \in {0, 1}, NEW b6 \in {0, 1}, NEW b7 \in {0, 1},
           NEW n, IsSumOfBits(n, b0, b1, b2, b3, b4, b5, b6, b7)
    PROVE  HasBits(n, b0, b1, b2, b3, b4, b5, b6, b7)
  BY DEF IsSumOfBits, HasBits

LEMMA BitsOfByte == \A S \in SUBSET (0 .. 7) : Bits(FromBits(S)) = S
<1> SUFFICES ASSUME NEW S \in SUBSET (0 .. 7) PROVE Bits(FromBits(S)) = S
  OBVIOUS
<1> DEFINE b(i) == IF i \in S THEN 1 ELSE 0
           n    == FromBits(S)
<1>1. IsSumOfBits(n, b(0), b(1), b(2), b(3), b(4), b(5), b(6), b(7))
  BY DEF FromBits, IsSumOfBits
<1>2. \A i : b(i) \in {0, 1} /\ (b(i) = 1 <=> i \in S)
  OBVIOUS
<1> HIDE DEF b, n
<1>3. HasBits(n, b(0), b(1), b(2), b(3), b(4), b(5), b(6), b(7))
  BY <1>1, <1>2, BitsOfSum
<1>4. \A i \in 0 .. 7 : i \in Bits(n) <=> (n \div <<1, 2, 4, 8, 16, 32, 64, 128>>[i + 1]) % 2 = 1
  BY DEF Bits
<1>5. \A i \in 0 .. 7 : (n \div <<1, 2, 4, 8, 16, 32, 64, 128>>[i + 1]) % 2 = b(i)
  BY <1>3 DEF HasBits
<1>6. \A i \in 0 .. 7 : i \in Bits(n) <=> i \in S
  BY <1>2, <1>4, <1>5
<1>7. Bits(n) \subseteq 0 .. 7
  BY DEF Bits
<1> QED BY <1>6, <1>7 DEF n

\* Every set of flags comes back from the byte that stands for it.
LEMMA StatusRoundTrip ==
    ASSUME NEW F, F \subseteq Flag
    PROVE  FlagsOf(StatusByte(F)) = F
<1> DEFINE S == {FlagBit[f] : f \in F}
<1>1. \A f \in Flag : FlagBit[f] \in 0 .. 7
  BY DEF Flag, FlagBit
<1>2. \A f, g \in Flag : FlagBit[f] = FlagBit[g] => f = g
  BY DEF Flag, FlagBit
<1>3. S \in SUBSET (0 .. 7)
  BY <1>1
<1>4. Bits(FromBits(S)) = S
  BY <1>3, BitsOfByte
<1>5. FlagsOf(StatusByte(F)) = {f \in Flag : FlagBit[f] \in S}
  BY <1>4 DEF FlagsOf, StatusByte
<1> QED BY <1>2, <1>5

\* A pull never sets B.
LEMMA PulledIsSettable == \A b : PulledFlags(b) \subseteq Settable
  BY DEF PulledFlags, FlagsOf, Settable, Flag

LEMMA AssignIsSettable ==
    ASSUME NEW F, F \subseteq Settable, NEW g, DOMAIN g \subseteq Settable
    PROVE  Assign(F, g) \subseteq Settable
  BY DEF Assign

LEMMA SetZNIsSettable ==
    ASSUME NEW F, F \subseteq Settable, NEW v
    PROVE  SetZN(F, v) \subseteq Settable
<1>1. DOMAIN [Z |-> (v = 0), N |-> SignBit(v)] \subseteq Settable
  BY DEF Settable, Flag
<1> QED
  BY <1>1, AssignIsSettable DEF SetZN

LEMMA CarryInIsBit == \A F : CarryIn(F) \in {0, 1}
  BY DEF CarryIn

-----------------------------------------------------------------------------
\* What an arithmetic operation hands to the instruction.
ResultOK(r) == r.value \in Byte /\ r.flags \subseteq Settable /\ r.cycles \in {0, 1}

LEMMA CVIsSettable ==
    ASSUME NEW F, F \subseteq Settable, NEW p, NEW q
    PROVE  Assign(F, [C |-> p, V |-> q]) \subseteq Settable
<1>1. DOMAIN [C |-> p, V |-> q] \subseteq Settable
  BY DEF Settable, Flag
<1> QED
  BY <1>1, AssignIsSettable

LEMMA BinaryAddOK ==
    ASSUME NEW F, F \subseteq Settable, NEW a \in Byte, NEW v \in Byte
    PROVE  ResultOK(BinaryAdd(F, a, v))
<1> DEFINE sum == a + v + CarryIn(F)
<1>1. Wrap8(sum) \in Byte
  <2>1. sum \in Int
    BY CarryInIsBit DEF Byte
  <2> QED
    BY <2>1, WrapsAreWords
<1>2. Assign(SetZN(F, Wrap8(sum)), [C |-> sum > 255, V |-> Overflow(a, v, Wrap8(sum))])
          \subseteq Settable
  BY SetZNIsSettable, CVIsSettable
<1> QED
  BY <1>1, <1>2 DEF BinaryAdd, ResultOK

LEMMA DecimalAdcOK ==
    ASSUME NEW model, NEW F, F \subseteq Settable, NEW a \in Byte, NEW v \in Byte
    PROVE  ResultOK(DecimalAdc(model, F, a, v))
<1> DEFINE sum      == a + v + CarryIn(F)
           lowCarry == LowNibble(a) + LowNibble(v) + CarryIn(F) > 9
           lowFixed == IF lowCarry THEN sum + 6 ELSE sum
           adjusted == IF lowFixed > 153 THEN lowFixed + 96 ELSE lowFixed
           middle   == Wrap8(HighNibble(a) + HighNibble(v) + (IF lowCarry THEN 16 ELSE 0))
           CV       == Assign(F, [C |-> adjusted > 255, V |-> Overflow(a, v, middle)])
<1>1. Wrap8(adjusted) \in Byte
  <2>1. sum \in Int
    BY CarryInIsBit DEF Byte
  <2>2. adjusted \in Int
    BY <2>1
  <2> QED
    BY <2>2, WrapsAreWords
<1>2. CV \subseteq Settable
  BY CVIsSettable
<1>3. Assign(CV, [Z |-> (Wrap8(sum) = 0), N |-> SignBit(middle)]) \subseteq Settable
  <2>1. DOMAIN [Z |-> (Wrap8(sum) = 0), N |-> SignBit(middle)] \subseteq Settable
    BY DEF Settable, Flag
  <2> HIDE DEF CV
  <2> QED
    BY <1>2, <2>1, AssignIsSettable
<1>4. SetZN(CV, Wrap8(adjusted)) \subseteq Settable
  <2> HIDE DEF CV
  <2> QED
    BY <1>2, SetZNIsSettable
<1> QED
  BY <1>1, <1>3, <1>4 DEF DecimalAdc, ResultOK

LEMMA InvertedIsByte == \A v \in Byte : 255 - v \in Byte
  BY DEF Byte

LEMMA DecimalSbcOK ==
    ASSUME NEW model, NEW F, F \subseteq Settable, NEW a \in Byte, NEW v \in Byte
    PROVE  ResultOK(DecimalSbc(model, F, a, v))
<1> DEFINE binary    == BinaryAdd(F, a, 255 - v)
           borrow    == 1 - CarryIn(F)
           lowBorrow == LowNibble(a) < LowNibble(v) + borrow
           lowFixed  == Wrap16(a - v - borrow - (IF lowBorrow THEN 6 ELSE 0))
           adjusted  == IF lowFixed > 153 THEN Wrap16(lowFixed - 96) ELSE lowFixed
<1>1. ResultOK(binary)
  BY InvertedIsByte, BinaryAddOK
<1>2. Wrap8(adjusted) \in Byte
  <2>1. a - v - borrow - (IF lowBorrow THEN 6 ELSE 0) \in Int
    BY CarryInIsBit DEF Byte
  <2>2. lowFixed \in Int
    BY <2>1, WrapsAreWords DEF Word
  <2> HIDE DEF lowFixed
  <2>3. adjusted \in Int
    BY <2>2, WrapsAreWords DEF Word
  <2> QED
    BY <2>3, WrapsAreWords
<1>3. SetZN(binary.flags, Wrap8(adjusted)) \subseteq Settable
  BY <1>1, SetZNIsSettable DEF ResultOK
<1> HIDE DEF adjusted
<1> QED
  BY <1>1, <1>2, <1>3 DEF DecimalSbc, ResultOK, adjusted

\* ADC and SBC return a byte and a status without B, and add at most one cycle.
THEOREM ArithmeticOK ==
    ASSUME NEW model, NEW F, F \subseteq Settable, NEW a \in Byte, NEW v \in Byte
    PROVE  ResultOK(Adc(model, F, a, v)) /\ ResultOK(Sbc(model, F, a, v))
  BY BinaryAddOK, DecimalAdcOK, DecimalSbcOK, InvertedIsByte DEF Adc, Sbc

LEMMA CompareIsSettable ==
    ASSUME NEW F, F \subseteq Settable, NEW lhs, NEW rhs
    PROVE  CompareFlags(F, lhs, rhs) \subseteq Settable
<1>1. DOMAIN [C |-> lhs >= rhs] \subseteq Settable
  BY DEF Settable, Flag
<1> QED
  BY <1>1, SetZNIsSettable, AssignIsSettable DEF CompareFlags

LEMMA ShiftedOK ==
    ASSUME NEW F, F \subseteq Settable, NEW v \in Byte, NEW c
    PROVE  Shifted(F, v, c).value \in Byte /\ Shifted(F, v, c).flags \subseteq Settable
<1>1. DOMAIN [C |-> c] \subseteq Settable
  BY DEF Settable, Flag
<1>2. Assign(SetZN(F, v), [C |-> c]) \subseteq Settable
  BY <1>1, SetZNIsSettable, AssignIsSettable
<1> QED
  BY <1>2 DEF Shifted

\* A shift returns a byte and a status without B.
LEMMA ShiftsOK ==
    ASSUME NEW F, F \subseteq Settable, NEW v \in Byte,
           NEW op \in {"ASL", "LSR", "ROL", "ROR"}
    PROVE  /\ ShiftResult(op, F, v).value \in Byte
           /\ ShiftResult(op, F, v).flags \subseteq Settable
<1>1. /\ Wrap8(2 * v) \in Byte
      /\ Wrap8(2 * v) + CarryIn(F) \in Byte
      /\ v \div 2 \in Byte
      /\ (v \div 2) + 128 * CarryIn(F) \in Byte
  <2> CarryIn(F) \in 0 .. 1
    BY CarryInIsBit
  <2> HIDE DEF CarryIn
  <2>1. Wrap8(2 * v) \in Byte
    BY SMT DEF Wrap8, Byte
  <2>2. Wrap8(2 * v) + CarryIn(F) \in Byte
    BY SMT DEF Wrap8, Byte
  <2>3. v \div 2 \in Byte
    BY SMT DEF Byte
  <2>4. (v \div 2) + 128 * CarryIn(F) \in Byte
    BY SMT DEF Byte
  <2> QED BY <2>1, <2>2, <2>3, <2>4
<1>2. Asl(F, v).value \in Byte /\ Asl(F, v).flags \subseteq Settable
  BY <1>1, ShiftedOK, ZenonT(60) DEF Asl
<1>3. Rol(F, v).value \in Byte /\ Rol(F, v).flags \subseteq Settable
  BY <1>1, ShiftedOK, ZenonT(60) DEF Rol
<1>4. Lsr(F, v).value \in Byte /\ Lsr(F, v).flags \subseteq Settable
  BY <1>1, ShiftedOK, ZenonT(60) DEF Lsr
<1>5. Ror(F, v).value \in Byte /\ Ror(F, v).flags \subseteq Settable
  BY <1>1, ShiftedOK, ZenonT(60) DEF Ror
<1>6. ShiftResult(op, F, v) \in {Asl(F, v), Lsr(F, v), Rol(F, v), Ror(F, v)}
  BY Zenon DEF ShiftResult
<1> QED
  BY <1>2, <1>3, <1>4, <1>5, <1>6

-----------------------------------------------------------------------------
\* The flags that the arithmetic leaves alone: those that switch the CPU's modes,
\* and U, which is set in the register from the first reset on.
ModeFlag == {"D", "I", "U"}

KeepsModes(F, G) == \A f \in ModeFlag : f \in G <=> f \in F

LEMMA AssignKeepsModes ==
    ASSUME NEW F, NEW g, DOMAIN g \cap ModeFlag = {}
    PROVE  KeepsModes(F, Assign(F, g))
  BY DEF Assign, KeepsModes

LEMMA TestsKeepModes ==
    ASSUME NEW F, NEW p, NEW q
    PROVE  /\ KeepsModes(F, Assign(F, [C |-> p])) /\ KeepsModes(F, Assign(F, [Z |-> p]))
           /\ KeepsModes(F, Assign(F, [Z |-> p, N |-> q]))
           /\ KeepsModes(F, Assign(F, [C |-> p, V |-> q]))
           /\ KeepsModes(F, Assign(F, [N |-> p, V |-> q]))
<1>1. /\ DOMAIN [C |-> p] \cap ModeFlag = {} /\ DOMAIN [Z |-> p] \cap ModeFlag = {}
      /\ DOMAIN [Z |-> p, N |-> q] \cap ModeFlag = {}
      /\ DOMAIN [C |-> p, V |-> q] \cap ModeFlag = {}
      /\ DOMAIN [N |-> p, V |-> q] \cap ModeFlag = {}
  BY DEF ModeFlag
<1> QED BY <1>1, AssignKeepsModes

LEMMA CVKeepsModes ==
    ASSUME NEW F, NEW p, NEW q
    PROVE  KeepsModes(F, Assign(F, [C |-> p, V |-> q]))
  BY TestsKeepModes

LEMMA SetZNKeepsModes == \A F, v : KeepsModes(F, SetZN(F, v))
  BY TestsKeepModes DEF SetZN

LEMMA KeepingIsTransitive ==
    \A F, G, H : KeepsModes(F, G) /\ KeepsModes(G, H) => KeepsModes(F, H)
  BY DEF KeepsModes

LEMMA AdditionKeepsModes ==
    ASSUME NEW F, NEW a, NEW v
    PROVE  KeepsModes(F, BinaryAdd(F, a, v).flags)
<1> DEFINE sum == a + v + CarryIn(F)
           ZN  == SetZN(F, Wrap8(sum))
           G   == Assign(ZN, [C |-> sum > 255, V |-> Overflow(a, v, Wrap8(sum))])
<1>1. KeepsModes(F, ZN)
  BY SetZNKeepsModes
<1>2. BinaryAdd(F, a, v).flags = G
  BY DEF BinaryAdd
<1> HIDE DEF ZN
<1>3. KeepsModes(ZN, G)
  BY CVKeepsModes
<1> HIDE DEF G
<1> QED BY <1>1, <1>2, <1>3, KeepingIsTransitive

LEMMA DecimalAdditionKeepsModes ==
    ASSUME NEW m, NEW F, NEW a, NEW v
    PROVE  KeepsModes(F, DecimalAdc(m, F, a, v).flags)
<1> DEFINE sum      == a + v + CarryIn(F)
           lowCarry == LowNibble(a) + LowNibble(v) + CarryIn(F) > 9
           lowFixed == IF lowCarry THEN sum + 6 ELSE sum
           adjusted == IF lowFixed > 153 THEN lowFixed + 96 ELSE lowFixed
           middle   == Wrap8(HighNibble(a) + HighNibble(v) + (IF lowCarry THEN 16 ELSE 0))
           CV       == Assign(F, [C |-> adjusted > 255, V |-> Overflow(a, v, middle)])
<1>1. KeepsModes(F, CV)
  BY CVKeepsModes
<1>2. DecimalAdc(m, F, a, v).flags
          \in {Assign(CV, [Z |-> (Wrap8(sum) = 0), N |-> SignBit(middle)]), SetZN(CV, Wrap8(adjusted))}
  BY DEF DecimalAdc
<1> HIDE DEF CV
<1>3. /\ KeepsModes(CV, Assign(CV, [Z |-> (Wrap8(sum) = 0), N |-> SignBit(middle)]))
      /\ KeepsModes(CV, SetZN(CV, Wrap8(adjusted)))
  BY TestsKeepModes, SetZNKeepsModes
<1> HIDE DEF sum, middle, adjusted
<1> QED BY <1>1, <1>2, <1>3, KeepingIsTransitive

LEMMA DecimalSubtractionKeepsModes ==
    ASSUME NEW m, NEW F, NEW a, NEW v
    PROVE  KeepsModes(F, DecimalSbc(m, F, a, v).flags)
<1> DEFINE G == BinaryAdd(F, a, 255 - v).flags
<1>1. KeepsModes(F, G)
  BY AdditionKeepsModes
<1>2. \E r : DecimalSbc(m, F, a, v).flags \in {G, SetZN(G, r)}
  BY DEF DecimalSbc
<1> HIDE DEF G
<1> QED BY <1>1, <1>2, SetZNKeepsModes, KeepingIsTransitive

\* No arithmetic, comparison or shift switches decimal mode or the interrupt mask.
LEMMA ArithmeticKeepsModes ==
    ASSUME NEW m, NEW F, NEW a, NEW v
    PROVE  /\ KeepsModes(F, Adc(m, F, a, v).flags)
           /\ KeepsModes(F, Sbc(m, F, a, v).flags)
           /\ KeepsModes(F, CompareFlags(F, a, v))
<1>1. KeepsModes(F, CompareFlags(F, a, v))
  BY SetZNKeepsModes, TestsKeepModes, KeepingIsTransitive DEF CompareFlags
<1> QED BY <1>1, AdditionKeepsModes, DecimalAdditionKeepsModes, DecimalSubtractionKeepsModes
        DEF Adc, Sbc

LEMMA ShiftsKeepModes ==
    ASSUME NEW F, NEW v, NEW op \in {"ASL", "LSR", "ROL", "ROR"}
    PROVE  KeepsModes(F, ShiftResult(op, F, v).flags)
<1>1. \A w, c : KeepsModes(F, Shifted(F, w, c).flags)
  BY SetZNKeepsModes, TestsKeepModes, KeepingIsTransitive DEF Shifted
<1>2. \E w, c : ShiftResult(op, F, v) = Shifted(F, w, c)
  <2>1. ShiftResult(op, F, v) \in {Asl(F, v), Lsr(F, v), Rol(F, v), Ror(F, v)}
    BY Zenon DEF ShiftResult
  <2> QED BY <2>1, Zenon DEF Asl, Lsr, Rol, Ror
<1> QED BY <1>1, <1>2

-----------------------------------------------------------------------------
\* The operations that can add to the cycles of their entry: one for a crossed
\* page, one for decimal mode, two for a branch.
Penalised == {"LDA", "LDX", "LDY", "AND", "ORA", "EOR", "ADC", "SBC", "CMP", "CPX", "CPY",
              "BCC", "BCS", "BEQ", "BMI", "BNE", "BPL", "BRA", "BVC", "BVS", "BBR", "BBS"}

EntryOK(e) == /\ e.mode \in Mode
              /\ e.cycles \in 1 .. 8
              /\ e.op \in Penalised => e.cycles <= 6
              /\ e.op = "BRK" => e.mode = "imm"

LEMMA Wdc00OK == \A i \in 1 .. 64 : EntryOK(Wdc00[i])
  BY DEF Wdc00, I, Mode, EntryOK, Penalised

LEMMA Wdc40OK == \A i \in 1 .. 64 : EntryOK(Wdc40[i])
  BY DEF Wdc40, I, Mode, EntryOK, Penalised

LEMMA Wdc80OK == \A i \in 1 .. 64 : EntryOK(Wdc80[i])
  BY DEF Wdc80, I, Mode, EntryOK, Penalised

LEMMA WdcC0OK == \A i \in 1 .. 64 : EntryOK(WdcC0[i])
  BY DEF WdcC0, I, Mode, EntryOK, Penalised

\* Where in the four blocks an opcode finds its entry.
LEMMA WdcEntryAt ==
    ASSUME NEW o \in Byte
    PROVE  \E i \in 1 .. 64 :
               \/ o = i - 1   /\ wdc65c02_table[o] = Wdc00[i]
               \/ o = i + 63  /\ wdc65c02_table[o] = Wdc40[i]
               \/ o = i + 127 /\ wdc65c02_table[o] = Wdc80[i]
               \/ o = i + 191 /\ wdc65c02_table[o] = WdcC0[i]
<1> USE DEF Byte
<1>1. CASE o < 64
  <2>1. wdc65c02_table[o] = Wdc00[o + 1] /\ o + 1 \in 1 .. 64
    BY <1>1 DEF wdc65c02_table
  <2> QED BY <2>1
<1>2. CASE o >= 64 /\ o < 128
  <2>1. wdc65c02_table[o] = Wdc40[o - 63] /\ o - 63 \in 1 .. 64
    BY <1>2 DEF wdc65c02_table
  <2> QED BY <2>1
<1>3. CASE o >= 128 /\ o < 192
  <2>1. wdc65c02_table[o] = Wdc80[o - 127] /\ o - 127 \in 1 .. 64
    BY <1>3 DEF wdc65c02_table
  <2> QED BY <2>1
<1>4. CASE o >= 192
  <2>1. wdc65c02_table[o] = WdcC0[o - 191] /\ o - 191 \in 1 .. 64
    BY <1>4 DEF wdc65c02_table
  <2> QED BY <2>1
<1> QED
  BY <1>1, <1>2, <1>3, <1>4

LEMMA WdcOK == \A o \in Byte : EntryOK(wdc65c02_table[o])
  BY WdcEntryAt, Wdc00OK, Wdc40OK, Wdc80OK, WdcC0OK

\* The four entries that the NMOS table gives 7 cycles instead of 6.
LEMMA IndexedShifts ==
    /\ wdc65c02_table[30] = I("ASL", "abx", 6) /\ wdc65c02_table[62] = I("ROL", "abx", 6)
    /\ wdc65c02_table[94] = I("LSR", "abx", 6) /\ wdc65c02_table[126] = I("ROR", "abx", 6)
<1>1. Wdc00[31] = I("ASL", "abx", 6) /\ Wdc00[63] = I("ROL", "abx", 6)
  BY DEF Wdc00
<1>2. Wdc40[31] = I("LSR", "abx", 6) /\ Wdc40[63] = I("ROR", "abx", 6)
  BY DEF Wdc40
<1> QED
  BY <1>1, <1>2 DEF wdc65c02_table, Byte

\* An entry of the NMOS table: KIL, one of those four, or the one of the WDC table.
LEMMA NmosEntryAt ==
    ASSUME NEW o \in Byte
    PROVE  \/ ~Official(o) /\ nmos6502_table[o] = I("KIL", "imp", 1)
           \/ \E op \in {"ASL", "ROL", "LSR", "ROR"} : nmos6502_table[o] = I(op, "abx", 7)
           \/ Official(o) /\ nmos6502_table[o] = wdc65c02_table[o]
<1>1. CASE ~Official(o)
  BY <1>1 DEF nmos6502_table
<1>2. CASE Official(o) /\ o \notin IndexedShift
  BY <1>2 DEF nmos6502_table
<1>3. CASE Official(o) /\ o \in IndexedShift
  <2>1. nmos6502_table[o] = [wdc65c02_table[o] EXCEPT !.cycles = 7]
    BY <1>3 DEF nmos6502_table
  <2>2. PICK op \in {"ASL", "ROL", "LSR", "ROR"} : wdc65c02_table[o] = I(op, "abx", 6)
    BY <1>3, IndexedShifts DEF IndexedShift
  <2>3. nmos6502_table[o] = I(op, "abx", 7)
    BY <2>1, <2>2 DEF I
  <2> QED
    BY <2>2, <2>3
<1> QED
  BY <1>1, <1>2, <1>3

LEMMA NmosOK == \A o \in Byte : EntryOK(nmos6502_table[o])
<1> SUFFICES ASSUME NEW o \in Byte PROVE EntryOK(nmos6502_table[o])
  OBVIOUS
<1>1. EntryOK(I("KIL", "imp", 1))
  BY DEF EntryOK, I, Mode, Penalised
<1>2. \A op \in {"ASL", "ROL", "LSR", "ROR"} : EntryOK(I(op, "abx", 7))
  BY DEF EntryOK, I, Mode, Penalised
<1> QED
  BY <1>1, <1>2, NmosEntryAt, WdcOK

\* Every entry of both models is a well-formed instruction whose time leaves
\* room for its penalties: with them it takes at most eight cycles.
THEOREM TablesOK == \A m \in Models, o \in Byte : EntryOK(table[m][o])
  BY WdcOK, NmosOK DEF table, Models
===============================================================================
