--------------------------- MODULE AluMachineProofs ---------------------------
(***************************************************************************)
(* The arithmetic of the CPU is the arithmetic of numbers, for every set   *)
(* of operands, every accumulator that they lead to, both modes and both   *)
(* models.  All that is needed of a state is that the accumulator is a     *)
(* byte and that the status holds flags.                                   *)
(***************************************************************************)
EXTENDS AluMachine, OperatorProofs

AluOK == /\ model \in {"nmos6502", "wdc65c02"}
         /\ a \in Byte
         /\ f \subseteq {"C", "D"}

LEMMA AluInitOK == AluInit => AluOK
  BY DEF AluInit, AluOK, Byte

LEMMA AluNextOK == AluOK /\ [AluNext]_aluVars => AluOK'
<1> SUFFICES ASSUME AluOK, [AluNext]_aluVars PROVE AluOK'
  OBVIOUS
<1>0. f \subseteq Settable
  BY DEF AluOK, Settable, Flag
<1>1. CASE AddStep
  <2>1. PICK v \in Operands : Becomes(Adc(model, f, a, v))
    BY <1>1 DEF AddStep
  <2>2. v \in Byte /\ a \in Byte
    BY OperandsAssumption DEF AluOK
  <2>3. Adc(model, f, a, v).value \in Byte
    BY <1>0, <2>2, ArithmeticOK DEF ResultOK
  <2> QED BY <2>1, <2>3 DEF Becomes, AluOK
<1>2. CASE SubtractStep
  <2>1. PICK v \in Operands : Becomes(Sbc(model, f, a, v))
    BY <1>2 DEF SubtractStep
  <2>2. v \in Byte /\ a \in Byte
    BY OperandsAssumption DEF AluOK
  <2>3. Sbc(model, f, a, v).value \in Byte
    BY <1>0, <2>2, ArithmeticOK DEF ResultOK
  <2> QED BY <2>1, <2>3 DEF Becomes, AluOK
<1>3. CASE FlagStep
  BY <1>3 DEF FlagStep, AluOK, Assign
<1>4. CASE UNCHANGED aluVars
  BY <1>4 DEF aluVars, AluOK
<1> QED BY <1>1, <1>2, <1>3, <1>4 DEF AluNext

LEMMA AluStateCorrect == AluSpec => []AluOK
  BY AluInitOK, AluNextOK, PTL DEF AluSpec

-----------------------------------------------------------------------------
\* What a status holds after an assignment of its flags.
LEMMA SetZNFlags ==
    ASSUME NEW F, NEW w
    PROVE  /\ "Z" \in SetZN(F, w) <=> w = 0
           /\ "N" \in SetZN(F, w) <=> SignBit(w)
           /\ \A h : h \notin {"Z", "N"} => (h \in SetZN(F, w) <=> h \in F)
           /\ \A h : h \in SetZN(F, w) => h \in F \/ h \in {"Z", "N"}
  BY DEF SetZN, Assign

LEMMA CVFlags ==
    ASSUME NEW F, NEW p \in BOOLEAN, NEW q \in BOOLEAN
    PROVE  LET G == Assign(F, [C |-> p, V |-> q])
           IN  /\ "C" \in G <=> p
               /\ "V" \in G <=> q
               /\ \A h : h \notin {"C", "V"} => (h \in G <=> h \in F)
  BY DEF Assign

LEMMA CFlags ==
    ASSUME NEW F, NEW p \in BOOLEAN
    PROVE  LET G == Assign(F, [C |-> p])
           IN  /\ "C" \in G <=> p
               /\ \A h : h # "C" => (h \in G <=> h \in F)
  BY DEF Assign

LEMMA ZNFlags ==
    ASSUME NEW F, NEW p \in BOOLEAN, NEW q \in BOOLEAN
    PROVE  LET G == Assign(F, [Z |-> p, N |-> q])
           IN  /\ "Z" \in G <=> p
               /\ "N" \in G <=> q
               /\ \A h : h \notin {"Z", "N"} => (h \in G <=> h \in F)
  BY DEF Assign

LEMMA CarryInFlag == \A F : CarryIn(F) = IF "C" \in F THEN 1 ELSE 0
  BY DEF CarryIn

\* The status after a binary addition says what the sum is.
LEMMA BinaryAddFlags ==
    ASSUME NEW F, NEW x \in Byte, NEW v \in Byte
    PROVE  LET sum == x + v + CarryIn(F)
               r   == BinaryAdd(F, x, v)
           IN  /\ r.value = sum % 256
               /\ "C" \in r.flags <=> sum > 255
               /\ "V" \in r.flags <=> Overflow(x, v, sum % 256)
               /\ "Z" \in r.flags <=> sum % 256 = 0
               /\ "N" \in r.flags <=> SignBit(sum % 256)
               /\ \A h : h \notin {"C", "V", "Z", "N"} => (h \in r.flags <=> h \in F)
<1> DEFINE sum == x + v + CarryIn(F)
           w   == Wrap8(sum)
           p   == sum > 255
           q   == Overflow(x, v, w)
<1>1. w = sum % 256
  BY DEF Wrap8
<1>2. /\ BinaryAdd(F, x, v).value = w
      /\ BinaryAdd(F, x, v).flags = Assign(SetZN(F, w), [C |-> p, V |-> q])
  BY DEF BinaryAdd
<1>3. p \in BOOLEAN /\ q \in BOOLEAN
  BY DEF Overflow
<1> HIDE DEF p, q, w
<1>4. LET G == BinaryAdd(F, x, v).flags
      IN  /\ "C" \in G <=> p
          /\ "V" \in G <=> q
          /\ \A h : h \notin {"C", "V"} => (h \in G <=> h \in SetZN(F, w))
  BY <1>2, <1>3, CVFlags
<1>5. LET G == BinaryAdd(F, x, v).flags
      IN  /\ "Z" \in G <=> w = 0
          /\ "N" \in G <=> SignBit(w)
          /\ \A h : h \notin {"C", "V", "Z", "N"} => (h \in G <=> h \in F)
  BY <1>4, SetZNFlags
<1> QED
  BY <1>1, <1>2, <1>4, <1>5 DEF p, q

-----------------------------------------------------------------------------
\* The sum of two bytes and a carry is a byte and a ninth bit.
LEMMA NinthBit ==
    ASSUME NEW n \in 0 .. 511
    PROVE  /\ n > 255 => (n % 256) + 256 = n
           /\ ~(n > 255) => n % 256 = n
           /\ n % 256 \in Byte
  BY DEF Byte

LEMMA ByteSum ==
    ASSUME NEW x \in Byte, NEW v \in Byte, NEW c \in {0, 1}
    PROVE  x + v + c \in 0 .. 511
  BY DEF Byte

LEMMA SignOfByte ==
    ASSUME NEW x \in Byte
    PROVE  (SignBit(x) <=> x >= 128) /\ (SignBit(x) <=> Signed(x) < 0)
           /\ Signed(x) = IF x >= 128 THEN x - 256 ELSE x
  BY DEF SignBit, Signed, Byte

LEMMA OverflowOfSum ==
    ASSUME NEW x \in Byte, NEW v \in Byte, NEW c \in {0, 1}
    PROVE  Overflow(x, v, (x + v + c) % 256) <=> Signed(x) + Signed(v) + c \notin -128 .. 127
<1> DEFINE r == (x + v + c) % 256
<1>1. Overflow(x, v, r) <=> (x >= 128 <=> v >= 128) /\ ~(x >= 128 <=> r >= 128)
  BY DEF Overflow, SignBit
<1>2. (x >= 128 <=> v >= 128) /\ ~(x >= 128 <=> r >= 128)
          <=> Signed(x) + Signed(v) + c \notin -128 .. 127
  BY DEF Signed, Byte
<1> QED BY <1>1, <1>2

\* A result that is the sum modulo 256, with the ninth bit in C, the overflow of
\* the signed readings in V, and Z and N of the value.
IsSum(r, x, v, c) ==
    /\ r.value = (x + v + c) % 256
    /\ r.value + 256 * CarryIn(r.flags) = x + v + c
    /\ "C" \in r.flags <=> x + v + c > 255
    /\ "V" \in r.flags <=> Signed(x) + Signed(v) + c \notin -128 .. 127
    /\ ShowsZN(r)

LEMMA BinaryAddIsSum ==
    ASSUME NEW F, NEW x \in Byte, NEW v \in Byte
    PROVE  IsSum(BinaryAdd(F, x, v), x, v, CarryIn(F))
<1> DEFINE r == BinaryAdd(F, x, v)
           c == CarryIn(F)
           sum == x + v + c
<1>1. c \in {0, 1}
  BY CarryInIsBit
<1>2. /\ r.value = sum % 256
      /\ "C" \in r.flags <=> sum > 255
      /\ "V" \in r.flags <=> Overflow(x, v, sum % 256)
      /\ "Z" \in r.flags <=> sum % 256 = 0
      /\ "N" \in r.flags <=> SignBit(sum % 256)
  BY BinaryAddFlags
<1> HIDE DEF c
<1>3. sum \in 0 .. 511
  BY <1>1 DEF Byte
<1>4. Overflow(x, v, sum % 256) <=> Signed(x) + Signed(v) + c \notin -128 .. 127
  BY <1>1, OverflowOfSum
<1> HIDE DEF r, sum
<1>5. /\ sum > 255 => (sum % 256) + 256 = sum
      /\ ~(sum > 255) => sum % 256 = sum
      /\ sum % 256 \in Byte
  BY <1>3, NinthBit
<1>6. SignBit(sum % 256) <=> Signed(sum % 256) < 0
  BY <1>5, SignOfByte
<1>7. ShowsZN(r)
  BY <1>2, <1>6 DEF ShowsZN
<1>8. r.value + 256 * CarryIn(r.flags) = sum
  <2>1. CASE sum > 255
    <3>1. CarryIn(r.flags) = 1
      BY <1>2, <2>1 DEF CarryIn
    <3> QED BY <1>2, <1>3, <1>5, <2>1, <3>1
  <2>2. CASE ~(sum > 255)
    <3>1. CarryIn(r.flags) = 0
      BY <1>2, <2>2 DEF CarryIn
    <3> QED BY <1>2, <1>3, <1>5, <2>2, <3>1
  <2> QED BY <2>1, <2>2
<1> QED BY <1>2, <1>4, <1>7, <1>8 DEF IsSum, r, c, sum

\* A result that is the difference modulo 256, with C when nothing was borrowed,
\* the overflow of the signed readings in V, and Z and N of the value.
IsDifference(r, x, v, borrow) ==
    /\ r.value = (x - v - borrow) % 256
    /\ "C" \in r.flags <=> x >= v + borrow
    /\ "V" \in r.flags <=> Signed(x) - Signed(v) - borrow \notin -128 .. 127
    /\ ShowsZN(r)

\* An addition of the inverted operand is a subtraction.
LEMMA InvertedAddIsDifference ==
    ASSUME NEW F, NEW x \in Byte, NEW v \in Byte
    PROVE  IsDifference(BinaryAdd(F, x, 255 - v), x, v, 1 - CarryIn(F))
<1> DEFINE r == BinaryAdd(F, x, 255 - v)
           c == CarryIn(F)
<1>1. c \in {0, 1} /\ 255 - v \in Byte
  BY CarryInIsBit, InvertedIsByte
<1>2. /\ r.value = (x + (255 - v) + c) % 256
      /\ "C" \in r.flags <=> x + (255 - v) + c > 255
      /\ "V" \in r.flags <=> Signed(x) + Signed(255 - v) + c \notin -128 .. 127
      /\ ShowsZN(r)
  BY <1>1, BinaryAddIsSum DEF IsSum
<1> HIDE DEF r, c
<1>3. /\ (x + (255 - v) + c) % 256 = (x - v - (1 - c)) % 256
      /\ x + (255 - v) + c > 255 <=> x >= v + (1 - c)
      /\ Signed(x) + Signed(255 - v) + c = Signed(x) - Signed(v) - (1 - c)
  BY <1>1 DEF Byte, Signed
<1>4. /\ r.value = (x - v - (1 - c)) % 256
      /\ "C" \in r.flags <=> x >= v + (1 - c)
      /\ "V" \in r.flags <=> Signed(x) - Signed(v) - (1 - c) \notin -128 .. 127
  BY <1>2, <1>3
<1> QED BY <1>2, <1>4 DEF IsDifference, r, c

LEMMA CarryIsCarryIn == Carry = CarryIn(f)
  BY DEF Carry, CarryIn

\* In binary mode ADC adds numbers: for every accumulator and operand the sum is
\* the value and C, V is the signed overflow, and Z and N are those of the value.
THEOREM AddsNumbers == AluSpec => []BinaryAddition
<1>1. AluOK => BinaryAddition
  <2> SUFFICES ASSUME AluOK, "D" \notin f, NEW v \in Byte
               PROVE  IsSum(Adc(model, f, a, v), a, v, Carry)
    BY ZenonT(60) DEF BinaryAddition, IsSum
  <2>1. a \in Byte
    BY DEF AluOK
  <2>2. Adc(model, f, a, v) = BinaryAdd(f, a, v)
    BY Zenon DEF Adc
  <2> QED BY <2>1, <2>2, BinaryAddIsSum, CarryIsCarryIn
<1> QED BY <1>1, AluStateCorrect, PTL

\* In binary mode SBC subtracts numbers: for every accumulator and operand the
\* value is the difference modulo 256, C says that nothing was borrowed, V is
\* the signed overflow, and Z and N are those of the value.
THEOREM SubtractsNumbers == AluSpec => []BinarySubtraction
<1>1. AluOK => BinarySubtraction
  <2> SUFFICES ASSUME AluOK, "D" \notin f, NEW v \in Byte
               PROVE  IsDifference(Sbc(model, f, a, v), a, v, 1 - Carry)
    BY ZenonT(60) DEF BinarySubtraction, IsDifference
  <2>1. a \in Byte
    BY DEF AluOK
  <2>2. Sbc(model, f, a, v) = BinaryAdd(f, a, 255 - v)
    BY Zenon DEF Sbc
  <2> QED BY <2>1, <2>2, InvertedAddIsDifference, CarryIsCarryIn
<1> QED BY <1>1, AluStateCorrect, PTL

-----------------------------------------------------------------------------
LEMMA CompareFlagsHold ==
    ASSUME NEW F, NEW x \in Byte, NEW v \in Byte
    PROVE  LET G == CompareFlags(F, x, v)
           IN  /\ "C" \in G <=> x >= v
               /\ "Z" \in G <=> (x - v) % 256 = 0
               /\ "N" \in G <=> SignBit((x - v) % 256)
               /\ \A h : h \notin {"C", "Z", "N"} => (h \in G <=> h \in F)
<1> DEFINE w == Wrap8(x - v)
           p == x >= v
           G == CompareFlags(F, x, v)
<1>1. w = (x - v) % 256 /\ p \in BOOLEAN
  BY DEF Wrap8
<1>2. G = Assign(SetZN(F, w), [C |-> p])
  BY DEF CompareFlags
<1> HIDE DEF p, w, G
<1>3. ("C" \in G <=> p) /\ \A h : h # "C" => (h \in G <=> h \in SetZN(F, w))
  BY <1>1, <1>2, CFlags
<1>4. /\ "Z" \in G <=> w = 0
      /\ "N" \in G <=> SignBit(w)
      /\ \A h : h \notin {"C", "Z", "N"} => (h \in G <=> h \in F)
  BY <1>3, SetZNFlags
<1> QED BY <1>1, <1>3, <1>4 DEF p, G

\* CMP, CPX and CPY set Z, C and N as a subtraction without borrow does, whatever
\* the carry was, and leave V alone.
THEOREM ComparesLikeSubtraction == AluSpec => []CompareIsSubtraction
<1>1. AluOK => CompareIsSubtraction
  <2> SUFFICES ASSUME AluOK, NEW v \in Byte, NEW F \in SUBSET {"C", "V"}
               PROVE  CompareFlags(F, a, v)
                          = (F \cap {"V"}) \cup (BinaryAdd({"C"}, a, 255 - v).flags \ {"V"})
    BY Zenon DEF CompareIsSubtraction
  <2> a \in Byte
    BY DEF AluOK
  <2> DEFINE G == CompareFlags(F, a, v)
             H == BinaryAdd({"C"}, a, 255 - v).flags
  <2>1. 255 - v \in Byte /\ CarryIn({"C"}) = 1
    BY InvertedIsByte DEF CarryIn
  <2>2. /\ "C" \in H <=> a + (255 - v) + 1 > 255
        /\ "Z" \in H <=> (a + (255 - v) + 1) % 256 = 0
        /\ "N" \in H <=> SignBit((a + (255 - v) + 1) % 256)
        /\ \A h : h \notin {"C", "V", "Z", "N"} => (h \in H <=> h \in {"C"})
    BY <2>1, BinaryAddFlags
  <2>3. /\ "C" \in G <=> a >= v
        /\ "Z" \in G <=> (a - v) % 256 = 0
        /\ "N" \in G <=> SignBit((a - v) % 256)
        /\ \A h : h \notin {"C", "Z", "N"} => (h \in G <=> h \in F)
    BY CompareFlagsHold
  <2>4. /\ a + (255 - v) + 1 > 255 <=> a >= v
        /\ (a + (255 - v) + 1) % 256 = (a - v) % 256
    BY DEF Byte
  <2> HIDE DEF G, H
  <2>5. ("C" \in H <=> "C" \in G) /\ ("Z" \in H <=> "Z" \in G) /\ ("N" \in H <=> "N" \in G)
    BY <2>2, <2>3, <2>4
  <2>6. ASSUME NEW h PROVE h \in G <=> h \in (F \cap {"V"}) \cup (H \ {"V"})
    <3>1. CASE h \in {"C", "Z", "N"}
      BY <2>5, <3>1
    <3>2. CASE h \notin {"C", "Z", "N"}
      BY <2>2, <2>3, <3>2
    <3> QED BY <3>1, <3>2
  <2> QED BY <2>6 DEF G, H
<1> QED BY <1>1, AluStateCorrect, PTL

-----------------------------------------------------------------------------
LEMMA ShiftedFlags ==
    ASSUME NEW F, NEW w, NEW p \in BOOLEAN
    PROVE  /\ Shifted(F, w, p).value = w
           /\ "C" \in Shifted(F, w, p).flags <=> p
<1>1. Shifted(F, w, p).flags = Assign(SetZN(F, w), [C |-> p])
  BY DEF Shifted
<1>2. "C" \in Assign(SetZN(F, w), [C |-> p]) <=> p
  BY CFlags, Zenon
<1> QED BY <1>1, <1>2 DEF Shifted

LEMMA RorHolds ==
    ASSUME NEW F, NEW w
    PROVE  /\ Ror(F, w).value = (w \div 2) + 128 * CarryIn(F)
           /\ "C" \in Ror(F, w).flags <=> w % 2 = 1
<1> DEFINE p == w % 2 = 1
<1>1. p \in BOOLEAN
  OBVIOUS
<1>2. Ror(F, w) = Shifted(F, (w \div 2) + 128 * CarryIn(F), p)
  BY DEF Ror
<1> HIDE DEF p
<1>3. /\ Ror(F, w).value = (w \div 2) + 128 * CarryIn(F)
      /\ "C" \in Ror(F, w).flags <=> p
  BY <1>1, <1>2, ShiftedFlags
<1> QED BY <1>3 DEF p

\* Shifting a byte left and back, with the bit that the carry took.
KeepsBits(x, c, double, top) ==
    /\ (double + c) \div 2 + 128 * top = x
    /\ (double + c) % 2 = c
    /\ double \div 2 + 128 * top = x

LEMMA ShiftedBack ==
    ASSUME NEW x \in Byte, NEW c \in {0, 1}
    PROVE  KeepsBits(x, c, (2 * x) % 256, IF x >= 128 THEN 1 ELSE 0)
<1>1. CASE x >= 128
  <2>1. (2 * x) % 256 = 2 * x - 256
    BY <1>1 DEF Byte
  <2> QED BY <1>1, <2>1 DEF Byte, KeepsBits
<1>2. CASE x < 128
  <2>1. (2 * x) % 256 = 2 * x
    BY <1>2 DEF Byte
  <2> QED BY <1>2, <2>1 DEF Byte, KeepsBits
<1> QED BY <1>1, <1>2 DEF Byte

\* No shift loses a bit: ROR undoes ROL, and LSR undoes ASL but for the bit that
\* is then in C.
THEOREM ShiftsLoseNoBit == AluSpec => []ShiftsKeepEveryBit
<1>1. AluOK => ShiftsKeepEveryBit
  <2> SUFFICES ASSUME a \in Byte
               PROVE  ShiftsKeepEveryBit
    BY DEF AluOK
  <2> DEFINE rolled == Rol(f, a)
             left   == Asl(f, a)
             back   == Ror(rolled.flags, rolled.value)
             c      == CarryIn(f)
             top    == IF a >= 128 THEN 1 ELSE 0
             double == (2 * a) % 256
  <2>1. c \in {0, 1}
    BY CarryInIsBit
  <2>2. SignBit(a) \in BOOLEAN /\ (SignBit(a) <=> a >= 128)
    BY DEF SignBit
  <2>3. rolled.value = double + c /\ CarryIn(rolled.flags) = top
    <3>1. rolled.value = double + c /\ ("C" \in rolled.flags <=> SignBit(a))
      BY <2>2, ShiftedFlags DEF Rol, Wrap8
    <3> QED BY <2>2, <3>1 DEF CarryIn
  <2>4. left.value = double /\ CarryIn(left.flags) = top
    <3>1. left.value = double /\ ("C" \in left.flags <=> SignBit(a))
      BY <2>2, ShiftedFlags DEF Asl, Wrap8
    <3> QED BY <2>2, <3>1 DEF CarryIn
  <2> HIDE DEF c, rolled, left, back
  <2>5. /\ (double + c) \div 2 + 128 * top = a
        /\ (double + c) % 2 = c
        /\ double \div 2 + 128 * top = a
    <3>1. KeepsBits(a, c, double, top)
      BY <2>1, ShiftedBack
    <3> QED BY <3>1 DEF KeepsBits
  <2> HIDE DEF double, top
  <2>6. /\ back.value = (rolled.value \div 2) + 128 * CarryIn(rolled.flags)
        /\ "C" \in back.flags <=> rolled.value % 2 = 1
    BY RorHolds DEF back
  <2>7. "C" \in back.flags <=> "C" \in f
    BY <2>1, <2>3, <2>5, <2>6, CarryInFlag DEF c
  <2>8. Lsr(left.flags, left.value).value = left.value \div 2
    BY DEF Lsr, Shifted
  <2>9. back.value = a
    BY <2>3, <2>5, <2>6
  <2>10. (back.flags \cap {"C"}) = (f \cap {"C"})
    BY <2>7
  <2>11. Lsr(left.flags, left.value).value + 128 * CarryIn(left.flags) = a
    BY <2>4, <2>5, <2>8
  <2> QED BY <2>9, <2>10, <2>11 DEF ShiftsKeepEveryBit, back, rolled, left
<1> QED BY <1>1, AluStateCorrect, PTL

-----------------------------------------------------------------------------
\* The adjusted sum and difference of the decimal mode, before they are cut to
\* a byte, and the sum of the high digits that the NMOS part derives N and V from.
LowSum(F, x, v)   == LowNibble(x) + LowNibble(v) + CarryIn(F)
FixedSum(F, x, v) == IF LowSum(F, x, v) > 9 THEN x + v + CarryIn(F) + 6 ELSE x + v + CarryIn(F)
AdjustedSum(F, x, v) ==
    IF FixedSum(F, x, v) > 153 THEN FixedSum(F, x, v) + 96 ELSE FixedSum(F, x, v)
Middle(F, x, v) ==
    Wrap8(HighNibble(x) + HighNibble(v) + (IF LowSum(F, x, v) > 9 THEN 16 ELSE 0))

FixedDifference(F, x, v) ==
    Wrap16(x - v - (1 - CarryIn(F)) - (IF LowNibble(x) < LowNibble(v) + (1 - CarryIn(F)) THEN 6 ELSE 0))
AdjustedDifference(F, x, v) ==
    IF FixedDifference(F, x, v) > 153 THEN Wrap16(FixedDifference(F, x, v) - 96)
    ELSE FixedDifference(F, x, v)

\* What both models make of a decimal addition, and what the 65C02 adds to it.
LEMMA DecimalAdcFlags ==
    ASSUME NEW m, NEW F, NEW x, NEW v
    PROVE  LET r == DecimalAdc(m, F, x, v)
               w == Wrap8(AdjustedSum(F, x, v))
           IN  /\ r.value = w
               /\ "C" \in r.flags <=> AdjustedSum(F, x, v) > 255
               /\ "V" \in r.flags <=> Overflow(x, v, Middle(F, x, v))
               /\ r.cycles = IF m = "nmos6502" THEN 0 ELSE 1
               /\ m # "nmos6502" => /\ "Z" \in r.flags <=> w = 0
                                    /\ "N" \in r.flags <=> SignBit(w)
               /\ m = "nmos6502" => /\ "Z" \in r.flags <=> Wrap8(x + v + CarryIn(F)) = 0
                                    /\ "N" \in r.flags <=> SignBit(Middle(F, x, v))
<1> DEFINE r  == DecimalAdc(m, F, x, v)
           w  == Wrap8(AdjustedSum(F, x, v))
           c  == AdjustedSum(F, x, v) > 255
           o  == Overflow(x, v, Middle(F, x, v))
           z  == Wrap8(x + v + CarryIn(F)) = 0
           n  == SignBit(Middle(F, x, v))
           CV == Assign(F, [C |-> c, V |-> o])
<1>1. c \in BOOLEAN /\ o \in BOOLEAN /\ z \in BOOLEAN /\ n \in BOOLEAN
  BY DEF Overflow, SignBit
<1>2. r = IF m = "nmos6502"
          THEN [value |-> w, flags |-> Assign(CV, [Z |-> z, N |-> n]), cycles |-> 0]
          ELSE [value |-> w, flags |-> SetZN(CV, w), cycles |-> 1]
  BY DEF DecimalAdc, AdjustedSum, FixedSum, LowSum, Middle
<1> HIDE DEF r, w, c, o, z, n
<1>3. ("C" \in CV <=> c) /\ ("V" \in CV <=> o)
  BY <1>1, CVFlags
<1> HIDE DEF CV
<1>4. CASE m = "nmos6502"
  <2>1. r.value = w /\ r.flags = Assign(CV, [Z |-> z, N |-> n]) /\ r.cycles = 0
    BY <1>2, <1>4
  <2>2. ("C" \in r.flags <=> c) /\ ("V" \in r.flags <=> o)
    BY <1>1, <1>3, <2>1, ZNFlags
  <2>3. ("Z" \in r.flags <=> z) /\ ("N" \in r.flags <=> n)
    BY <1>1, <2>1, ZNFlags
  <2> QED BY <1>4, <2>1, <2>2, <2>3 DEF r, w, c, o, z, n
<1>5. CASE m # "nmos6502"
  <2>1. r.value = w /\ r.flags = SetZN(CV, w) /\ r.cycles = 1
    BY <1>2, <1>5
  <2>2. ("C" \in r.flags <=> c) /\ ("V" \in r.flags <=> o)
    BY <1>3, <2>1, SetZNFlags
  <2>3. ("Z" \in r.flags <=> w = 0) /\ ("N" \in r.flags <=> SignBit(w))
    BY <2>1, SetZNFlags
  <2> QED BY <1>5, <2>1, <2>2, <2>3 DEF r, w, c, o
<1> QED BY <1>4, <1>5

LEMMA DecimalSbcFlags ==
    ASSUME NEW m, NEW F, NEW x, NEW v
    PROVE  LET r == DecimalSbc(m, F, x, v)
               w == Wrap8(AdjustedDifference(F, x, v))
               b == BinaryAdd(F, x, 255 - v)
           IN  /\ r.value = w
               /\ "C" \in r.flags <=> "C" \in b.flags
               /\ "V" \in r.flags <=> "V" \in b.flags
               /\ r.cycles = IF m = "nmos6502" THEN 0 ELSE 1
               /\ m # "nmos6502" => /\ "Z" \in r.flags <=> w = 0
                                    /\ "N" \in r.flags <=> SignBit(w)
               /\ m = "nmos6502" => r.flags = b.flags
<1> DEFINE r == DecimalSbc(m, F, x, v)
           w == Wrap8(AdjustedDifference(F, x, v))
           b == BinaryAdd(F, x, 255 - v)
<1>1. r = IF m = "nmos6502"
          THEN [value |-> w, flags |-> b.flags, cycles |-> 0]
          ELSE [value |-> w, flags |-> SetZN(b.flags, w), cycles |-> 1]
  BY DEF DecimalSbc, AdjustedDifference, FixedDifference
<1> HIDE DEF r, w, b
<1>2. CASE m = "nmos6502"
  <2>1. r.value = w /\ r.flags = b.flags /\ r.cycles = 0
    BY <1>1, <1>2
  <2> QED BY <1>2, <2>1 DEF r, w, b
<1>3. CASE m # "nmos6502"
  <2>1. r.value = w /\ r.flags = SetZN(b.flags, w) /\ r.cycles = 1
    BY <1>1, <1>3
  <2>2. ("C" \in r.flags <=> "C" \in b.flags) /\ ("V" \in r.flags <=> "V" \in b.flags)
    BY <2>1, SetZNFlags
  <2>3. ("Z" \in r.flags <=> w = 0) /\ ("N" \in r.flags <=> SignBit(w))
    BY <2>1, SetZNFlags
  <2> QED BY <1>3, <2>1, <2>2, <2>3 DEF r, w, b
<1> QED BY <1>2, <1>3

\* Two results with one value, one C and one V.
SameValueCV(r, s) == r.value = s.value /\ r.flags \cap {"C", "V"} = s.flags \cap {"C", "V"}

LEMMA FlagsDecideCV ==
    ASSUME NEW r, NEW s, r.value = s.value,
           "C" \in r.flags <=> "C" \in s.flags, "V" \in r.flags <=> "V" \in s.flags
    PROVE  SameValueCV(r, s)
  BY DEF SameValueCV

LEMMA AdcOfModels ==
    ASSUME NEW F, NEW x, NEW v
    PROVE  SameValueCV(Adc("nmos6502", F, x, v), Adc("wdc65c02", F, x, v))
<1>1. CASE "D" \notin F
  BY <1>1 DEF Adc, SameValueCV
<1>2. CASE "D" \in F
  <2>1. \A m : Adc(m, F, x, v) = DecimalAdc(m, F, x, v)
    BY <1>2 DEF Adc
  <2>2. SameValueCV(DecimalAdc("nmos6502", F, x, v), DecimalAdc("wdc65c02", F, x, v))
    BY DecimalAdcFlags, FlagsDecideCV
  <2> QED BY <2>1, <2>2
<1> QED BY <1>1, <1>2

LEMMA SbcOfModels ==
    ASSUME NEW F, NEW x, NEW v
    PROVE  SameValueCV(Sbc("nmos6502", F, x, v), Sbc("wdc65c02", F, x, v))
<1>1. CASE "D" \notin F
  BY <1>1 DEF Sbc, SameValueCV
<1>2. CASE "D" \in F
  <2>1. \A m : Sbc(m, F, x, v) = DecimalSbc(m, F, x, v)
    BY <1>2 DEF Sbc
  <2>2. SameValueCV(DecimalSbc("nmos6502", F, x, v), DecimalSbc("wdc65c02", F, x, v))
    BY DecimalSbcFlags, FlagsDecideCV
  <2> QED BY <2>1, <2>2
<1> QED BY <1>1, <1>2

\* What the models may differ in is Z, N and the cycles.
ModelsAgree ==
    \A v \in Byte, op \in {"ADC", "SBC"} :
        LET r(m) == IF op = "ADC" THEN Adc(m, f, a, v) ELSE Sbc(m, f, a, v)
        IN  SameValueCV(r("nmos6502"), r("wdc65c02"))

\* NMOS 6502 and 65C02 add and subtract to the same value, C and V for every
\* operand, packed decimal or not: the result is not model-specific, as
\* src/README.md:193 has it, and a program that ignores Z and N computes the same
\* on both.
THEOREM ModelsComputeAlike == AluSpec => []ModelsAgree
<1>1. ModelsAgree
  BY AdcOfModels, SbcOfModels DEF ModelsAgree
<1> QED BY <1>1, PTL

-----------------------------------------------------------------------------
\* A packed byte is two digits.
LEMMA PackedDigits ==
    ASSUME NEW b \in Packed
    PROVE  \E t, u \in 0 .. 9 : /\ b = 16 * t + u
                               /\ b \in Byte
                               /\ LowNibble(b) = u
                               /\ Number(b) = 10 * t + u
<1>1. PICK t \in 0 .. 9, u \in 0 .. 9 : b = 16 * t + u
  BY DEF Packed
<1>2. b \div 16 = t /\ b % 16 = u /\ b \in Byte
  BY <1>1 DEF Byte
<1> QED BY <1>1, <1>2 DEF LowNibble, Number

\* Two digits are a packed byte.
LEMMA DigitsPack ==
    ASSUME NEW b, NEW t \in 0 .. 9, NEW u \in 0 .. 9, b = 16 * t + u
    PROVE  b \in Packed /\ Number(b) = 10 * t + u
<1>1. b \div 16 = t /\ b % 16 = u
  OBVIOUS
<1> QED BY <1>1 DEF Packed, Number

\* The two decimal adjustments: 6 when the low digits carry, and 96 when the
\* high ones do, make the sum of two packed bytes a packed byte and a hundred.
IsPackedSum(w, hundred, x, v, c) ==
    /\ w \in Packed
    /\ Number(w) + 100 * hundred = Number(x) + Number(v) + c

LEMMA AdjustedSumIsPacked ==
    ASSUME NEW F, NEW x \in Packed, NEW v \in Packed
    PROVE  LET s == AdjustedSum(F, x, v)
           IN  IsPackedSum(Wrap8(s), IF s > 255 THEN 1 ELSE 0, x, v, CarryIn(F))
<1> DEFINE s == AdjustedSum(F, x, v)
           w == Wrap8(s)
           c == CarryIn(F)
<1>1. PICK t \in 0 .. 9, u \in 0 .. 9 : x = 16 * t + u /\ LowNibble(x) = u /\ Number(x) = 10 * t + u
  BY PackedDigits
<1>2. PICK p \in 0 .. 9, q \in 0 .. 9 : v = 16 * p + q /\ LowNibble(v) = q /\ Number(v) = 10 * p + q
  BY PackedDigits
<1>3. c \in {0, 1}
  BY CarryInIsBit
<1>4. s = LET fixed == IF u + q + c > 9 THEN x + v + c + 6 ELSE x + v + c
          IN  IF fixed > 153 THEN fixed + 96 ELSE fixed
  BY <1>1, <1>2 DEF AdjustedSum, FixedSum, LowSum
<1> HIDE DEF s, c
<1> DEFINE low   == IF u + q + c > 9 THEN u + q + c - 10 ELSE u + q + c
           carry == IF u + q + c > 9 THEN 1 ELSE 0
           high  == IF t + p + carry > 9 THEN t + p + carry - 10 ELSE t + p + carry
           hundred == IF t + p + carry > 9 THEN 1 ELSE 0
<1>5. low \in 0 .. 9 /\ carry \in {0, 1} /\ low + 10 * carry = u + q + c
  BY <1>3
<1>6. IF u + q + c > 9 THEN x + v + c + 6 = 16 * (t + p + carry) + low
                       ELSE x + v + c = 16 * (t + p + carry) + low
  BY <1>1, <1>2, <1>3
<1>7. s = IF 16 * (t + p + carry) + low > 153 THEN 16 * (t + p + carry) + low + 96
                                              ELSE 16 * (t + p + carry) + low
  BY <1>4, <1>6
<1> HIDE DEF low, carry
<1>8. high \in 0 .. 9 /\ hundred \in {0, 1} /\ high + 10 * hundred = t + p + carry
  BY <1>5
<1>9. 16 * (t + p + carry) + low > 153 <=> hundred = 1
  BY <1>5
<1>10. s = 16 * high + low + 256 * hundred
  BY <1>5, <1>7, <1>8, <1>9
<1> HIDE DEF high, hundred
<1>11. w = 16 * high + low /\ (IF s > 255 THEN 1 ELSE 0) = hundred
  BY <1>5, <1>8, <1>10 DEF Wrap8
<1>12. w \in Packed /\ Number(w) = 10 * high + low
  BY <1>5, <1>8, <1>11, DigitsPack
<1>13. Number(w) + 100 * hundred = Number(x) + Number(v) + c
  BY <1>1, <1>2, <1>3, <1>5, <1>8, <1>12
<1> QED BY <1>11, <1>12, <1>13 DEF IsPackedSum, s, c

IsPackedDifference(w, x, v, borrow) ==
    /\ w \in Packed
    /\ Number(w) = (Number(x) - Number(v) - borrow) % 100

LEMMA AdjustedDifferenceIsPacked ==
    ASSUME NEW F, NEW x \in Packed, NEW v \in Packed
    PROVE  /\ IsPackedDifference(Wrap8(AdjustedDifference(F, x, v)), x, v, 1 - CarryIn(F))
           /\ x >= v + (1 - CarryIn(F)) <=> Number(x) - (1 - CarryIn(F)) >= Number(v)
<1> DEFINE s == AdjustedDifference(F, x, v)
           d == FixedDifference(F, x, v)
           w == Wrap8(s)
           b == 1 - CarryIn(F)
<1>1. PICK t \in 0 .. 9, u \in 0 .. 9 : x = 16 * t + u /\ LowNibble(x) = u /\ Number(x) = 10 * t + u
  BY PackedDigits
<1>2. PICK p \in 0 .. 9, q \in 0 .. 9 : v = 16 * p + q /\ LowNibble(v) = q /\ Number(v) = 10 * p + q
  BY PackedDigits
<1>3. b \in {0, 1}
  BY CarryInIsBit
<1>4. d = (x - v - b - (IF u < q + b THEN 6 ELSE 0)) % 65536
  BY <1>1, <1>2 DEF FixedDifference, Wrap16
<1>5. s = IF d > 153 THEN (d - 96) % 65536 ELSE d
  BY DEF AdjustedDifference, Wrap16
<1> HIDE DEF s, d, b
<1> DEFINE borrow == IF u < q + b THEN 1 ELSE 0
           low    == u - q - b + 10 * borrow
           hundred == IF t < p + borrow THEN 1 ELSE 0
           high   == t - p - borrow + 10 * hundred
<1>6. low \in 0 .. 9 /\ borrow \in {0, 1}
  BY <1>3
<1>7. x - v - b - (IF u < q + b THEN 6 ELSE 0) = 16 * (t - p - borrow) + low
  BY <1>1, <1>2, <1>3
<1> HIDE DEF borrow
<1>8. high \in 0 .. 9 /\ hundred \in {0, 1}
  BY <1>6
<1>9. low = u - q - b + 10 * borrow /\ high = t - p - borrow + 10 * hundred
  OBVIOUS
<1> HIDE DEF low, high, hundred
<1>10. d = (16 * high + low - 160 * hundred) % 65536
  BY <1>3, <1>4, <1>6, <1>7, <1>8, <1>9
<1>11. w = 16 * high + low
  <2>1. CASE hundred = 0
    <3>1. d = 16 * high + low
      BY <1>6, <1>8, <1>10, <2>1
    <3> QED BY <1>5, <1>6, <1>8, <3>1 DEF Wrap8
  <2>2. CASE hundred = 1
    <3>1. d = 16 * high + low - 160 + 65536
      BY <1>6, <1>8, <1>10, <2>2
    <3>2. s = 16 * high + low - 256 + 65536
      BY <1>5, <1>6, <1>8, <3>1
    <3> QED BY <1>6, <1>8, <3>2 DEF Wrap8
  <2> QED BY <1>8, <2>1, <2>2
<1>12. w \in Packed /\ Number(w) = 10 * high + low
  BY <1>6, <1>8, <1>11, DigitsPack
<1>13. Number(x) - Number(v) - b = 10 * high + low - 100 * hundred
  BY <1>1, <1>2, <1>3, <1>6, <1>8, <1>9
<1>14. Number(w) = (Number(x) - Number(v) - b) % 100
  BY <1>6, <1>8, <1>12, <1>13
<1>15. x >= v + b <=> Number(x) - b >= Number(v)
  BY <1>1, <1>2, <1>3
<1> QED BY <1>12, <1>14, <1>15 DEF IsPackedDifference, s, b

\* A decimal addition and subtraction of two packed bytes, on either model.
LEMMA DecimalAdcIsPackedSum ==
    ASSUME NEW m \in Models, NEW F, NEW x \in Packed, NEW v \in Packed
    PROVE  LET r == DecimalAdc(m, F, x, v)
           IN  /\ IsPackedSum(r.value, CarryIn(r.flags), x, v, CarryIn(F))
               /\ m = "wdc65c02" => ShowsZN(r) /\ r.cycles = 1
               /\ m = "nmos6502" => r.cycles = 0
<1> DEFINE r == DecimalAdc(m, F, x, v)
           s == AdjustedSum(F, x, v)
           w == Wrap8(s)
<1>1. IsPackedSum(w, IF s > 255 THEN 1 ELSE 0, x, v, CarryIn(F))
  BY AdjustedSumIsPacked
<1>2. /\ r.value = w
      /\ "C" \in r.flags <=> s > 255
      /\ r.cycles = IF m = "nmos6502" THEN 0 ELSE 1
      /\ m # "nmos6502" => ("Z" \in r.flags <=> w = 0) /\ ("N" \in r.flags <=> SignBit(w))
  BY DecimalAdcFlags
<1>3. w \in Byte
  BY <1>1, PackedDigits DEF IsPackedSum
<1> HIDE DEF r, s, w
<1>4. CarryIn(r.flags) = IF s > 255 THEN 1 ELSE 0
  BY <1>2 DEF CarryIn
<1>5. m = "wdc65c02" => ShowsZN(r)
  BY <1>2, <1>3, SignOfByte DEF ShowsZN
<1>6. IsPackedSum(r.value, CarryIn(r.flags), x, v, CarryIn(F))
  BY <1>1, <1>2, <1>4 DEF s, w
<1> QED BY <1>2, <1>5, <1>6 DEF r

LEMMA DecimalSbcIsPackedDifference ==
    ASSUME NEW m \in Models, NEW F, NEW x \in Packed, NEW v \in Packed
    PROVE  LET r == DecimalSbc(m, F, x, v)
               borrow == 1 - CarryIn(F)
           IN  /\ IsPackedDifference(r.value, x, v, borrow)
               /\ "C" \in r.flags <=> Number(x) - borrow >= Number(v)
               /\ m = "wdc65c02" => ShowsZN(r) /\ r.cycles = 1
               /\ m = "nmos6502" => r.cycles = 0
<1> DEFINE r == DecimalSbc(m, F, x, v)
           w == Wrap8(AdjustedDifference(F, x, v))
           b == BinaryAdd(F, x, 255 - v)
           borrow == 1 - CarryIn(F)
<1>1. /\ IsPackedDifference(w, x, v, borrow)
      /\ x >= v + borrow <=> Number(x) - borrow >= Number(v)
  BY AdjustedDifferenceIsPacked
<1>2. /\ r.value = w
      /\ "C" \in r.flags <=> "C" \in b.flags
      /\ r.cycles = IF m = "nmos6502" THEN 0 ELSE 1
      /\ m # "nmos6502" => ("Z" \in r.flags <=> w = 0) /\ ("N" \in r.flags <=> SignBit(w))
  BY DecimalSbcFlags
<1>3. w \in Byte /\ x \in Byte /\ v \in Byte
  BY <1>1, PackedDigits DEF IsPackedDifference
<1>4. "C" \in b.flags <=> x >= v + borrow
  BY <1>3, InvertedAddIsDifference DEF IsDifference
<1> HIDE DEF r, w, b, borrow
<1>5. m = "wdc65c02" => ShowsZN(r)
  BY <1>2, <1>3, SignOfByte DEF ShowsZN
<1> QED BY <1>1, <1>2, <1>4, <1>5 DEF r, borrow

\* In decimal mode ADC and SBC add and subtract the numbers that packed bytes
\* stand for modulo 100, with C as the carry and the absence of a borrow; the
\* 65C02 shows the result in Z and N and takes one cycle more, the NMOS part not.
THEOREM DecimalNumbers == AluSpec => []DecimalArithmetic
<1>1. AluOK => DecimalArithmetic
  <2> SUFFICES ASSUME AluOK, "D" \in f, a \in Packed, NEW v \in Packed
               PROVE  LET sum  == Adc(model, f, a, v)
                          diff == Sbc(model, f, a, v)
                      IN  /\ {sum.value, diff.value} \subseteq Packed
                          /\ Number(sum.value) + 100 * CarryIn(sum.flags)
                                 = Number(a) + Number(v) + Carry
                          /\ Number(diff.value) = (Number(a) - Number(v) - 1 + Carry) % 100
                          /\ "C" \in diff.flags <=> Number(a) - 1 + Carry >= Number(v)
                          /\ model = "wdc65c02" =>
                                 ShowsZN(sum) /\ ShowsZN(diff) /\ sum.cycles = 1 /\ diff.cycles = 1
                          /\ model = "nmos6502" => sum.cycles = 0 /\ diff.cycles = 0
    BY DEF DecimalArithmetic
  <2> DEFINE sum  == Adc(model, f, a, v)
             diff == Sbc(model, f, a, v)
             borrow == 1 - CarryIn(f)
  <2>1. sum = DecimalAdc(model, f, a, v) /\ diff = DecimalSbc(model, f, a, v) /\ model \in Models
    BY DEF Adc, Sbc, AluOK, Models
  <2>2. /\ IsPackedSum(sum.value, CarryIn(sum.flags), a, v, CarryIn(f))
        /\ model = "wdc65c02" => ShowsZN(sum) /\ sum.cycles = 1
        /\ model = "nmos6502" => sum.cycles = 0
    <3> HIDE DEF sum
    <3> QED BY <2>1, DecimalAdcIsPackedSum
  <2>3. /\ IsPackedDifference(diff.value, a, v, borrow)
        /\ "C" \in diff.flags <=> Number(a) - borrow >= Number(v)
        /\ model = "wdc65c02" => ShowsZN(diff) /\ diff.cycles = 1
        /\ model = "nmos6502" => diff.cycles = 0
    BY <2>1, DecimalSbcIsPackedDifference
  <2>4. Carry \in {0, 1} /\ borrow = 1 - Carry
    BY CarryInIsBit, CarryIsCarryIn
  <2>5. Number(a) \in Int /\ Number(v) \in Int
    BY PackedDigits
  <2> HIDE DEF sum, diff, borrow
  <2>6. /\ Number(a) - Number(v) - borrow = Number(a) - Number(v) - 1 + Carry
        /\ Number(a) - borrow = Number(a) - 1 + Carry
    BY <2>4, <2>5
  <2>7. {sum.value, diff.value} \subseteq Packed
    BY <2>2, <2>3 DEF IsPackedSum, IsPackedDifference
  <2>8. Number(sum.value) + 100 * CarryIn(sum.flags) = Number(a) + Number(v) + Carry
    BY <2>2, CarryIsCarryIn DEF IsPackedSum
  <2>9. Number(diff.value) = (Number(a) - Number(v) - 1 + Carry) % 100
    BY <2>3, <2>6 DEF IsPackedDifference
  <2>10. "C" \in diff.flags <=> Number(a) - 1 + Carry >= Number(v)
    BY <2>3, <2>6
  <2> QED BY <2>2, <2>3, <2>7, <2>8, <2>9, <2>10 DEF sum, diff
<1> QED BY <1>1, AluStateCorrect, PTL

-----------------------------------------------------------------------------
\* A byte with the high digit t, whose sign is the sign of the byte.
SignedDigit(t) == IF t >= 8 THEN 16 * t - 256 ELSE 16 * t
HasHighDigit(x, t) ==
    /\ HighNibble(x) = 16 * t
    /\ Sixteens(x) = SignedDigit(t)
    /\ x >= 128 <=> t >= 8

LEMMA HighDigit ==
    ASSUME NEW x \in Byte
    PROVE  LowNibble(x) = x % 16 /\ \E t \in 0 .. 15 : HasHighDigit(x, t)
<1> DEFINE t == x \div 16
<1>1. t \in 0 .. 15 /\ x = 16 * t + (x % 16) /\ x % 16 \in 0 .. 15
  BY DEF Byte
<1>2. LowNibble(x) = x % 16 /\ HighNibble(x) = 16 * t
  BY <1>1 DEF LowNibble, HighNibble
<1>3. Sixteens(x) = SignedDigit(t)
  BY <1>1 DEF Sixteens, Signed, SignedDigit
<1>4. x >= 128 <=> t >= 8
  BY <1>1
<1> HIDE DEF t
<1>5. HasHighDigit(x, t)
  BY <1>2, <1>3, <1>4 DEF HasHighDigit
<1> QED BY <1>1, <1>2, <1>5

\* The sum of the high digits and a carry as the NMOS part's intermediate byte and
\* as a signed number.
ShowsSum(t, p, r, high) ==
    /\ (t >= 8 <=> p >= 8) /\ ~(t >= 8 <=> r >= 128) <=> high \notin -128 .. 127
    /\ r >= 128 <=> high % 256 >= 128

LEMMA SumOfSixteens ==
    ASSUME NEW t \in 0 .. 15, NEW p \in 0 .. 15, NEW k \in {0, 1}
    PROVE  ShowsSum(t, p, (16 * t + 16 * p + 16 * k) % 256, SignedDigit(t) + SignedDigit(p) + 16 * k)
<1> DEFINE r    == (16 * t + 16 * p + 16 * k) % 256
           high == SignedDigit(t) + SignedDigit(p) + 16 * k
<1>1. r = 16 * (IF t + p + k >= 16 THEN t + p + k - 16 ELSE t + p + k)
  <2>1. CASE t + p + k >= 16
    BY <2>1
  <2>2. CASE ~(t + p + k >= 16)
    BY <2>2
  <2> QED BY <2>1, <2>2
<1>2. (t >= 8 <=> p >= 8) /\ ~(t >= 8 <=> r >= 128) <=> high \notin -128 .. 127
  <2>1. CASE t >= 8 /\ p >= 8
    BY <1>1, <2>1 DEF SignedDigit
  <2>2. CASE ~(t >= 8) /\ ~(p >= 8)
    BY <1>1, <2>2 DEF SignedDigit
  <2>3. CASE ~(t >= 8 <=> p >= 8)
    BY <2>3 DEF SignedDigit
  <2> QED BY <2>1, <2>2, <2>3
<1>3. high % 256 = r
  BY DEF SignedDigit
<1> HIDE DEF r, high
<1> QED BY <1>2, <1>3 DEF ShowsSum, r, high

LEMMA MiddleIsHighSum ==
    ASSUME NEW F, NEW x \in Byte, NEW v \in Byte, NEW high,
           high = Sixteens(x) + Sixteens(v)
                      + (IF (x % 16) + (v % 16) + CarryIn(F) > 9 THEN 16 ELSE 0)
    PROVE  /\ Overflow(x, v, Middle(F, x, v)) <=> high \notin -128 .. 127
           /\ SignBit(Middle(F, x, v)) <=> high % 256 >= 128
<1>1. PICK t \in 0 .. 15 : HasHighDigit(x, t)
  BY HighDigit, Zenon
<1>2. PICK p \in 0 .. 15 : HasHighDigit(v, p)
  BY HighDigit, Zenon
<1>3. LowSum(F, x, v) = (x % 16) + (v % 16) + CarryIn(F)
  <2>1. LowNibble(x) = x % 16 /\ LowNibble(v) = v % 16
    BY HighDigit, Zenon
  <2> QED BY <2>1 DEF LowSum
<1> DEFINE r == Middle(F, x, v)
<1>4. PICK k \in {0, 1} : LowSum(F, x, v) > 9 <=> k = 1
  OBVIOUS
<1>5. r = (16 * t + 16 * p + 16 * k) % 256
  <2>1. r = (16 * t + 16 * p + (IF LowSum(F, x, v) > 9 THEN 16 ELSE 0)) % 256
    BY <1>1, <1>2 DEF Middle, Wrap8, HasHighDigit
  <2>2. (IF LowSum(F, x, v) > 9 THEN 16 ELSE 0) = 16 * k
    BY <1>4
  <2> QED BY <2>1, <2>2
<1>6. high = SignedDigit(t) + SignedDigit(p) + 16 * k
  BY <1>1, <1>2, <1>3, <1>4 DEF HasHighDigit
<1> HIDE DEF r
<1>7. ShowsSum(t, p, r, high)
  <2>1. ShowsSum(t, p, (16 * t + 16 * p + 16 * k) % 256, SignedDigit(t) + SignedDigit(p) + 16 * k)
    BY SumOfSixteens, Zenon
  <2> QED BY <1>5, <1>6, <2>1, Zenon
<1> QED BY <1>1, <1>2, <1>7 DEF Overflow, SignBit, HasHighDigit, ShowsSum, r

\* What the flags of a decimal addition and subtraction say.
SumShows(m, r, x, v, c) ==
    LET high == Sixteens(x) + Sixteens(v) + (IF (x % 16) + (v % 16) + c > 9 THEN 16 ELSE 0)
    IN  /\ "V" \in r.flags <=> high \notin -128 .. 127
        /\ m = "wdc65c02" => ShowsZN(r)
        /\ m = "nmos6502" => /\ "Z" \in r.flags <=> (x + v + c) % 256 = 0
                             /\ "N" \in r.flags <=> high % 256 >= 128

DifferenceShows(m, r, x, v, borrow) ==
    /\ "V" \in r.flags <=> Signed(x) - Signed(v) - borrow \notin -128 .. 127
    /\ m = "wdc65c02" => ShowsZN(r)
    /\ m = "nmos6502" => /\ "Z" \in r.flags <=> (x - v - borrow) % 256 = 0
                         /\ "N" \in r.flags <=> (x - v - borrow) % 256 >= 128

LEMMA DecimalSumShows ==
    ASSUME NEW m \in Models, NEW F, NEW x \in Byte, NEW v \in Byte
    PROVE  SumShows(m, DecimalAdc(m, F, x, v), x, v, CarryIn(F))
<1> DEFINE r == DecimalAdc(m, F, x, v)
           w == Wrap8(AdjustedSum(F, x, v))
           high == Sixteens(x) + Sixteens(v)
                       + (IF (x % 16) + (v % 16) + CarryIn(F) > 9 THEN 16 ELSE 0)
<1>1. /\ r.value = w
      /\ "V" \in r.flags <=> Overflow(x, v, Middle(F, x, v))
      /\ m # "nmos6502" => ("Z" \in r.flags <=> w = 0) /\ ("N" \in r.flags <=> SignBit(w))
      /\ m = "nmos6502" => /\ "Z" \in r.flags <=> Wrap8(x + v + CarryIn(F)) = 0
                           /\ "N" \in r.flags <=> SignBit(Middle(F, x, v))
  BY DecimalAdcFlags
<1>2. /\ Overflow(x, v, Middle(F, x, v)) <=> high \notin -128 .. 127
      /\ SignBit(Middle(F, x, v)) <=> high % 256 >= 128
  BY MiddleIsHighSum
<1>3. w \in Byte
  <2>1. AdjustedSum(F, x, v) \in Int
    BY CarryInIsBit DEF AdjustedSum, FixedSum, Byte
  <2> QED BY <2>1, WrapsAreWords
<1> HIDE DEF r, w, high
<1>4. m = "wdc65c02" => ShowsZN(r)
  BY <1>1, <1>3, SignOfByte DEF ShowsZN
<1>5. Wrap8(x + v + CarryIn(F)) = (x + v + CarryIn(F)) % 256
  BY DEF Wrap8
<1> QED BY <1>1, <1>2, <1>4, <1>5, Zenon DEF r, high, SumShows

LEMMA DecimalDifferenceShows ==
    ASSUME NEW m \in Models, NEW F, NEW x \in Byte, NEW v \in Byte
    PROVE  DifferenceShows(m, DecimalSbc(m, F, x, v), x, v, 1 - CarryIn(F))
<1> DEFINE r == DecimalSbc(m, F, x, v)
           w == Wrap8(AdjustedDifference(F, x, v))
           b == BinaryAdd(F, x, 255 - v)
           borrow == 1 - CarryIn(F)
           d == (x - v - borrow) % 256
<1>1. /\ r.value = w
      /\ "V" \in r.flags <=> "V" \in b.flags
      /\ m # "nmos6502" => ("Z" \in r.flags <=> w = 0) /\ ("N" \in r.flags <=> SignBit(w))
      /\ m = "nmos6502" => r.flags = b.flags
  BY DecimalSbcFlags
<1>2. IsDifference(b, x, v, borrow)
  BY InvertedAddIsDifference
<1>3. w \in Byte
  <2>1. FixedDifference(F, x, v) \in Int
    BY CarryInIsBit, WrapsAreWords DEF FixedDifference, Byte, Wrap16
  <2>2. AdjustedDifference(F, x, v) \in Int
    BY <2>1 DEF AdjustedDifference, Wrap16
  <2> QED BY <2>2, WrapsAreWords
<1>4. borrow \in {0, 1}
  BY CarryInIsBit
<1> HIDE DEF r, w, b, borrow
<1>5. d \in Byte
  BY <1>4 DEF Byte
<1>6. m = "wdc65c02" => ShowsZN(r)
  BY <1>1, <1>3, SignOfByte DEF ShowsZN
<1>7. /\ "V" \in b.flags <=> Signed(x) - Signed(v) - borrow \notin -128 .. 127
      /\ b.value = d
      /\ ShowsZN(b)
  BY <1>2 DEF IsDifference
<1> HIDE DEF d
<1>8. ("Z" \in b.flags <=> d = 0) /\ ("N" \in b.flags <=> d >= 128)
  BY <1>5, <1>7, SignOfByte DEF ShowsZN
<1> QED BY <1>1, <1>6, <1>7, <1>8, Zenon DEF r, borrow, d, DifferenceShows

\* N, V and Z after a decimal ADC and SBC, for every accumulator, operand and carry,
\* packed or not.  The NMOS part shows the binary sum in Z, the sum of the high
\* digits in N and the binary difference; the 65C02 shows the value it leaves.
THEOREM FlagsOfDecimalMode == AluSpec => []DecimalFlags
<1>1. AluOK => DecimalFlags
  <2> SUFFICES ASSUME AluOK, "D" \in f, NEW v \in Byte
               PROVE  /\ SumShows(model, Adc(model, f, a, v), a, v, Carry)
                      /\ DifferenceShows(model, Sbc(model, f, a, v), a, v, 1 - Carry)
    BY ZenonT(120) DEF DecimalFlags, SumShows, DifferenceShows
  <2>1. model \in Models /\ a \in Byte
    BY DEF AluOK, Models
  <2>2. Adc(model, f, a, v) = DecimalAdc(model, f, a, v)
    BY Zenon DEF Adc
  <2>3. Sbc(model, f, a, v) = DecimalSbc(model, f, a, v)
    BY Zenon DEF Sbc
  <2>4. SumShows(model, DecimalAdc(model, f, a, v), a, v, CarryIn(f))
    BY <2>1, DecimalSumShows
  <2>5. DifferenceShows(model, DecimalSbc(model, f, a, v), a, v, 1 - CarryIn(f))
    BY <2>1, DecimalDifferenceShows
  <2> QED BY <2>2, <2>3, <2>4, <2>5, CarryIsCarryIn, Zenon
<1> QED BY <1>1, AluStateCorrect, PTL
===============================================================================
