------------------------------ MODULE AluMachine ------------------------------
(***************************************************************************)
(* The accumulator under additions, subtractions and the mode and carry    *)
(* instructions.  The invariants compare what the next ADC, SBC, compare   *)
(* or shift would yield, for every operand, with an independent account of *)
(* the arithmetic: numbers for the binary mode, two decimal digits for the *)
(* decimal mode.                                                           *)
(***************************************************************************)
EXTENDS Alu

VARIABLES model, a, f   \* f: the flags that the arithmetic reads, C and D

aluVars == <<model, a, f>>

CONSTANT Operands   \* what is added and subtracted

ASSUME OperandsAssumption == Operands \subseteq Byte

AluInit == model \in {"nmos6502", "wdc65c02"} /\ a = 0 /\ f = {}

Becomes(r) == a' = r.value /\ f' = r.flags \cap {"C", "D"} /\ model' = model

AddStep      == \E v \in Operands : Becomes(Adc(model, f, a, v))
SubtractStep == \E v \in Operands : Becomes(Sbc(model, f, a, v))
FlagStep     == \E g \in {"C", "D"}, b \in BOOLEAN :
                    f' = Assign(f, [h \in {g} |-> b]) /\ UNCHANGED <<model, a>>

AluNext == AddStep \/ SubtractStep \/ FlagStep

AluSpec == AluInit /\ [][AluNext]_aluVars

-----------------------------------------------------------------------------
\* The two's complement reading of a byte.
Signed(b) == IF b < 128 THEN b ELSE b - 256

\* Does a result's status say what value it is: Z for zero and N for bit 7?
ShowsZN(r) == ("Z" \in r.flags <=> r.value = 0) /\ ("N" \in r.flags <=> Signed(r.value) < 0)

Carry == IF "C" \in f THEN 1 ELSE 0

\* In binary mode ADC is addition modulo 256, C is the ninth bit, and V is set
\* exactly when the sum of the signed readings is not a signed byte.
BinaryAddition ==
    "D" \notin f => \A v \in Byte :
        LET r == Adc(model, f, a, v)
        IN  /\ r.value + 256 * CarryIn(r.flags) = a + v + Carry
            /\ "V" \in r.flags <=> Signed(a) + Signed(v) + Carry \notin -128 .. 127
            /\ ShowsZN(r)

\* In binary mode SBC is subtraction modulo 256, C is set when nothing had to
\* be borrowed, and V when the signed difference is not a signed byte.
BinarySubtraction ==
    "D" \notin f => \A v \in Byte :
        LET r == Sbc(model, f, a, v)
            borrow == 1 - Carry
        IN  /\ r.value = (a - v - borrow) % 256
            /\ "C" \in r.flags <=> a >= v + borrow
            /\ "V" \in r.flags <=> Signed(a) - Signed(v) - borrow \notin -128 .. 127
            /\ ShowsZN(r)

\* The packed decimal bytes, and the number that one holds.
Packed == {16 * t + u : t \in 0 .. 9, u \in 0 .. 9}
Number(b) == 10 * (b \div 16) + (b % 16)

\* In decimal mode both models add and subtract packed decimal numbers modulo
\* 100 with C as the decimal carry.  The 65C02 shows the decimal result in Z and N
\* and takes one more cycle for it; what the NMOS part shows says DecimalFlags.
DecimalArithmetic ==
    "D" \in f /\ a \in Packed => \A v \in Packed :
        LET sum  == Adc(model, f, a, v)
            diff == Sbc(model, f, a, v)
        IN  /\ {sum.value, diff.value} \subseteq Packed
            /\ Number(sum.value) + 100 * CarryIn(sum.flags) = Number(a) + Number(v) + Carry
            /\ Number(diff.value) = (Number(a) - Number(v) - 1 + Carry) % 100
            /\ "C" \in diff.flags <=> Number(a) - 1 + Carry >= Number(v)
            /\ model = "wdc65c02" =>
                   ShowsZN(sum) /\ ShowsZN(diff) /\ sum.cycles = 1 /\ diff.cycles = 1
            /\ model = "nmos6502" => sum.cycles = 0 /\ diff.cycles = 0

\* The signed sixteens of a byte: what its high digit stands for.
Sixteens(b) == Signed(b - (b % 16))

\* The flags of the decimal mode, for every byte, packed or not.  V of a sum is
\* the signed overflow of the high digits and the carry of the low ones, before
\* the high digit is adjusted; V of a difference is that of the binary one.  The
\* NMOS part shows in Z the binary sum, in N the sum of the high digits, and in
\* both the binary difference; the 65C02 shows the value that it leaves in A.
DecimalFlags ==
    "D" \in f => \A v \in Byte :
        LET sum    == Adc(model, f, a, v)
            diff   == Sbc(model, f, a, v)
            borrow == 1 - Carry
            high   == Sixteens(a) + Sixteens(v)
                          + (IF (a % 16) + (v % 16) + Carry > 9 THEN 16 ELSE 0)
        IN  /\ "V" \in sum.flags <=> high \notin -128 .. 127
            /\ "V" \in diff.flags <=> Signed(a) - Signed(v) - borrow \notin -128 .. 127
            /\ model = "wdc65c02" => ShowsZN(sum) /\ ShowsZN(diff)
            /\ model = "nmos6502" =>
                   /\ "Z" \in sum.flags  <=> (a + v + Carry) % 256 = 0
                   /\ "N" \in sum.flags  <=> high % 256 >= 128
                   /\ "Z" \in diff.flags <=> (a - v - borrow) % 256 = 0
                   /\ "N" \in diff.flags <=> (a - v - borrow) % 256 >= 128

\* A comparison sets Z, C and N as a subtraction without borrow would, whatever
\* the carry was, and leaves V as it was.
CompareIsSubtraction ==
    \A v \in Byte, F \in SUBSET {"C", "V"} :
        LET r == BinaryAdd({"C"}, a, 255 - v)
        IN  CompareFlags(F, a, v) = (F \cap {"V"}) \cup (r.flags \ {"V"})

\* ROR undoes ROL and LSR undoes ASL but for the bit that C took: nothing is
\* lost between the value and the carry.
ShiftsKeepEveryBit ==
    LET rolled == Rol(f, a)
        left   == Asl(f, a)
    IN  /\ Ror(rolled.flags, rolled.value).value = a
        /\ (Ror(rolled.flags, rolled.value).flags \cap {"C"}) = (f \cap {"C"})
        /\ Lsr(left.flags, left.value).value + 128 * CarryIn(left.flags) = a
=============================================================================
