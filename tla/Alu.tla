--------------------------------- MODULE Alu ---------------------------------
(***************************************************************************)
(* The processor status and the arithmetic of cpp65's CPU: set_flag,       *)
(* set_zn, adc, sbc, compare and the four shifts, as operators that return *)
(* the new value and the new status.  The status register reg_f is the set *)
(* of the flags that are 1; StatusByte and FlagsOf are the two conversions *)
(* between that set and the byte that PHP, PLP, RTI and interrupts move    *)
(* over the stack.                                                         *)
(***************************************************************************)
EXTENDS MachineWords

FlagBit == [C |-> 0, Z |-> 1, I |-> 2, D |-> 3, B |-> 4, U |-> 5, V |-> 6, N |-> 7]
Flag    == {"C", "Z", "I", "D", "B", "U", "V", "N"}

StatusByte(F) == FromBits({FlagBit[f] : f \in F})
FlagsOf(b)    == {f \in Flag : FlagBit[f] \in Bits(b)}

\* The status as pushed (B chosen by the pusher, U always 1) and as restored
\* by a pull (B always 0, U always 1).
PushedStatus(F, brk) == StatusByte((F \ {"B"}) \cup {"U"} \cup (IF brk THEN {"B"} ELSE {}))

\* Mutants of PulledFlags: the B of the pushed byte is kept; D is lost.
PulledWithB(b)    == FlagsOf(b) \cup {"U"}
PulledWithoutD(b) == (FlagsOf(b) \ {"B", "D"}) \cup {"U"}

PulledFlags(b) == (FlagsOf(b) \ {"B"}) \cup {"U"}

\* set_flag for every flag f in the domain of g, to g[f].
Assign(F, g) == (F \ DOMAIN g) \cup {f \in DOMAIN g : g[f]}

SetZN(F, v) == Assign(F, [Z |-> (v = 0), N |-> SignBit(v)])

CarryIn(F) == IF "C" \in F THEN 1 ELSE 0

-----------------------------------------------------------------------------
(***************************************************************************)
(* Addition and subtraction.  Both are a binary addition of the operand    *)
(* (inverted for sbc); overflow is a sign the operands agree on and the    *)
(* result does not.  In decimal mode the two models differ in the flags    *)
(* and in the extra cycle.                                                 *)
(***************************************************************************)
\* A mutant of Overflow: the ~ of ~(a ^ value) is lost.
OverflowOfUnlike(a, v, r) == SignBit(a) # SignBit(v) /\ SignBit(a) # SignBit(r)

Overflow(a, v, r) == SignBit(a) = SignBit(v) /\ SignBit(a) # SignBit(r)

BinaryAdd(F, a, v) ==
    LET sum == a + v + CarryIn(F)
    IN  [value  |-> Wrap8(sum),
         flags  |-> Assign(SetZN(F, Wrap8(sum)),
                           [C |-> sum > 255, V |-> Overflow(a, v, Wrap8(sum))]),
         cycles |-> 0]

\* Mutants of DecimalAdc, for packed operands: 99 is adjusted; the 65C02 takes
\* no cycle more.
DecimalAdcFrom(limit, extra, model, F, a, v) ==
    LET sum      == a + v + CarryIn(F)
        lowCarry == LowNibble(a) + LowNibble(v) + CarryIn(F) > 9
        lowFixed == IF lowCarry THEN sum + 6 ELSE sum
        adjusted == IF lowFixed > limit THEN lowFixed + 96 ELSE lowFixed
    IN  [value  |-> Wrap8(adjusted),
         flags  |-> Assign(SetZN(F, Wrap8(adjusted)), [C |-> adjusted > 255]),
         cycles |-> IF model = "nmos6502" THEN 0 ELSE extra]
DecimalAdcFrom99(model, F, a, v)  == DecimalAdcFrom(152, 1, model, F, a, v)
DecimalAdcOnTime(model, F, a, v)  == DecimalAdcFrom(153, 0, model, F, a, v)

DecimalAdc(model, F, a, v) ==
    LET sum      == a + v + CarryIn(F)
        lowCarry == LowNibble(a) + LowNibble(v) + CarryIn(F) > 9
        lowFixed == IF lowCarry THEN sum + 6 ELSE sum
        adjusted == IF lowFixed > 153 THEN lowFixed + 96 ELSE lowFixed
        middle   == Wrap8(HighNibble(a) + HighNibble(v) + (IF lowCarry THEN 16 ELSE 0))
        CV       == Assign(F, [C |-> adjusted > 255, V |-> Overflow(a, v, middle)])
    IN  IF model = "nmos6502"
        THEN [value  |-> Wrap8(adjusted),
              flags  |-> Assign(CV, [Z |-> (Wrap8(sum) = 0), N |-> SignBit(middle)]),
              cycles |-> 0]
        ELSE [value  |-> Wrap8(adjusted),
              flags  |-> SetZN(CV, Wrap8(adjusted)),
              cycles |-> 1]

Adc(model, F, a, v) ==
    IF "D" \in F THEN DecimalAdc(model, F, a, v) ELSE BinaryAdd(F, a, v)

\* A mutant of DecimalSbc: the NMOS part shows the adjusted difference, too.
DecimalSbcShown(model, F, a, v) ==
    LET binary    == BinaryAdd(F, a, 255 - v)
        borrow    == 1 - CarryIn(F)
        lowBorrow == LowNibble(a) < LowNibble(v) + borrow
        lowFixed  == Wrap16(a - v - borrow - (IF lowBorrow THEN 6 ELSE 0))
        adjusted  == IF lowFixed > 153 THEN Wrap16(lowFixed - 96) ELSE lowFixed
    IN  [value  |-> Wrap8(adjusted),
         flags  |-> SetZN(binary.flags, Wrap8(adjusted)),
         cycles |-> IF model = "nmos6502" THEN 0 ELSE 1]

DecimalSbc(model, F, a, v) ==
    LET binary    == BinaryAdd(F, a, 255 - v)
        borrow    == 1 - CarryIn(F)
        lowBorrow == LowNibble(a) < LowNibble(v) + borrow
        lowFixed  == Wrap16(a - v - borrow - (IF lowBorrow THEN 6 ELSE 0))
        adjusted  == IF lowFixed > 153 THEN Wrap16(lowFixed - 96) ELSE lowFixed
    IN  IF model = "nmos6502"
        THEN [value |-> Wrap8(adjusted), flags |-> binary.flags, cycles |-> 0]
        ELSE [value  |-> Wrap8(adjusted),
              flags  |-> SetZN(binary.flags, Wrap8(adjusted)),
              cycles |-> 1]

\* A mutant of Sbc: the operand is negated and not inverted.
SbcNegated(model, F, a, v) ==
    IF "D" \in F THEN DecimalSbc(model, F, a, v) ELSE BinaryAdd(F, a, Wrap8(256 - v))

Sbc(model, F, a, v) ==
    IF "D" \in F THEN DecimalSbc(model, F, a, v) ELSE BinaryAdd(F, a, 255 - v)

\* A mutant of CompareFlags: equal operands clear C.
CompareFlagsStrict(F, lhs, rhs) == Assign(SetZN(F, Wrap8(lhs - rhs)), [C |-> lhs > rhs])

CompareFlags(F, lhs, rhs) == Assign(SetZN(F, Wrap8(lhs - rhs)), [C |-> lhs >= rhs])

-----------------------------------------------------------------------------
Shifted(F, v, carryOut) == [value |-> v, flags |-> Assign(SetZN(F, v), [C |-> carryOut])]

\* A mutant of Ror: the old carry is not rotated in.
RorShifting(F, v) == Shifted(F, v \div 2, v % 2 = 1)

Asl(F, v) == Shifted(F, Wrap8(2 * v), SignBit(v))
Rol(F, v) == Shifted(F, Wrap8(2 * v) + CarryIn(F), SignBit(v))
Lsr(F, v) == Shifted(F, v \div 2, v % 2 = 1)
Ror(F, v) == Shifted(F, (v \div 2) + 128 * CarryIn(F), v % 2 = 1)

ShiftResult(op, F, v) ==
    CASE op = "ASL" -> Asl(F, v)
      [] op = "ROL" -> Rol(F, v)
      [] op = "LSR" -> Lsr(F, v)
      [] op = "ROR" -> Ror(F, v)
=============================================================================
