--------------------------------- MODULE Cpu ---------------------------------
(***************************************************************************)
(* The CPU of cpp65 on its bus.  Tick is one call of CPU::tick(): it       *)
(* serves a reset, spends a cycle of the instruction under way, serves an  *)
(* interrupt, idles, or executes the whole next instruction and leaves in  *)
(* cycles what is left of its time.  An instruction reads its opcode, its  *)
(* operands and its effective address before it writes, so each of its     *)
(* values is a function of the state before the tick.                      *)
(*                                                                         *)
(* The member fetched is left out: fetch() returns what it stores there    *)
(* and nothing else reads it.                                              *)
(***************************************************************************)
EXTENDS Stack, Alu, OpcodeTable

VARIABLES
    reg,        \* reg_a, reg_x and reg_y, as a function from {"a", "x", "y"}
    reg_f,      \* the set of the status flags that are 1
    pc, opcode, addr_abs, addr_rel, cycles, stopped, waiting,
    model       \* the constructor's model_, which selects the table

modeVars == <<stopped, waiting>>
cpuVars  == <<reg, reg_f, sp, pc, opcode, addr_abs, addr_rel, cycles, modeVars, model>>
vars     == <<lineVars, dataVars, cpuVars>>

-----------------------------------------------------------------------------
(***************************************************************************)
(* Fetch and addressing.                                                   *)
(***************************************************************************)
\* The bytes behind the opcode.
Arg   == Read(Wrap16(pc + 1))
Arg16 == Read16(Wrap16(pc + 1))

\* A mutant of ZeroPage16: the high byte of the pointer at $FF is in page one.
ZeroPage16Unwrapped(z) == Pair(Read(z), Read(z + 1))

\* A pointer in page zero; the address of its high byte wraps at 2^8.
ZeroPage16(z) == Pair(Read(z), Read(Wrap8(z + 1)))

\* The NMOS part takes the high byte of a pointer at $xxFF from $xx00.
Indirect(ptr) ==
    IF model = "nmos6502" /\ Low(ptr) = 255
    THEN Pair(Read(ptr), Read(ptr - 255)) ELSE Read16(ptr)

Length(mode) ==
    CASE mode \in {"imp", "acc"} -> 1
      [] mode \in {"abs", "abx", "aby", "ind", "iax", "zpr"} -> 3
      [] OTHER -> 2

\* addr_abs of the indexed modes before the index is added.
Base(mode) == IF mode = "izy" THEN ZeroPage16(Arg) ELSE Arg16

\* addr_abs after the addressing mode; imp, acc and rel leave it as it was.
EffectiveAddress(mode) ==
    CASE mode = "imm" -> Wrap16(pc + 1)
      [] mode \in {"zp0", "zpr"} -> Arg
      [] mode = "zpx" -> Wrap8(Arg + reg["x"])
      [] mode = "zpy" -> Wrap8(Arg + reg["y"])
      [] mode = "abs" -> Arg16
      [] mode = "abx" -> Wrap16(Base(mode) + reg["x"])
      [] mode \in {"aby", "izy"} -> Wrap16(Base(mode) + reg["y"])
      [] mode = "ind" -> Indirect(Arg16)
      [] mode = "iax" -> Read16(Wrap16(Arg16 + reg["x"]))
      [] mode = "izx" -> ZeroPage16(Wrap8(Arg + reg["x"]))
      [] mode = "zpi" -> ZeroPage16(Arg)
      [] OTHER -> addr_abs

\* addr_rel after the addressing mode.
RelativeOffset(mode) ==
    CASE mode = "rel" -> SignExtend(Arg)
      [] mode = "zpr" -> SignExtend(Read(Wrap16(pc + 2)))
      [] OTHER -> addr_rel

\* A mutant of PageCross: the address is compared with the operand, which for
\* izy is where the pointer is.
PageCrossFromOperand(mode) ==
    IF mode \in {"abx", "aby", "izy"} /\ ~SamePage(EffectiveAddress(mode), Arg16)
    THEN 1 ELSE 0

\* The page-crossing cycle, for the operations that return 1.
PageCross(mode) ==
    IF mode \in {"abx", "aby", "izy"} /\ ~SamePage(EffectiveAddress(mode), Base(mode))
    THEN 1 ELSE 0

\* What the operation finds after its addressing mode has run: its entry of
\* the table, the bit its opcode encodes, the pc behind it, addr_abs,
\* addr_rel, extra1, and the value that fetch() or a read of addr_abs returns.
Decoded ==
    LET o    == Read(pc)
        inst == table[model][o]
        mode == inst.mode
    IN  [op     |-> inst.op,
         mode   |-> mode,
         cycles |-> inst.cycles,
         bit    |-> (o \div 16) % 8,
         next   |-> Wrap16(pc + Length(mode)),
         at     |-> EffectiveAddress(mode),
         offset |-> RelativeOffset(mode),
         extra1 |-> PageCross(mode),
         value  |-> IF mode \in {"imp", "acc"} THEN reg["a"] ELSE Read(EffectiveAddress(mode))]

-----------------------------------------------------------------------------
(***************************************************************************)
(* What an instruction leaves behind.  Each effect states the whole of the *)
(* tick's change but for opcode, addr_abs and addr_rel, which Execute      *)
(* updates, and but for the pc and the cycles, which come from Retire.     *)
(***************************************************************************)
\* A mutant of Spend: the tick itself is not counted.
SpendNothing(n) == cycles' = n

Spend(n) == cycles' = IF n > 0 THEN n - 1 ELSE 0

Retire(d, extra) == pc' = d.next /\ Spend(d.cycles + extra)

SetRegister(r, v, F) ==
    /\ reg' = [reg EXCEPT ![r] = v]
    /\ reg_f' = F
    /\ Quiet
    /\ UNCHANGED <<sp, modeVars>>

SetStatus(F)    == reg_f' = F /\ Quiet /\ UNCHANGED <<reg, sp, modeVars>>
StoreTo(a, v, F) == reg_f' = F /\ Write([c \in {a} |-> v]) /\ UNCHANGED <<reg, sp, modeVars>>

\* A read-modify-write of A or of memory.
Modify(d, v, F) == IF OnAccumulator(d) THEN SetRegister("a", v, F) ELSE StoreTo(d.at, v, F)

-----------------------------------------------------------------------------
(***************************************************************************)
(* The instructions that work on the registers.                            *)
(***************************************************************************)
LoadOp    == [a |-> "LDA", x |-> "LDX", y |-> "LDY"]
CompareOp == [a |-> "CMP", x |-> "CPX", y |-> "CPY"]
IncOp     == [x |-> "INX", y |-> "INY"]
DecOp     == [x |-> "DEX", y |-> "DEY"]
Transfer  == [TAX |-> <<"a", "x">>, TAY |-> <<"a", "y">>, TXA |-> <<"x", "a">>, TYA |-> <<"y", "a">>]
FlagOp    == [CLC |-> "C", CLD |-> "D", CLI |-> "I", CLV |-> "V",
              SEC |-> "C", SED |-> "D", SEI |-> "I"]

LoadRegister(d) ==
    \E r \in DOMAIN LoadOp :
        /\ d.op = LoadOp[r]
        /\ SetRegister(r, d.value, SetZN(reg_f, d.value))
        /\ Retire(d, d.extra1)

Logical(d) ==
    /\ d.op \in {"AND", "ORA", "EOR"}
    /\ LET v == CASE d.op = "AND" -> BitAnd(reg["a"], d.value)
                  [] d.op = "ORA" -> BitOr(reg["a"], d.value)
                  [] d.op = "EOR" -> BitXor(reg["a"], d.value)
       IN  SetRegister("a", v, SetZN(reg_f, v))
    /\ Retire(d, d.extra1)

AddSubtract(d) ==
    /\ d.op \in {"ADC", "SBC"}
    /\ LET r == IF d.op = "ADC" THEN Adc(model, reg_f, reg["a"], d.value)
                               ELSE Sbc(model, reg_f, reg["a"], d.value)
       IN  SetRegister("a", r.value, r.flags) /\ Retire(d, d.extra1 + r.cycles)

Compare(d) ==
    \E r \in DOMAIN CompareOp :
        /\ d.op = CompareOp[r]
        /\ SetStatus(CompareFlags(reg_f, reg[r], d.value))
        /\ Retire(d, d.extra1)

\* BIT takes N and V from the operand, except from an immediate one.
BitTest(d) ==
    /\ d.op = "BIT"
    /\ LET Z  == [Z |-> (BitAnd(reg["a"], d.value) = 0)]
           NV == [N |-> 7 \in Bits(d.value), V |-> 6 \in Bits(d.value)]
       IN  SetStatus(Assign(IF d.mode = "imm" THEN reg_f ELSE Assign(reg_f, NV), Z))
    /\ Retire(d, 0)

StepIndex(d) ==
    \E r \in {"x", "y"} :
        LET v == Wrap8(IF d.op = IncOp[r] THEN reg[r] + 1 ELSE reg[r] - 1)
        IN  /\ d.op \in {IncOp[r], DecOp[r]}
            /\ SetRegister(r, v, SetZN(reg_f, v))
            /\ Retire(d, 0)

TransferRegister(d) ==
    /\ d.op \in DOMAIN Transfer
    /\ LET from == Transfer[d.op][1]
           to   == Transfer[d.op][2]
       IN  SetRegister(to, reg[from], SetZN(reg_f, reg[from]))
    /\ Retire(d, 0)

SetFlag(d) ==
    /\ d.op \in DOMAIN FlagOp
    /\ SetStatus(Assign(reg_f, [f \in {FlagOp[d.op]} |-> d.op \in {"SEC", "SED", "SEI"}]))
    /\ Retire(d, 0)

NoOperation(d) == d.op = "NOP" /\ SetStatus(reg_f) /\ Retire(d, 0)

-----------------------------------------------------------------------------
(***************************************************************************)
(* The instructions that write memory, and the stack instructions.         *)
(***************************************************************************)
StoreOp == [STA |-> reg["a"], STX |-> reg["x"], STY |-> reg["y"], STZ |-> 0]
PushOp  == [PHA |-> reg["a"], PHX |-> reg["x"], PHY |-> reg["y"],
            PHP |-> PushedStatus(reg_f, TRUE)]
PullOp  == [a |-> "PLA", x |-> "PLX", y |-> "PLY"]

Store(d) ==
    /\ d.op \in DOMAIN StoreOp
    /\ StoreTo(d.at, StoreOp[d.op], reg_f)
    /\ Retire(d, 0)

Shift(d) ==
    /\ d.op \in {"ASL", "LSR", "ROL", "ROR"}
    /\ LET r == ShiftResult(d.op, reg_f, d.value) IN Modify(d, r.value, r.flags)
    /\ Retire(d, 0)

IncrementDecrement(d) ==
    /\ d.op \in {"INC", "DEC"}
    /\ LET v == Wrap8(IF d.op = "INC" THEN d.value + 1 ELSE d.value - 1)
       IN  Modify(d, v, SetZN(reg_f, v))
    /\ Retire(d, 0)

\* RMB and SMB: one bit of a zero-page cell.
WriteBit(d) ==
    /\ d.op \in {"RMB", "SMB"}
    /\ StoreTo(d.at,
               FromBits(IF d.op = "SMB" THEN Bits(d.value) \cup {d.bit}
                                        ELSE Bits(d.value) \ {d.bit}), reg_f)
    /\ Retire(d, 0)

TestAndWriteBits(d) ==
    /\ d.op \in {"TRB", "TSB"}
    /\ StoreTo(d.at,
               IF d.op = "TSB" THEN BitOr(d.value, reg["a"]) ELSE BitClear(d.value, reg["a"]),
               Assign(reg_f, [Z |-> (BitAnd(reg["a"], d.value) = 0)]))
    /\ Retire(d, 0)

PushRegister(d) ==
    /\ d.op \in DOMAIN PushOp
    /\ Push(<<PushOp[d.op]>>)
    /\ Retire(d, 0)
    /\ UNCHANGED <<reg, reg_f, modeVars>>

PullRegister(d) ==
    /\ \/ \E r \in DOMAIN PullOp :
             /\ d.op = PullOp[r]
             /\ reg' = [reg EXCEPT ![r] = Pulled(1)]
             /\ reg_f' = SetZN(reg_f, Pulled(1))
       \/ d.op = "PLP" /\ reg_f' = PulledFlags(Pulled(1)) /\ reg' = reg
    /\ Pull(1)
    /\ Retire(d, 0)
    /\ UNCHANGED modeVars

TransferStackPointer(d) ==
    \/ /\ d.op = "TSX"
       /\ SetRegister("x", Low(sp), SetZN(reg_f, Low(sp)))
       /\ Retire(d, 0)
    \/ /\ d.op = "TXS"
       /\ sp' = StackPage(reg["x"])
       /\ Quiet
       /\ Retire(d, 0)
       /\ UNCHANGED <<reg, reg_f, modeVars>>

-----------------------------------------------------------------------------
(***************************************************************************)
(* The instructions that change the flow of control.                       *)
(***************************************************************************)
\* The branches by the flag they test, with the value that takes them.
BranchOp == [BCC |-> <<"C", FALSE>>, BCS |-> <<"C", TRUE>>,
             BNE |-> <<"Z", FALSE>>, BEQ |-> <<"Z", TRUE>>,
             BPL |-> <<"N", FALSE>>, BMI |-> <<"N", TRUE>>,
             BVC |-> <<"V", FALSE>>, BVS |-> <<"V", TRUE>>]

Taken(d) ==
    CASE d.op \in DOMAIN BranchOp ->
             (BranchOp[d.op][1] \in reg_f) = BranchOp[d.op][2]
      [] d.op = "BRA" -> TRUE
      [] d.op = "BBR" -> d.bit \notin Bits(d.value)
      [] d.op = "BBS" -> d.bit \in Bits(d.value)

Branch(d) ==
    /\ d.op \in DOMAIN BranchOp \cup {"BRA", "BBR", "BBS"}
    /\ LET target == Wrap16(d.next + d.offset)
       IN  /\ pc' = IF Taken(d) THEN target ELSE d.next
           /\ Spend(d.cycles + CASE ~Taken(d) -> 0
                                 [] Taken(d) /\ SamePage(d.next, target) -> 1
                                 [] OTHER -> 2)
    /\ SetStatus(reg_f)

Jump(d) ==
    /\ \/ d.op = "JMP" /\ Quiet /\ sp' = sp
       \/ d.op = "JSR" /\ LET ret == Wrap16(d.next - 1) IN Push(<<High(ret), Low(ret)>>)
    /\ pc' = d.at
    /\ Spend(d.cycles)
    /\ UNCHANGED <<reg, reg_f, modeVars>>

\* A mutant of Return: RTI adds one to the pc, as RTS must.
ReturnBehind(d) ==
    /\ d.op \in {"RTS", "RTI"}
    /\ LET n == IF d.op = "RTI" THEN 3 ELSE 2
       IN  pc' = Wrap16(Pair(Pulled(n - 1), Pulled(n)) + 1) /\ Pull(n)
    /\ reg_f' = IF d.op = "RTI" THEN PulledFlags(Pulled(1)) ELSE reg_f
    /\ Spend(d.cycles)
    /\ UNCHANGED <<reg, modeVars>>

Return(d) ==
    /\ \/ /\ d.op = "RTS"
          /\ pc' = Wrap16(Pair(Pulled(1), Pulled(2)) + 1)
          /\ Pull(2)
          /\ reg_f' = reg_f
       \/ /\ d.op = "RTI"
          /\ reg_f' = PulledFlags(Pulled(1))
          /\ pc' = Pair(Pulled(2), Pulled(3))
          /\ Pull(3)
    /\ Spend(d.cycles)
    /\ UNCHANGED <<reg, modeVars>>

\* Mutants of Interrupt: the return address is pushed low byte first; it is
\* pushed without the status; the handler is entered with I as it was.
InterruptLowFirst(vector, return_pc, cycle_count, brk) ==
    /\ Push(<<Low(return_pc), High(return_pc), PushedStatus(reg_f, brk)>>)
    /\ reg_f' = reg_f \cup {"I"}
    /\ pc' = Read16(vector)
    /\ Spend(cycle_count)
    /\ waiting' = FALSE
    /\ UNCHANGED <<reg, stopped>>
InterruptLikeCall(vector, return_pc, cycle_count, brk) ==
    /\ Push(<<High(return_pc), Low(return_pc)>>)
    /\ reg_f' = reg_f \cup {"I"}
    /\ pc' = Read16(vector)
    /\ Spend(cycle_count)
    /\ waiting' = FALSE
    /\ UNCHANGED <<reg, stopped>>
InterruptUnmasked(vector, return_pc, cycle_count, brk) ==
    /\ Push(<<High(return_pc), Low(return_pc), PushedStatus(reg_f, brk)>>)
    /\ pc' = Read16(vector)
    /\ Spend(cycle_count)
    /\ waiting' = FALSE
    /\ UNCHANGED <<reg, reg_f, stopped>>

\* interrupt(): the caller says which pc is pushed.  It does not touch stopped.
Interrupt(vector, return_pc, cycle_count, brk) ==
    /\ Push(<<High(return_pc), Low(return_pc), PushedStatus(reg_f, brk)>>)
    /\ reg_f' = reg_f \cup {"I"}
    /\ pc' = Read16(vector)
    /\ Spend(cycle_count)
    /\ waiting' = FALSE
    /\ UNCHANGED <<reg, stopped>>

\* The cycle count of 0 replaces the 7 of the table.
Break(d) == d.op = "BRK" /\ Interrupt(IrqVector, Wrap16(d.next + 1), 0, TRUE)

Halt(d) ==
    /\ \/ d.op \in {"STP", "KIL"} /\ stopped' = TRUE /\ waiting' = waiting
       \/ d.op = "WAI" /\ waiting' = TRUE /\ stopped' = stopped
    /\ Quiet
    /\ Retire(d, 0)
    /\ UNCHANGED <<reg, reg_f, sp>>

-----------------------------------------------------------------------------
(***************************************************************************)
(* The tick.                                                               *)
(***************************************************************************)
\* A mutant of ServeReset: reg_f = U, without I.
ServeResetUnmasked ==
    /\ reset_pending
    /\ consume_reset
    /\ pc' = Read16(ResetVector)
    /\ sp' = 509
    /\ reg' = [r \in {"a", "x", "y"} |-> 0]
    /\ reg_f' = {"U"}
    /\ addr_abs' = 0 /\ addr_rel' = 0 /\ cycles' = 0
    /\ stopped' = FALSE /\ waiting' = FALSE
    /\ Quiet
    /\ UNCHANGED <<opcode, model>>

ServeReset ==
    /\ reset_pending
    /\ consume_reset
    /\ pc' = Read16(ResetVector)
    /\ sp' = 509   \* $01FD
    /\ reg' = [r \in {"a", "x", "y"} |-> 0]
    /\ reg_f' = {"U", "I"}
    /\ addr_abs' = 0
    /\ addr_rel' = 0
    /\ cycles' = 0
    /\ stopped' = FALSE
    /\ waiting' = FALSE
    /\ Quiet
    /\ UNCHANGED <<opcode, model>>

\* A mutant of CountDown: the decrement is lost.
CountDownStuck == ~reset_pending /\ cycles > 0 /\ UNCHANGED vars

CountDown ==
    /\ ~reset_pending
    /\ cycles > 0
    /\ cycles' = cycles - 1
    /\ UNCHANGED <<lineVars, dataVars, reg, reg_f, sp, pc, opcode, addr_abs, addr_rel,
                   modeVars, model>>

\* The current instruction is over; the tick goes on to the interrupt lines.
Boundary == ~reset_pending /\ cycles = 0

\* A mutant of ServeNmi: the tick looks at stopped and waiting before the lines.
ServeNmiUnlessHalted ==
    /\ Boundary
    /\ nmi_pending
    /\ ~stopped
    /\ ~waiting
    /\ consume_nmi
    /\ Interrupt(NmiVector, pc, 8, FALSE)
    /\ UNCHANGED <<opcode, addr_abs, addr_rel, model>>

ServeNmi ==
    /\ Boundary
    /\ nmi_pending
    /\ consume_nmi
    /\ Interrupt(NmiVector, pc, 8, FALSE)
    /\ UNCHANGED <<opcode, addr_abs, addr_rel, model>>

\* A mutant of IrqEnabled: the mask is ignored.
IrqAsserted == irq_line

IrqEnabled == irq_line /\ "I" \notin reg_f

ServeIrq ==
    /\ Boundary
    /\ ~nmi_pending
    /\ IrqEnabled
    /\ Interrupt(IrqVector, pc, 7, FALSE)
    /\ UNCHANGED <<lineVars, opcode, addr_abs, addr_rel, model>>

NoInterrupt == Boundary /\ ~nmi_pending /\ ~IrqEnabled

Idle == NoInterrupt /\ (stopped \/ waiting) /\ UNCHANGED vars

Operate(d) ==
    \/ LoadRegister(d) \/ Logical(d) \/ AddSubtract(d) \/ Compare(d) \/ BitTest(d)
    \/ StepIndex(d) \/ TransferRegister(d) \/ SetFlag(d) \/ NoOperation(d)
    \/ Store(d) \/ Shift(d) \/ IncrementDecrement(d) \/ WriteBit(d) \/ TestAndWriteBits(d)
    \/ PushRegister(d) \/ PullRegister(d) \/ TransferStackPointer(d)
    \/ Branch(d) \/ Jump(d) \/ Return(d) \/ Break(d) \/ Halt(d)

Execute ==
    /\ NoInterrupt
    /\ ~stopped
    /\ ~waiting
    /\ opcode' = Read(pc)
    /\ \E d \in {Decoded} : addr_abs' = d.at /\ addr_rel' = d.offset /\ Operate(d)
    /\ UNCHANGED <<lineVars, model>>

Tick == ServeReset \/ CountDown \/ ServeNmi \/ ServeIrq \/ Idle \/ Execute

\* The members' initialisers, for either model.
CpuInit ==
    /\ reg = [r \in {"a", "x", "y"} |-> 0]
    /\ reg_f = {}
    /\ sp = 0
    /\ pc = 0
    /\ opcode = 0
    /\ addr_abs = 0
    /\ addr_rel = 0
    /\ cycles = 0
    /\ stopped = FALSE
    /\ waiting = FALSE
    /\ model \in Models
=============================================================================
