------------------------ MODULE InterruptFramesProofs ------------------------
(***************************************************************************)
(* Two results for every program and host.  The account of the NMI edges   *)
(* needs nothing from the instructions: an NMI is entered in exactly the   *)
(* ticks that the history counts, because each of the other five kinds of  *)
(* tick excludes Boundary /\ nmi_pending or cannot see it.  The frames     *)
(* need the instructions BRK, RTI, CLI and PLP, and handlers that behave:  *)
(* then every interrupted program finds its pc, sp and flags again.        *)
(***************************************************************************)
EXTENDS InterruptFrames, MachineProofs, FiniteSetTheorems, SequenceTheorems

CountsOK == nmi_pending \in BOOLEAN /\ edges \in Nat /\ entered \in Nat

\* The part of the equation that a Boolean line contributes.
Pending == IF nmi_pending THEN 1 ELSE 0

LEMMA Equation == NmiEdgesServedOnce <=> edges = entered + Pending
  BY Zenon DEF NmiEdgesServedOnce, Pending

LEMMA InitCounts == FramesInit => CountsOK /\ NmiEdgesServedOnce
<1> SUFFICES ASSUME FramesInit PROVE CountsOK /\ NmiEdgesServedOnce
  OBVIOUS
<1>1. nmi_pending = FALSE /\ edges = 0 /\ entered = 0
  BY DEF FramesInit, Init
<1>2. Pending = 0
  BY <1>1, Zenon DEF Pending
<1>3. CountsOK
  BY <1>1 DEF CountsOK
<1>4. edges = entered + Pending
  BY <1>1, <1>2
<1> QED
  BY <1>3, <1>4, Equation

\* Which tick consumes a pending NMI, and that no other one touches the line.
LEMMA TickConsumes ==
    ASSUME Tick
    PROVE  \/ NmiEntry /\ nmi_pending' = FALSE
           \/ ~NmiEntry /\ nmi_pending' = nmi_pending
<1>1. CASE ServeReset
  BY <1>1 DEF ServeReset, consume_reset, NmiEntry, Boundary
<1>2. CASE CountDown
  BY <1>2 DEF CountDown, lineVars, NmiEntry, Boundary
<1>3. CASE ServeNmi
  BY <1>3 DEF ServeNmi, consume_nmi, NmiEntry
<1>4. CASE ServeIrq
  BY <1>4 DEF ServeIrq, lineVars, NmiEntry
<1>5. CASE Idle
  BY <1>5 DEF Idle, NoInterrupt, vars, lineVars, NmiEntry
<1>6. CASE Execute
  BY <1>6 DEF Execute, NoInterrupt, lineVars, NmiEntry
<1> QED
  BY <1>1, <1>2, <1>3, <1>4, <1>5, <1>6 DEF Tick

LEMMA NextCounts ==
    CountsOK /\ NmiEdgesServedOnce /\ [FramesNext]_allVars => (CountsOK /\ NmiEdgesServedOnce)'
<1> SUFFICES ASSUME CountsOK, NmiEdgesServedOnce, [FramesNext]_allVars
             PROVE  CountsOK' /\ NmiEdgesServedOnce'
  OBVIOUS
<1>1. edges \in Nat /\ entered \in Nat /\ Pending \in Nat /\ edges = entered + Pending
  BY Equation DEF CountsOK, Pending
<1>2. CASE FramesClock
  <2>1. Tick /\ edges' = edges /\ entered' = IF NmiEntry THEN entered + 1 ELSE entered
    BY <1>2 DEF FramesClock, Clock, Remember
  <2>2. CASE NmiEntry /\ nmi_pending' = FALSE
    <3>1. Pending = 1 /\ Pending' = 0
      BY <2>2, Zenon DEF NmiEntry, Pending
    <3>2. edges' = entered' + Pending' /\ edges' \in Nat /\ entered' \in Nat
      BY <1>1, <2>1, <2>2, <3>1
    <3> QED
      BY <2>2, <3>2, Equation DEF CountsOK, NmiEdgesServedOnce, Pending
  <2>3. CASE ~NmiEntry /\ nmi_pending' = nmi_pending
    <3>1. entered' = entered /\ Pending' = Pending
      BY <2>1, <2>3 DEF Pending
    <3> QED
      BY <1>1, <2>1, <2>3, <3>1 DEF CountsOK, NmiEdgesServedOnce, Pending
  <2> QED
    BY <2>1, <2>2, <2>3, TickConsumes
<1>3. CASE FramesHost
  <2>1. /\ nmi_pending' = nmi_pending \/ nmi_pending' = TRUE
        /\ entered' = entered
        /\ edges' = IF nmi_pending' /\ ~nmi_pending THEN edges + 1 ELSE edges
    BY <1>3 DEF FramesHost, Host, Reset, Nmi, Irq, ClearIrq, Load, lineVars
  <2>2. CASE nmi_pending' = nmi_pending
    <3>1. edges' = edges /\ Pending' = Pending
      BY <2>1, <2>2 DEF Pending
    <3> QED
      BY <1>1, <2>1, <2>2, <3>1 DEF CountsOK, NmiEdgesServedOnce, Pending
  <2>3. CASE nmi_pending' = TRUE /\ nmi_pending = FALSE
    <3>1. edges' = edges + 1 /\ Pending = 0 /\ Pending' = 1
      BY <2>1, <2>3, Zenon DEF Pending
    <3>2. edges' = entered' + Pending' /\ edges' \in Nat /\ entered' \in Nat
      BY <1>1, <2>1, <3>1
    <3> QED
      BY <2>3, <3>2 DEF CountsOK, NmiEdgesServedOnce, Pending
  <2> QED
    BY <2>1, <2>2, <2>3 DEF CountsOK
<1>4. CASE UNCHANGED allVars
  BY <1>4 DEF allVars, machineVars, vars, lineVars, CountsOK, NmiEdgesServedOnce
<1> QED
  BY <1>2, <1>3, <1>4 DEF FramesNext

\* No NMI is lost and none is entered twice, whatever program runs and however
\* the host moves the lines.
THEOREM NmiEdgesAccounted == FramesSafetySpec => []NmiEdgesServedOnce
  BY InitCounts, NextCounts, PTL DEF FramesSafetySpec

-----------------------------------------------------------------------------
(***************************************************************************)
(* What interrupt() pushes and what RTI makes of it.                       *)
(***************************************************************************)
FrameType == [kind : {"nmi", "irq", "brk"}, pc : Word, status : SUBSET Settable, sp : PageOne,
              reg : [{"a", "x", "y"} -> Byte]]

LEMMA StackPageOfSum ==
    ASSUME NEW p \in Int, NEW i \in Int
    PROVE  StackPage(StackPage(p) + i) = StackPage(p + i)
  BY DEF StackPage, Wrap8

LEMMA StackPageFixes == \A p \in PageOne : p \in Int /\ StackPage(p) = p
  BY DEF StackPage, Wrap8, PageOne

\* The three cells of a frame are different cells of page one.
LEMMA FrameCells ==
    ASSUME NEW p \in PageOne
    PROVE  /\ StackPage(p - 1) \in PageOne /\ StackPage(p - 2) \in PageOne
           /\ p # StackPage(p - 1) /\ p # StackPage(p - 2) /\ StackPage(p - 1) # StackPage(p - 2)
<1>1. StackPage(p - 1) = IF p = 256 THEN 511 ELSE p - 1
  BY DEF StackPage, Wrap8, PageOne
<1>2. StackPage(p - 2) = IF p < 258 THEN p + 254 ELSE p - 2
  BY DEF StackPage, Wrap8, PageOne
<1> QED BY <1>1, <1>2 DEF PageOne

\* A push of three bytes puts each into its cell.
LEMMA PushOfThree ==
    ASSUME sp \in PageOne, output_addr \notin PageOne, NEW b1, NEW b2, NEW b3,
           Push(<<b1, b2, b3>>)
    PROVE  /\ memory'[sp] = b1 /\ memory'[StackPage(sp - 1)] = b2
           /\ memory'[StackPage(sp - 2)] = b3
           /\ {sp, StackPage(sp - 1), StackPage(sp - 2)} \subseteq DOMAIN memory'
<1> DEFINE bytes == <<b1, b2, b3>>
           cells == PushCells(bytes)
           ram   == [a \in DOMAIN cells \ {output_addr} |-> cells[a]]
<1>1. /\ StackPage(sp - 1) \in PageOne /\ StackPage(sp - 2) \in PageOne
      /\ sp # StackPage(sp - 1) /\ sp # StackPage(sp - 2)
      /\ StackPage(sp - 1) # StackPage(sp - 2)
  BY FrameCells
<1>2. PushSlot(1) = sp /\ PushSlot(2) = StackPage(sp - 1) /\ PushSlot(3) = StackPage(sp - 2)
  BY DEF PushSlot
<1>3. /\ 1 .. Len(bytes) = {1, 2, 3}
      /\ bytes[1] = b1 /\ bytes[2] = b2 /\ bytes[3] = b3
  OBVIOUS
<1> HIDE DEF bytes
<1>4. DOMAIN cells = {PushSlot(i) : i \in {1, 2, 3}}
  BY <1>3 DEF PushCells
<1>5. \A i \in {1, 2, 3} : cells[PushSlot(i)] = bytes[i]
  <2> TAKE i \in {1, 2, 3}
  <2>1. cells[PushSlot(i)] = bytes[CHOOSE j \in {1, 2, 3} : PushSlot(i) = PushSlot(j)]
    BY <1>3 DEF PushCells
  <2>2. \A j \in {1, 2, 3} : PushSlot(i) = PushSlot(j) => i = j
    BY <1>1, <1>2
  <2>3. (CHOOSE j \in {1, 2, 3} : PushSlot(i) = PushSlot(j)) = i
    BY <2>2
  <2> QED BY <2>1, <2>3
<1>6. memory' = Stored(memory, ram)
  BY DEF Push, Write, bytes
<1> HIDE DEF cells
<1>7. \A i \in {1, 2, 3} : PushSlot(i) \in DOMAIN ram /\ ram[PushSlot(i)] = bytes[i]
  BY <1>1, <1>2, <1>4, <1>5
<1> HIDE DEF ram
<1>8. \A i \in {1, 2, 3} : PushSlot(i) \in DOMAIN memory' /\ memory'[PushSlot(i)] = bytes[i]
  BY <1>6, <1>7 DEF Stored
<1> QED BY <1>2, <1>3, <1>8

\* The status in a frame, as its byte and back.
LEMMA PushedFlags ==
    ASSUME NEW F, F \subseteq Settable, NEW brk \in BOOLEAN
    PROVE  FlagsOf(PushedStatus(F, brk)) = (F \cup {"U"}) \cup (IF brk THEN {"B"} ELSE {})
<1> DEFINE G == (F \ {"B"}) \cup {"U"} \cup (IF brk THEN {"B"} ELSE {})
<1>1. G \subseteq Flag
  BY DEF Settable, Flag
<1>2. G = (F \cup {"U"}) \cup (IF brk THEN {"B"} ELSE {})
  BY DEF Settable
<1>3. FlagsOf(PushedStatus(F, brk)) = G
  BY <1>1, StatusRoundTrip DEF PushedStatus
<1> QED BY <1>2, <1>3

LEMMA InterruptPushesFrame ==
    ASSUME StateOK, sp \in PageOne, output_addr \notin PageOne,
           NEW fr \in FrameType, fr.sp = sp, fr.status = reg_f, NEW vector, NEW n,
           Interrupt(vector, fr.pc, n, fr.kind = "brk")
    PROVE  Held(fr)'
<1> DEFINE brk == fr.kind = "brk"
           p   == PushedStatus(reg_f, brk)
<1>1. Push(<<High(fr.pc), Low(fr.pc), p>>)
  BY DEF Interrupt
<1> HIDE DEF p
<1>2. /\ memory'[sp] = High(fr.pc) /\ memory'[StackPage(sp - 1)] = Low(fr.pc)
      /\ memory'[StackPage(sp - 2)] = p
      /\ {sp, StackPage(sp - 1), StackPage(sp - 2)} \subseteq DOMAIN memory'
  BY <1>1, PushOfThree
<1>3. FlagsOf(p) = (fr.status \cup {"U"}) \cup (IF fr.kind = "brk" THEN {"B"} ELSE {})
  <2>1. brk \in BOOLEAN
    OBVIOUS
  <2> HIDE DEF brk
  <2>2. FlagsOf(p) = (reg_f \cup {"U"}) \cup (IF brk THEN {"B"} ELSE {})
    BY <2>1, PushedFlags DEF StateOK, RegistersOK, p
  <2> QED BY <2>2 DEF brk
<1> QED BY <1>2, <1>3 DEF Held, Read

\* An RTI with a held frame on top of the stack goes back to where it came from.
LEMMA ReturnRestores ==
    ASSUME StateOK, NEW fr \in FrameType, Held(fr), sp = StackPage(fr.sp - 3),
           NEW d, d.op = "RTI", Return(d)
    PROVE  pc' = fr.pc /\ reg_f' = fr.status \cup {"U"} /\ sp' = fr.sp
<1>1. fr.sp \in PageOne /\ fr.pc \in Word /\ fr.status \subseteq Settable
  BY DEF FrameType
<1>2. fr.sp \in Int /\ StackPage(fr.sp) = fr.sp
  BY <1>1, StackPageFixes
<1>3. /\ StackPage(sp + 1) = StackPage(fr.sp - 2)
      /\ StackPage(sp + 2) = StackPage(fr.sp - 1)
      /\ StackPage(sp + 3) = fr.sp
  <2> DEFINE q == fr.sp - 3
  <2>1. q \in Int /\ q + 1 = fr.sp - 2 /\ q + 2 = fr.sp - 1 /\ q + 3 = fr.sp
    BY <1>2
  <2>2. sp = StackPage(q)
    OBVIOUS
  <2> HIDE DEF q
  <2>3. \A i \in Int : StackPage(sp + i) = StackPage(q + i)
    BY <2>1, <2>2, StackPageOfSum
  <2>4. 1 \in Int /\ 2 \in Int /\ 3 \in Int
    OBVIOUS
  <2> QED BY <1>2, <2>1, <2>3, <2>4
<1>4. /\ reg_f' = PulledFlags(Pulled(1)) /\ pc' = Pair(Pulled(2), Pulled(3))
      /\ sp' = StackPage(sp + 3)
  BY DEF Return, Pull
<1>5. pc' = fr.pc
  BY <1>1, <1>3, <1>4, HalvesAreBytes DEF Pulled, Held
<1>6. reg_f' = fr.status \cup {"U"}
  <2>1. FlagsOf(Pulled(1)) = (fr.status \cup {"U"}) \cup (IF fr.kind = "brk" THEN {"B"} ELSE {})
    BY <1>3 DEF Pulled, Held
  <2> QED BY <1>1, <1>4, <2>1 DEF PulledFlags, Settable
<1> QED BY <1>3, <1>4, <1>5, <1>6

-----------------------------------------------------------------------------
(***************************************************************************)
(* The ticks as the frames see them.                                       *)
(***************************************************************************)
\* The operate functions of BRK and RTI are those two.
LEMMA OperationsOf ==
    ASSUME NEW d, Operate(d)
    PROVE  (d.op = "BRK" => Break(d)) /\ (d.op = "RTI" => Return(d))
<1>1. LoadRegister(d) \/ Logical(d) \/ AddSubtract(d) \/ Compare(d) \/ BitTest(d)
          => d.op \notin {"BRK", "RTI"}
  BY DEF LoadRegister, Logical, AddSubtract, Compare, BitTest, LoadOp, CompareOp
<1>2. StepIndex(d) \/ TransferRegister(d) \/ SetFlag(d) \/ NoOperation(d)
          => d.op \notin {"BRK", "RTI"}
  BY DEF StepIndex, TransferRegister, SetFlag, NoOperation, IncOp, DecOp, Transfer, FlagOp
<1>3. Store(d) \/ Shift(d) \/ IncrementDecrement(d) \/ WriteBit(d) \/ TestAndWriteBits(d)
          => d.op \notin {"BRK", "RTI"}
  BY DEF Store, Shift, IncrementDecrement, WriteBit, TestAndWriteBits, StoreOp
<1>4. PushRegister(d) \/ PullRegister(d) \/ TransferStackPointer(d)
          => d.op \notin {"BRK", "RTI"}
  BY DEF PushRegister, PullRegister, TransferStackPointer, PushOp, PullOp
<1>5. Branch(d) \/ Jump(d) \/ Halt(d) => d.op \notin {"BRK", "RTI"}
  BY DEF Branch, Jump, Halt, BranchOp
<1>6. Return(d) => d.op # "BRK"
  BY DEF Return
<1>7. Break(d) => d.op # "RTI"
  BY DEF Break
<1> QED BY <1>1, <1>2, <1>3, <1>4, <1>5, <1>6, <1>7 DEF Operate

\* What executes is the operation of Decoded.
LEMMA ExecutesDecoded ==
    ASSUME Execute
    PROVE  /\ Operate(Decoded) /\ NoInterrupt /\ ~stopped /\ ~waiting
           /\ \A ops : Executes(ops) <=> Decoded.op \in ops
<1>1. Operate(Decoded) /\ NoInterrupt /\ ~stopped /\ ~waiting
  BY Zenon DEF Execute
<1> QED BY <1>1 DEF Executes, Decoded

\* BRK skips the byte behind it: the pc that it pushes is Resume.
LEMMA BreakResumes ==
    ASSUME StateOK, Decoded.op = "BRK"
    PROVE  Wrap16(Decoded.next + 1) = Wrap16(pc + 3)
<1> DEFINE inst == table[model][Read(pc)]
<1>1. EntryOK(inst)
  BY ReadIsByte, TablesOK DEF StateOK
<1>2. inst.op = "BRK" /\ Decoded.next = Wrap16(pc + Length(inst.mode))
  BY DEF Decoded
<1> HIDE DEF inst
<1>3. inst.mode = "imm"
  BY <1>1, <1>2 DEF EntryOK
<1>4. Decoded.next = Wrap16(pc + 2)
  BY <1>2, <1>3 DEF Length
<1>5. pc \in Word
  BY DEF StateOK, AddressesOK
<1> QED BY <1>4, <1>5 DEF Wrap16, Word

\* Which frame a tick adds or drops.
LEMMA Remembers ==
    ASSUME Remember
    PROVE  /\ reset_pending => frames' = <<>>
           /\ NmiEntry => frames' = Append(frames, [kind |-> "nmi", pc |-> pc, status |-> reg_f,
                                                    sp |-> sp, reg |-> reg])
           /\ IrqEntry => frames' = Append(frames, [kind |-> "irq", pc |-> pc, status |-> reg_f,
                                                    sp |-> sp, reg |-> reg])
           /\ BrkEntry => frames' = Append(frames, [kind |-> "brk", pc |-> Wrap16(pc + 3),
                                                    status |-> reg_f, sp |-> sp, reg |-> reg])
           /\ Executes({"RTI"}) => frames' = SubSeq(frames, 1, Len(frames) - 1)
           /\ ~reset_pending /\ ~NmiEntry /\ ~IrqEntry /\ ~BrkEntry /\ ~Executes({"RTI"})
                  => frames' = frames
<1>1. frames' = CASE reset_pending -> <<>>
                  [] NmiEntry -> Append(frames, Frame("nmi"))
                  [] IrqEntry -> Append(frames, Frame("irq"))
                  [] BrkEntry -> Append(frames, Frame("brk"))
                  [] Executes({"RTI"}) -> SubSeq(frames, 1, Len(frames) - 1)
                  [] OTHER -> frames
  BY DEF Remember
<1>2. NmiEntry => ~reset_pending /\ ~IrqEntry /\ ~BrkEntry /\ ~Executes({"RTI"})
  BY DEF NmiEntry, IrqEntry, BrkEntry, Executes, NoInterrupt, Boundary
<1>3. IrqEntry => ~reset_pending /\ ~BrkEntry /\ ~Executes({"RTI"})
  BY DEF IrqEntry, BrkEntry, Executes, NoInterrupt, Boundary
<1>4. BrkEntry => ~reset_pending /\ ~Executes({"RTI"})
  BY DEF BrkEntry, Executes, NoInterrupt, Boundary
<1>5. Executes({"RTI"}) => ~reset_pending
  BY DEF Executes, NoInterrupt, Boundary
<1>6. NmiEntry => Frame("nmi") = [kind |-> "nmi", pc |-> pc, status |-> reg_f, sp |-> sp, reg |-> reg]
  BY <1>2 DEF Frame, Resume
<1>7. IrqEntry => Frame("irq") = [kind |-> "irq", pc |-> pc, status |-> reg_f, sp |-> sp, reg |-> reg]
  BY <1>3 DEF Frame, Resume
<1>8. BrkEntry => Frame("brk") = [kind |-> "brk", pc |-> Wrap16(pc + 3), status |-> reg_f, sp |-> sp, reg |-> reg]
  BY DEF Frame, Resume
<1>9. CASE reset_pending
  BY <1>1, <1>2, <1>3, <1>4, <1>5, <1>9, Zenon
<1>10. CASE NmiEntry
  BY <1>1, <1>2, <1>6, <1>10, Zenon
<1>11. CASE IrqEntry
  BY <1>1, <1>2, <1>3, <1>7, <1>11, Zenon
<1>12. CASE BrkEntry
  BY <1>1, <1>2, <1>3, <1>4, <1>8, <1>12, Zenon
<1>13. CASE Executes({"RTI"})
  BY <1>1, <1>2, <1>3, <1>4, <1>5, <1>13, Zenon
<1>14. CASE ~reset_pending /\ ~NmiEntry /\ ~IrqEntry /\ ~BrkEntry /\ ~Executes({"RTI"})
  BY <1>1, <1>14, Zenon
<1> QED BY <1>9, <1>10, <1>11, <1>12, <1>13, <1>14

-----------------------------------------------------------------------------
(***************************************************************************)
(* Which cells a tick can change: one that its instruction stores to by    *)
(* address, or those between the old and the new stack pointer.            *)
(***************************************************************************)
LEMMA DepthIsByte == \A p \in Int : Depth(p) \in Int /\ Depth(p) \in 0 .. 255
  BY StackAssumption DEF Depth

\* Moving down the stack, or up, without coming round to Top.
LEMMA DepthMoves ==
    ASSUME NEW p \in Int, NEW n \in Int, 0 <= Depth(p) + n, Depth(p) + n <= 255
    PROVE  Depth(StackPage(p - n)) = Depth(p) + n
<1> DEFINE q == p - n
<1>1. q \in Int /\ Top \in Int
  BY StackAssumption
<1>2. PICK k \in Int : q % 256 = q - 256 * k
  BY <1>1
<1>3. PICK j \in Int : (Top - p) % 256 = Top - p - 256 * j
  BY <1>1
<1>4. Depth(StackPage(q)) = (Top - (256 + (q - 256 * k))) % 256
  BY <1>2 DEF Depth, StackPage, Wrap8
<1> HIDE DEF q
<1>5. Top - (256 + (q - 256 * k)) = Depth(p) + n + 256 * (j + k - 1)
  BY <1>1, <1>3 DEF Depth, q
<1>6. Depth(p) \in Int
  BY DepthIsByte
<1>7. \A m \in Int, i \in Int : 0 <= m /\ m <= 255 => (m + 256 * i) % 256 = m
  OBVIOUS
<1> QED BY <1>4, <1>5, <1>6, <1>7 DEF q

LEMMA WriteChanges ==
    ASSUME NEW cells, Write(cells), NEW a, a \notin DOMAIN cells
    PROVE  Read(a)' = Read(a)
<1> DEFINE ram == [c \in DOMAIN cells \ {output_addr} |-> cells[c]]
<1>1. memory' = Stored(memory, ram) /\ a \notin DOMAIN ram
  BY DEF Write
<1> HIDE DEF ram
<1> QED BY <1>1 DEF Stored, Read

LEMMA QuietChanges ==
    ASSUME Quiet
    PROVE  output' = output /\ \A a : Read(a)' = Read(a)
  BY DEF Quiet, dataVars, Read

\* A push of up to three bytes that does not come round to Top.
LEMMA PushChanges ==
    ASSUME sp \in PageOne, output_addr \notin PageOne, Depth(sp) <= Reach,
           NEW bytes, Len(bytes) \in 1 .. 3, Push(bytes)
    PROVE  /\ Depth(sp') = Depth(sp) + Len(bytes)
           /\ output' = output
           /\ \A a : Read(a)' # Read(a) =>
                  a \in PageOne /\ Depth(sp) <= Depth(a) /\ Depth(a) < Depth(sp')
<1> DEFINE n == Len(bytes)
<1>1. sp \in Int /\ Depth(sp) \in 0 .. 255 /\ Depth(sp) <= 252
  <2>1. sp \in Int /\ Reach \in Int /\ Reach <= 252
    BY StackAssumption DEF PageOne
  <2>2. Depth(sp) \in 0 .. 255
    BY <2>1, DepthIsByte
  <2> QED BY <2>1, <2>2
<1> HIDE DEF n
<1>2. ASSUME NEW i \in 0 .. 3 PROVE Depth(StackPage(sp - i)) = Depth(sp) + i
  <2>1. i \in Int /\ 0 <= Depth(sp) + i /\ Depth(sp) + i <= 255
    BY <1>1
  <2> QED BY <1>1, <2>1, DepthMoves
<1>3. sp' = StackPage(sp - n) /\ Write(PushCells(bytes)) /\ n \in 1 .. 3
  BY DEF Push, n
<1>4. DOMAIN PushCells(bytes) = {PushSlot(i) : i \in 1 .. n}
  BY DEF PushCells, n
<1>5. ASSUME NEW a \in DOMAIN PushCells(bytes)
      PROVE  a \in PageOne /\ Depth(sp) <= Depth(a) /\ Depth(a) < Depth(sp')
  <2>1. PICK i \in 1 .. n : a = PushSlot(i)
    BY <1>4
  <2>2. i - 1 \in 0 .. 3 /\ i - 1 < n /\ i \in 1 .. 3
    BY <1>3
  <2>3. a = StackPage(sp - (i - 1))
    <3>1. StackPage(sp) = sp
      BY StackPageFixes
    <3> QED BY <1>1, <2>1, <2>2, <3>1 DEF PushSlot
  <2>4. a \in PageOne
    BY <1>1, <2>2, <2>3, StackPageIsPageOne
  <2>5. Depth(a) = Depth(sp) + (i - 1) /\ Depth(sp') = Depth(sp) + n
    BY <1>2, <1>3, <2>2, <2>3
  <2> QED BY <1>1, <1>3, <2>2, <2>4, <2>5
<1>6. output' = output
  <2>1. output_addr \notin DOMAIN PushCells(bytes)
    BY <1>5
  <2> QED BY <1>3, <2>1 DEF Write
<1>7. ASSUME NEW a, Read(a)' # Read(a)
      PROVE  a \in PageOne /\ Depth(sp) <= Depth(a) /\ Depth(a) < Depth(sp')
  <2>1. a \in DOMAIN PushCells(bytes)
    BY <1>3, <1>7, WriteChanges
  <2> QED BY <1>5, <2>1
<1>8. Depth(sp') = Depth(sp) + n
  BY <1>2, <1>3
<1> QED BY <1>6, <1>7, <1>8 DEF n

\* The three ways of an operation with memory.
MemoryEffect(d) ==
    \/ Quiet
    \/ d.op \in StoreOps /\ ~OnAccumulator(d) /\ sp' = sp /\ \E cells : DOMAIN cells = {d.at} /\ Write(cells)
    \/ \E bytes : Len(bytes) \in 1 .. 3 /\ Push(bytes)

LEMMA OperateMemory ==
    ASSUME NEW d, Operate(d)
    PROVE  MemoryEffect(d)
<1>1. LoadRegister(d) \/ Logical(d) \/ AddSubtract(d) \/ Compare(d) \/ BitTest(d) => Quiet
  BY DEF LoadRegister, Logical, AddSubtract, Compare, BitTest, SetRegister, SetStatus
<1>2. StepIndex(d) \/ TransferRegister(d) \/ SetFlag(d) \/ NoOperation(d) => Quiet
  BY DEF StepIndex, TransferRegister, SetFlag, NoOperation, SetRegister, SetStatus
<1>3. ASSUME NEW v, NEW F, d.op \in StoreOps, ~OnAccumulator(d), StoreTo(d.at, v, F)
      PROVE  MemoryEffect(d)
  <2>1. PICK cells : cells = [c \in {d.at} |-> v]
    OBVIOUS
  <2>2. DOMAIN cells = {d.at} /\ Write(cells) /\ sp' = sp
    BY <1>3, <2>1 DEF StoreTo
  <2> QED BY <1>3, <2>2 DEF MemoryEffect
<1>4. ASSUME NEW v, NEW F, d.op \in StoreOps, Modify(d, v, F)
      PROVE  MemoryEffect(d)
  BY <1>3, <1>4 DEF Modify, SetRegister, MemoryEffect
<1>5. CASE Store(d)
  <2>1. d.op \in StoreOps /\ ~OnAccumulator(d)
    BY <1>5 DEF Store, StoreOps, StoreOp, OnAccumulator
  <2>2. StoreTo(d.at, StoreOp[d.op], reg_f)
    BY <1>5 DEF Store
  <2> QED BY <1>3, <2>1, <2>2
<1>6. CASE Shift(d)
  <2>1. d.op \in StoreOps /\ \E v, F : Modify(d, v, F)
    BY <1>6 DEF Shift, StoreOps
  <2> QED BY <1>4, <2>1
<1>7. CASE IncrementDecrement(d)
  <2>1. d.op \in StoreOps /\ \E v, F : Modify(d, v, F)
    BY <1>7 DEF IncrementDecrement, StoreOps
  <2> QED BY <1>4, <2>1
<1>8. CASE WriteBit(d) \/ TestAndWriteBits(d)
  <2>1. d.op \in StoreOps /\ ~OnAccumulator(d)
    BY <1>8 DEF WriteBit, TestAndWriteBits, StoreOps, OnAccumulator
  <2>2. \E v, F : StoreTo(d.at, v, F)
    BY <1>8 DEF WriteBit, TestAndWriteBits
  <2> QED BY <1>3, <2>1, <2>2
<1>9. ASSUME NEW b1, NEW b2, NEW b3, Push(<<b1>>) \/ Push(<<b1, b2>>) \/ Push(<<b1, b2, b3>>)
      PROVE  MemoryEffect(d)
  <2>1. Len(<<b1>>) = 1 /\ Len(<<b1, b2>>) = 2 /\ Len(<<b1, b2, b3>>) = 3
    OBVIOUS
  <2> QED BY <1>9, <2>1 DEF MemoryEffect
<1>10. PushRegister(d) => \E b : Push(<<b>>)
  BY DEF PushRegister
<1>11. Jump(d) => Quiet \/ \E b1, b2 : Push(<<b1, b2>>)
  BY DEF Jump
<1>12. Break(d) => \E b1, b2, b3 : Push(<<b1, b2, b3>>)
  BY DEF Break, Interrupt
<1>13. PullRegister(d) \/ TransferStackPointer(d) \/ Branch(d) \/ Return(d) \/ Halt(d) => Quiet
  BY DEF PullRegister, TransferStackPointer, Branch, Return, Halt, Pull, SetRegister, SetStatus
<1>14. Quiet => MemoryEffect(d)
  BY DEF MemoryEffect
<1> QED BY <1>1, <1>2, <1>5, <1>6, <1>7, <1>8, <1>9, <1>10, <1>11, <1>12, <1>13, <1>14 DEF Operate

\* A cell that a tick changes is stored to by address or is pushed over.
PushedOver(a) == a \in PageOne /\ Depth(sp) <= Depth(a) /\ Depth(a) < Depth(sp')

LEMMA TickChanges ==
    ASSUME sp \in PageOne, output_addr \notin PageOne, ~reset_pending => Depth(sp) <= Reach, Tick
    PROVE  /\ \A a : Read(a)' # Read(a) => Stores(a) \/ PushedOver(a)
           /\ output' # output => Stores(output_addr)
<1> DEFINE Claim == /\ \A a : Read(a)' # Read(a) => Stores(a) \/ PushedOver(a)
                    /\ output' # output => Stores(output_addr)
<1> SUFFICES Claim
  OBVIOUS
<1>1. Quiet => Claim
  BY QuietChanges
<1>2. ASSUME NEW bytes, Len(bytes) \in 1 .. 3, Push(bytes), ~reset_pending
      PROVE  Claim
  BY <1>2, PushChanges DEF PushedOver
<1>3. CASE ServeReset \/ CountDown \/ Idle
  BY <1>1, <1>3 DEF ServeReset, CountDown, Idle, vars, Quiet
<1>4. CASE ServeNmi \/ ServeIrq
  <2>1. ~reset_pending /\ \E b1, b2, b3 : Push(<<b1, b2, b3>>)
    BY <1>4 DEF ServeNmi, ServeIrq, Interrupt, Boundary
  <2>2. \A b1, b2, b3 : Len(<<b1, b2, b3>>) \in 1 .. 3
    OBVIOUS
  <2> QED BY <1>2, <2>1, <2>2
<1>5. CASE Execute
  <2> DEFINE d == Decoded
  <2>1. Operate(d) /\ NoInterrupt /\ ~stopped /\ ~waiting /\ (Executes(StoreOps) <=> d.op \in StoreOps)
    BY <1>5, ExecutesDecoded
  <2>2. ~reset_pending
    BY <2>1 DEF NoInterrupt, Boundary
  <2>3. MemoryEffect(d)
    BY <2>1, OperateMemory
  <2>4. ASSUME d.op \in StoreOps, ~OnAccumulator(d), NEW cells, DOMAIN cells = {d.at},
               Write(cells)
        PROVE  Claim
    <3>2. ASSUME NEW a, a # d.at PROVE Read(a)' = Read(a)
      BY <2>4, <3>2, WriteChanges
    <3>3. output' # output => output_addr = d.at
      BY <2>4 DEF Write
    <3>4. Stores(d.at)
      BY <2>1, <2>4 DEF Stores
    <3> HIDE DEF d
    <3>5. \A a : a = d.at => Stores(a)
      BY <3>4
    <3> QED BY <3>2, <3>3, <3>5
  <2> HIDE DEF d, Claim
  <2>5. CASE d.op \in StoreOps /\ ~OnAccumulator(d) /\ \E cells : DOMAIN cells = {d.at} /\ Write(cells)
    BY <2>4, <2>5
  <2>6. CASE \E bytes : Len(bytes) \in 1 .. 3 /\ Push(bytes)
    BY <1>2, <2>2, <2>6
  <2> QED BY <1>1, <2>3, <2>5, <2>6, Zenon DEF MemoryEffect
<1> QED BY <1>3, <1>4, <1>5 DEF Tick

-----------------------------------------------------------------------------
(***************************************************************************)
(* The invariant.  Beside what the properties say it holds that sp is in   *)
(* page one once a frame can be pushed, and that every frame but the       *)
(* oldest one interrupted a handler: its status has I set, and it is not   *)
(* an IRQ's.                                                               *)
(***************************************************************************)
MaskOK == /\ frames # <<>> => "I" \in reg_f
          /\ \A i \in 1 .. Len(frames) :
                 i > 1 => frames[i].kind # "irq" /\ "I" \in frames[i].status

\* A frame is entered below the three bytes of the one under it.
Stacked == \A i, j \in 1 .. Len(frames) :
               i < j => Depth(frames[i].sp) + 3 <= Depth(frames[j].sp)

FramesOK == /\ StateOK /\ CallsOK
            /\ frames \in Seq(FrameType)
            /\ WithinStack /\ Stacked
            /\ sp \in PageOne \/ (reset_pending /\ frames = <<>>)
            /\ FramesIntact
            /\ MaskOK

Entered(fr) == /\ frames' = Append(frames, fr)
               /\ Held(fr)'
               /\ "I" \in reg_f'
               /\ fr.status = reg_f /\ fr.sp = sp
               /\ fr.kind = "irq" => "I" \notin reg_f

\* A tick that enters a handler adds a frame that its stack holds.
LEMMA EntryHolds ==
    ASSUME StateOK, sp \in PageOne, output_addr \notin PageOne, Tick, Remember,
           NmiEntry \/ IrqEntry \/ BrkEntry
    PROVE  \E fr \in FrameType : Entered(fr)
<1>1. /\ reg_f \in SUBSET Settable /\ pc \in Word /\ Wrap16(pc + 3) \in Word
      /\ reg \in [{"a", "x", "y"} -> Byte]
  BY WrapsAreWords DEF StateOK, RegistersOK, AddressesOK, Word
<1>2. ASSUME NEW fr \in FrameType, NEW vector, NEW n, fr.sp = sp, fr.status = reg_f,
             Interrupt(vector, fr.pc, n, fr.kind = "brk"), frames' = Append(frames, fr),
             fr.kind = "irq" => "I" \notin reg_f
      PROVE  Entered(fr)
  <2>1. Held(fr)'
    BY <1>2, InterruptPushesFrame
  <2>2. "I" \in reg_f'
    BY <1>2 DEF Interrupt
  <2> QED BY <1>2, <2>1, <2>2 DEF Entered
<1>3. CASE NmiEntry
  <2> DEFINE fr == [kind |-> "nmi", pc |-> pc, status |-> reg_f, sp |-> sp, reg |-> reg]
  <2>1. fr \in FrameType /\ fr.sp = sp /\ fr.status = reg_f /\ fr.pc = pc /\ fr.kind # "irq"
    BY <1>1 DEF FrameType
  <2>2. frames' = Append(frames, fr)
    BY <1>3, Remembers
  <2>3. ServeNmi
    BY <1>3 DEF NmiEntry, Boundary, Tick, ServeReset, CountDown, ServeIrq, Idle, Execute,
                NoInterrupt
  <2>4. Interrupt(NmiVector, pc, 8, FALSE) /\ (fr.kind = "brk") = FALSE
    BY <2>3 DEF ServeNmi
  <2>5. Interrupt(NmiVector, fr.pc, 8, fr.kind = "brk")
    BY <2>1, <2>4, Zenon
  <2> HIDE DEF fr
  <2> QED BY <1>2, <2>1, <2>2, <2>5
<1>4. CASE IrqEntry
  <2> DEFINE fr == [kind |-> "irq", pc |-> pc, status |-> reg_f, sp |-> sp, reg |-> reg]
  <2>1. fr \in FrameType /\ fr.sp = sp /\ fr.status = reg_f /\ fr.pc = pc
    BY <1>1 DEF FrameType
  <2>2. frames' = Append(frames, fr) /\ "I" \notin reg_f
    BY <1>4, Remembers DEF IrqEntry, IrqEnabled
  <2>3. ServeIrq
    <3>1. ~reset_pending /\ ~nmi_pending /\ IrqEnabled
      BY <1>4, Zenon DEF IrqEntry, Boundary
    <3>2. ~(cycles > 0)
      BY <1>4 DEF IrqEntry, Boundary
    <3> QED BY <3>1, <3>2, Zenon DEF Tick, ServeReset, CountDown, ServeNmi, Idle, Execute,
                                     NoInterrupt
  <2>4. Interrupt(IrqVector, pc, 7, FALSE) /\ (fr.kind = "brk") = FALSE
    BY <2>3 DEF ServeIrq
  <2>5. Interrupt(IrqVector, fr.pc, 7, fr.kind = "brk")
    BY <2>1, <2>4, Zenon
  <2> HIDE DEF fr
  <2> QED BY <1>2, <2>1, <2>2, <2>5
<1>5. CASE BrkEntry
  <2> DEFINE fr == [kind |-> "brk", pc |-> Wrap16(pc + 3), status |-> reg_f, sp |-> sp, reg |-> reg]
  <2>1. /\ fr \in FrameType /\ fr.sp = sp /\ fr.status = reg_f /\ fr.pc = Wrap16(pc + 3)
        /\ fr.kind # "irq"
    BY <1>1 DEF FrameType
  <2>2. frames' = Append(frames, fr)
    BY <1>5, Remembers
  <2>3. Execute
    BY <1>5, TickExecutes DEF BrkEntry
  <2>4. Decoded.op = "BRK" /\ Break(Decoded)
    BY <1>5, <2>3, ExecutesDecoded, OperationsOf DEF BrkEntry
  <2>5. Interrupt(IrqVector, Wrap16(pc + 3), 0, TRUE) /\ (fr.kind = "brk") = TRUE
    BY <2>4, BreakResumes DEF Break
  <2>6. Interrupt(IrqVector, fr.pc, 0, fr.kind = "brk")
    BY <2>1, <2>5, Zenon
  <2> HIDE DEF fr
  <2> QED BY <1>2, <2>1, <2>2, <2>6
<1> QED BY <1>3, <1>4, <1>5

\* Any other tick leaves the frames alone or drops them all, and keeps the mask.
LEMMA OtherTickKeeps ==
    ASSUME StateOK, CallsOK, Clock, Remember, Behaves, MaskOK,
           ~NmiEntry, ~IrqEntry, ~BrkEntry, ~Executes({"RTI"})
    PROVE  \/ frames' = <<>> /\ sp' \in PageOne
           \/ ~reset_pending /\ frames' = frames /\ MaskOK'
<1>1. CASE reset_pending
  <2>1. frames' = <<>>
    BY <1>1, Remembers
  <2>2. ServeReset
    BY <1>1, Zenon DEF Clock, Tick, ServeReset, CountDown, ServeNmi, ServeIrq, Idle, Execute,
                       NoInterrupt, Boundary
  <2>3. sp' = 509
    BY <2>2 DEF ServeReset
  <2> QED BY <2>1, <2>3 DEF PageOne
<1>2. CASE ~reset_pending
  <2>1. frames' = frames
    BY <1>2, Remembers
  <2>2. "I" \in reg_f /\ "I" \notin reg_f' => Executes({"CLI", "PLP"})
    <3>1. "I" \in reg_f /\ "I" \notin reg_f' => Executes({"CLI", "PLP", "RTI"})
      BY NextSwitchesModes DEF Next
    <3>2. Executes({"CLI", "PLP", "RTI"}) => Executes({"CLI", "PLP"}) \/ Executes({"RTI"})
      BY DEF Executes
    <3> QED BY <3>1, <3>2
  <2>3. frames # <<>> => "I" \in reg_f'
    BY <2>2 DEF Behaves, Unmasks, MaskOK
  <2> QED BY <1>2, <2>1, <2>3 DEF MaskOK
<1> QED BY <1>1, <1>2

LEMMA FrameStack ==
    \A fr \in FrameType : /\ fr.sp \in Int /\ fr.sp \in PageOne
                          /\ Depth(fr.sp) \in Int /\ Depth(fr.sp) \in 0 .. 255
<1> TAKE fr \in FrameType
<1>1. PICK p : p = fr.sp
  OBVIOUS
<1>2. p \in PageOne /\ p \in Int
  <2>1. p \in PageOne
    BY <1>1 DEF FrameType
  <2> QED BY <2>1 DEF PageOne
<1> QED BY <1>1, <1>2, DepthIsByte

\* Every frame is above the stack pointer.
LEMMA FramesAreAbove ==
    ASSUME FramesOK, NEW i \in 1 .. Len(frames)
    PROVE  frames[i] \in FrameType /\ Depth(frames[i].sp) + 3 <= Depth(sp)
<1> DEFINE n == Len(frames)
<1>1. n \in Nat /\ frames # <<>> /\ \A j \in 1 .. n : frames[j] \in FrameType
  BY DEF FramesOK
<1>2. \A j \in 1 .. n : Depth(frames[j].sp) \in Int
  BY <1>1, FrameStack
<1>3. Depth(frames[n].sp) + 3 <= Depth(sp)
  BY <1>1 DEF FramesOK, WithinStack, Youngest
<1>4. i < n => Depth(frames[i].sp) + 3 <= Depth(frames[n].sp)
  BY <1>1 DEF FramesOK, Stacked
<1>5. Depth(sp) \in Int
  <2>1. sp \in Int
    BY DEF FramesOK, StateOK, AddressesOK, Word
  <2> QED BY <2>1, DepthIsByte
<1> HIDE DEF n
<1>6. i \in 1 .. n
  BY DEF n
<1>7. n \in 1 .. n
  BY <1>1, <1>6
<1> QED BY <1>1, <1>2, <1>3, <1>4, <1>5, <1>6, <1>7

LEMMA CellsOfFrame ==
    ASSUME NEW fr \in FrameType, Depth(fr.sp) <= 252, NEW a \in CellsOf(fr)
    PROVE  a \in PageOne /\ Depth(a) <= Depth(fr.sp) + 2
<1>1. fr.sp \in Int /\ Depth(fr.sp) \in 0 .. 255 /\ StackPage(fr.sp) = fr.sp
  <2>1. fr.sp \in Int /\ StackPage(fr.sp) = fr.sp
    BY StackPageFixes DEF FrameType
  <2> QED BY <2>1, DepthIsByte
<1>2. ASSUME NEW k \in 0 .. 2
      PROVE  Depth(StackPage(fr.sp - k)) = Depth(fr.sp) + k /\ StackPage(fr.sp - k) \in PageOne
  <2>1. /\ k \in Int /\ fr.sp - k \in Int
        /\ 0 <= Depth(fr.sp) + k /\ Depth(fr.sp) + k <= 255
    BY <1>1
  <2>2. Depth(StackPage(fr.sp - k)) = Depth(fr.sp) + k
    BY <1>1, <2>1, DepthMoves
  <2> QED BY <2>1, <2>2, StackPageIsPageOne
<1>3. PICK k \in 0 .. 2 : a = StackPage(fr.sp - k)
  <2>1. fr.sp - 0 = fr.sp
    BY <1>1
  <2> QED BY <1>1, <2>1 DEF CellsOf
<1> QED BY <1>1, <1>2, <1>3

\* No step of a machine whose handlers behave changes a cell of a frame.
LEMMA FrameCellsStay ==
    ASSUME FramesOK, output_addr \notin PageOne, Behaves, FramesNext,
           NEW i \in 1 .. Len(frames), NEW a \in CellsOf(frames[i])
    PROVE  Read(a)' = Read(a)
<1>1. CASE FramesHost
  <2>1. calls_left' # calls_left
    BY <1>1, HostUsesCalls DEF FramesHost, FramesOK
  <2> QED BY <2>1 DEF Behaves
<1>2. CASE FramesClock
  <2> DEFINE fr == frames[i]
  <2>1. fr \in FrameType /\ Depth(fr.sp) + 3 <= Depth(sp) /\ a \in CellsOf(fr)
    BY FramesAreAbove
  <2>2. frames # <<>>
    BY DEF FramesOK
  <2>3. sp \in PageOne /\ (~reset_pending => Depth(sp) <= Reach)
    BY <2>2 DEF FramesOK, WithinStack
  <2>4. ~Stores(a)
    BY DEF Behaves
  <2> HIDE DEF fr
  <2>5. Depth(sp) \in 0 .. 255 /\ Depth(fr.sp) \in 0 .. 255
    <3>1. sp \in Int
      BY <2>3 DEF PageOne
    <3> QED BY <2>1, <3>1, DepthIsByte, FrameStack
  <2>6. a \in PageOne /\ Depth(a) <= Depth(fr.sp) + 2
    <3>1. Depth(fr.sp) <= 252
      <4> DEFINE x == Depth(fr.sp)  y == Depth(sp)
      <4>1. x \in 0 .. 255 /\ y \in 0 .. 255 /\ x + 3 <= y
        BY <2>1, <2>5
      <4> HIDE DEF x, y
      <4>2. x <= 252
        BY <4>1
      <4> QED BY <4>2 DEF x
    <3> QED BY <2>1, <3>1, CellsOfFrame
  <2>7. Depth(a) \in 0 .. 255
    <3>1. a \in Int
      BY <2>6 DEF PageOne
    <3> QED BY <3>1, DepthIsByte
  <2>8. ~PushedOver(a)
    <3> DEFINE x == Depth(fr.sp)  y == Depth(sp)  z == Depth(a)
    <3>1. x \in 0 .. 255 /\ y \in 0 .. 255 /\ z \in 0 .. 255 /\ x + 3 <= y /\ z <= x + 2
      BY <2>1, <2>5, <2>6, <2>7
    <3> HIDE DEF x, y, z
    <3>2. ~(y <= z)
      BY <3>1
    <3> QED BY <3>2 DEF PushedOver, y, z
  <2>9. Tick
    BY <1>2 DEF FramesClock, Clock
  <2> QED BY <2>3, <2>4, <2>8, <2>9, TickChanges
<1> QED BY <1>1, <1>2 DEF FramesNext

LEMMA StaysHeld ==
    ASSUME NEW fr, \A a \in CellsOf(fr) : Read(a)' = Read(a), Held(fr)
    PROVE  Held(fr)'
<1>1. /\ Read(fr.sp)' = Read(fr.sp)
      /\ Read(StackPage(fr.sp - 1))' = Read(StackPage(fr.sp - 1))
      /\ Read(StackPage(fr.sp - 2))' = Read(StackPage(fr.sp - 2))
  BY DEF CellsOf
<1> QED BY <1>1 DEF Held

LEMMA FramesStayHeld ==
    ASSUME FramesOK, output_addr \notin PageOne, Behaves, FramesNext,
           NEW i \in 1 .. Len(frames), frames'[i] = frames[i]
    PROVE  Held(frames[i])'
<1>1. PICK fr : fr = frames[i]
  OBVIOUS
<1>2. Held(fr) /\ \A a \in CellsOf(fr) : Read(a)' = Read(a)
  BY <1>1, FrameCellsStay DEF FramesOK, FramesIntact
<1>3. Held(fr)'
  BY <1>2, StaysHeld
<1> QED BY <1>1, <1>3 DEF Held

\* A frame that is added on top of those that stay.
LEMMA EnteringKeepsFrames ==
    ASSUME FramesOK, output_addr \notin PageOne, Behaves, FramesNext,
           NEW fr \in FrameType, Entered(fr)
    PROVE  frames' \in Seq(FrameType) /\ FramesIntact' /\ MaskOK' /\ Stacked'
<1> DEFINE n == Len(frames)
<1>1. /\ n \in Nat /\ frames' \in Seq(FrameType) /\ Len(frames') = n + 1
      /\ frames'[n + 1] = fr
      /\ \A i \in 1 .. n : frames'[i] = frames[i]
  BY DEF FramesOK, Entered
<1> HIDE DEF n
<1>2. FramesIntact'
  <2> SUFFICES ASSUME NEW i \in 1 .. n + 1 PROVE Held(frames[i])'
    BY <1>1 DEF FramesIntact
  <2>1. CASE i \in 1 .. n
    <3>1. frames'[i] = frames[i]
      BY <1>1, <2>1
    <3> QED BY <2>1, <3>1, FramesStayHeld DEF n
  <2>2. CASE i = n + 1
    BY <1>1, <2>2 DEF Entered, Held
  <2> QED BY <1>1, <2>1, <2>2
<1>3. MaskOK'
  <2>1. "I" \in reg_f'
    BY DEF Entered
  <2>2. ASSUME NEW i \in 1 .. n + 1, i > 1
        PROVE  frames'[i].kind # "irq" /\ "I" \in frames'[i].status
    <3>1. CASE i \in 1 .. n
      <4>1. frames[i].kind # "irq" /\ "I" \in frames[i].status
        BY <2>2, <3>1 DEF FramesOK, MaskOK, n
      <4> QED BY <1>1, <3>1, <4>1
    <3>2. CASE i = n + 1
      <4>1. n >= 1
        BY <1>1, <2>2, <3>2
      <4>2. frames # <<>>
        BY <4>1 DEF n
      <4>3. "I" \in reg_f
        BY <4>2 DEF FramesOK, MaskOK
      <4> QED BY <1>1, <3>2, <4>3 DEF Entered
    <3> QED BY <1>1, <3>1, <3>2
  <2> QED BY <1>1, <2>1, <2>2 DEF MaskOK
<1>4. Stacked'
  <2> SUFFICES ASSUME NEW i \in 1 .. n + 1, NEW j \in 1 .. n + 1, i < j
               PROVE  Depth(frames'[i].sp) + 3 <= Depth(frames'[j].sp)
    BY <1>1 DEF Stacked, Depth
  <2>1. i \in 1 .. n /\ frames'[i] = frames[i]
    BY <1>1
  <2>2. CASE j \in 1 .. n
    BY <1>1, <2>1, <2>2 DEF FramesOK, Stacked, n
  <2>3. CASE j = n + 1
    BY <1>1, <2>1, <2>3, FramesAreAbove DEF Entered, n
  <2> QED BY <1>1, <2>2, <2>3
<1> QED BY <1>1, <1>2, <1>3, <1>4

\* The frames that a return leaves, and those that any other step leaves.
LEMMA StayingKeepsFrames ==
    ASSUME FramesOK, output_addr \notin PageOne, Behaves, FramesNext, frames' = frames
    PROVE  frames' \in Seq(FrameType) /\ FramesIntact' /\ Stacked'
<1>1. frames' \in Seq(FrameType) /\ Len(frames') = Len(frames) /\ Len(frames) \in Nat
  BY DEF FramesOK
<1>2. ASSUME NEW i \in 1 .. Len(frames) PROVE Held(frames[i])'
  BY FramesStayHeld
<1>3. Stacked'
  BY <1>1 DEF FramesOK, Stacked, Depth
<1> QED BY <1>1, <1>2, <1>3 DEF FramesIntact

LEMMA ReturningKeepsFrames ==
    ASSUME FramesOK, output_addr \notin PageOne, Behaves, FramesNext, Executes({"RTI"}), Execute,
           frames' = SubSeq(frames, 1, Len(frames) - 1)
    PROVE  /\ frames' \in Seq(FrameType) /\ FramesIntact' /\ MaskOK' /\ Stacked'
           /\ pc' = Youngest.pc /\ reg_f' = Youngest.status \cup {"U"} /\ sp' = Youngest.sp
           /\ sp' \in PageOne
<1> DEFINE n == Len(frames)
<1>1. n \in Nat /\ n >= 1 /\ frames \in Seq(FrameType) /\ sp = StackPage(Youngest.sp - 3)
  <2>1. frames # <<>> /\ sp = StackPage(Youngest.sp - 3)
    BY DEF Behaves
  <2>2. frames \in Seq(FrameType)
    BY DEF FramesOK
  <2> QED BY <2>1, <2>2
<1>2. Youngest \in FrameType /\ Held(Youngest)
  <2>1. n \in 1 .. n
    BY <1>1
  <2>2. frames[n] \in FrameType /\ Held(frames[n])
    BY <1>1, <2>1 DEF FramesOK, FramesIntact
  <2> QED BY <2>2 DEF Youngest
<1>3. Decoded.op = "RTI" /\ Return(Decoded)
  BY ExecutesDecoded, OperationsOf
<1>4. pc' = Youngest.pc /\ reg_f' = Youngest.status \cup {"U"} /\ sp' = Youngest.sp
  <2> DEFINE y == Youngest
  <2>1. y \in FrameType /\ Held(y) /\ sp = StackPage(y.sp - 3)
    BY <1>1, <1>2
  <2> HIDE DEF y
  <2>2. PICK fr : fr = y
    OBVIOUS
  <2>3. pc' = fr.pc /\ reg_f' = fr.status \cup {"U"} /\ sp' = fr.sp
    BY <1>3, <2>1, <2>2, ReturnRestores DEF FramesOK
  <2> QED BY <2>2, <2>3 DEF y
<1>5. sp' \in PageOne
  BY <1>2, <1>4 DEF FrameType
<1>6. /\ frames' \in Seq(FrameType) /\ Len(frames') = n - 1
      /\ \A i \in 1 .. n - 1 : frames'[i] = frames[i]
  <2>1. frames' = SubSeq(frames, 1, n - 1) /\ 1 \in Int /\ n - 1 \in Int
    BY <1>1
  <2>2. \A i \in 1 .. n - 1 : frames[i] \in FrameType
    BY <1>1
  <2> HIDE DEF n
  <2>3. /\ SubSeq(frames, 1, n - 1) \in Seq(FrameType)
        /\ Len(SubSeq(frames, 1, n - 1)) = IF 1 <= n - 1 THEN n - 1 - 1 + 1 ELSE 0
        /\ \A i \in 1 .. n - 1 - 1 + 1 :
               SubSeq(frames, 1, n - 1)[i] = frames[1 + i - 1]
    BY <2>1, <2>2, SubSeqProperties
  <2>4. Len(SubSeq(frames, 1, n - 1)) = n - 1 /\ n - 1 - 1 + 1 = n - 1
    BY <1>1, <2>3
  <2>5. \A i \in 1 .. n - 1 : 1 + i - 1 = i
    OBVIOUS
  <2> QED BY <2>1, <2>3, <2>4, <2>5
<1>7. FramesIntact'
  <2> SUFFICES ASSUME NEW i \in 1 .. n - 1 PROVE Held(frames[i])'
    BY <1>6 DEF FramesIntact
  <2>1. i \in 1 .. Len(frames) /\ frames'[i] = frames[i]
    BY <1>1, <1>6
  <2> QED BY <2>1, FramesStayHeld
<1>8. MaskOK'
  <2>1. ASSUME NEW i \in 1 .. n - 1, i > 1
        PROVE  frames'[i].kind # "irq" /\ "I" \in frames'[i].status
    <3>1. i \in 1 .. Len(frames) /\ frames'[i] = frames[i]
      BY <1>1, <1>6
    <3> QED BY <2>1, <3>1 DEF FramesOK, MaskOK
  <2>2. ASSUME frames' # <<>> PROVE "I" \in reg_f'
    <3>1. n > 1
      BY <1>1, <1>6, <2>2
    <3>2. n \in 1 .. Len(frames)
      BY <1>1
    <3>3. "I" \in frames[n].status
      BY <3>1, <3>2 DEF FramesOK, MaskOK
    <3> QED BY <1>4, <3>3 DEF Youngest
  <2> QED BY <1>6, <2>1, <2>2 DEF MaskOK
<1>9. Stacked'
  <2> SUFFICES ASSUME NEW i \in 1 .. n - 1, NEW j \in 1 .. n - 1, i < j
               PROVE  Depth(frames'[i].sp) + 3 <= Depth(frames'[j].sp)
    BY <1>1, <1>6 DEF Stacked, Depth
  <2>1. /\ i \in 1 .. Len(frames) /\ frames'[i] = frames[i]
        /\ j \in 1 .. Len(frames) /\ frames'[j] = frames[j]
    BY <1>1, <1>6
  <2> QED BY <2>1 DEF FramesOK, Stacked
<1> QED BY <1>4, <1>5, <1>6, <1>7, <1>8, <1>9

-----------------------------------------------------------------------------
(***************************************************************************)
(* The invariant is inductive, under the discipline of the handlers.       *)
(***************************************************************************)
LEMMA FramesStart ==
    ASSUME \A s \in Setups : s.reset, FramesInit
    PROVE  FramesOK
<1>1. Init /\ frames = <<>>
  BY DEF FramesInit
<1>2. reset_pending
  BY <1>1 DEF Init
<1>3. frames \in Seq(FrameType) /\ 1 .. Len(frames) = {}
  BY <1>1
<1>4. FramesIntact /\ MaskOK /\ Stacked /\ WithinStack
  BY <1>1, <1>2, <1>3 DEF FramesIntact, MaskOK, Stacked, WithinStack
<1> QED BY <1>1, <1>2, <1>3, <1>4, InitOK, CallsInit DEF FramesOK

\* Dropping every frame leaves nothing to hold.
LEMMA NoFrames ==
    ASSUME frames' = <<>>
    PROVE  frames' \in Seq(FrameType) /\ FramesIntact' /\ MaskOK' /\ Stacked'
<1>1. frames' \in Seq(FrameType) /\ 1 .. Len(frames') = {}
  OBVIOUS
<1> QED BY <1>1 DEF FramesIntact, MaskOK, Stacked

FramesKept == /\ frames' \in Seq(FrameType) /\ FramesIntact' /\ MaskOK' /\ Stacked'
              /\ sp' \in PageOne

LEMMA FramesTick ==
    ASSUME FramesOK, output_addr \notin PageOne, Behaves, FramesClock
    PROVE  FramesKept
<1>1. Clock /\ Tick /\ Remember
  BY DEF FramesClock, Clock
<1>2. StateOK /\ CallsOK /\ MaskOK /\ FramesNext
  BY DEF FramesOK, FramesNext
<1>3. ~reset_pending => sp \in PageOne /\ sp' \in PageOne
  BY <1>1, <1>2, TickKeepsStack DEF FramesOK, StackKept
<1>4. CASE NmiEntry \/ IrqEntry \/ BrkEntry
  <2>1. ~reset_pending
    BY <1>4 DEF NmiEntry, IrqEntry, BrkEntry, Boundary, Executes, NoInterrupt
  <2>2. PICK fr \in FrameType : Entered(fr)
    BY <1>1, <1>2, <1>3, <1>4, <2>1, EntryHolds
  <2>3. frames' \in Seq(FrameType) /\ FramesIntact' /\ MaskOK' /\ Stacked'
    BY <1>2, <2>2, EnteringKeepsFrames
  <2> QED BY <1>3, <2>1, <2>3 DEF FramesKept
<1>5. CASE Executes({"RTI"})
  <2>1. Execute
    BY <1>1, <1>5, TickExecutes
  <2>2. frames' = SubSeq(frames, 1, Len(frames) - 1)
    BY <1>1, <1>5, Remembers
  <2> QED BY <1>2, <1>5, <2>1, <2>2, ReturningKeepsFrames DEF FramesKept
<1>6. CASE ~NmiEntry /\ ~IrqEntry /\ ~BrkEntry /\ ~Executes({"RTI"})
  <2>1. \/ frames' = <<>> /\ sp' \in PageOne
        \/ ~reset_pending /\ frames' = frames /\ MaskOK'
    BY <1>1, <1>2, <1>6, OtherTickKeeps
  <2>2. CASE frames' = <<>> /\ sp' \in PageOne
    BY <2>2, NoFrames DEF FramesKept
  <2>3. CASE ~reset_pending /\ frames' = frames /\ MaskOK'
    BY <1>2, <1>3, <2>3, StayingKeepsFrames DEF FramesKept
  <2> QED BY <2>1, <2>2, <2>3
<1> QED BY <1>4, <1>5, <1>6

LEMMA FramesHostStep ==
    ASSUME FramesOK, output_addr \notin PageOne, Behaves, FramesHost
    PROVE  /\ frames' \in Seq(FrameType) /\ FramesIntact' /\ MaskOK' /\ Stacked'
           /\ sp' \in PageOne \/ (reset_pending' /\ frames' = <<>>)
<1>1. frames' = frames /\ reg_f' = reg_f /\ sp' = sp
  BY DEF FramesHost, Host, HostCalls, cpuVars
<1>2. reset_pending' = reset_pending \/ reset_pending' = TRUE
  BY DEF FramesHost, Host, Reset, Nmi, Irq, ClearIrq, Load, lineVars
<1>3. MaskOK'
  BY <1>1 DEF FramesOK, MaskOK
<1>4. frames' \in Seq(FrameType) /\ FramesIntact' /\ Stacked'
  BY <1>1, StayingKeepsFrames DEF FramesNext
<1> QED BY <1>1, <1>2, <1>3, <1>4 DEF FramesOK

LEMMA FramesNextOK ==
    ASSUME output_addr \notin PageOne
    PROVE  FramesOK /\ [FramesNext]_allVars /\ [Behaves]_allVars => FramesOK'
<1> SUFFICES ASSUME FramesOK, [FramesNext]_allVars, [Behaves]_allVars PROVE FramesOK'
  OBVIOUS
<1>1. CASE UNCHANGED allVars
  <2>1. [Next]_machineVars
    BY <1>1 DEF allVars
  <2>2. StateOK' /\ CallsOK'
    BY <2>1, NextOK, CallsNext DEF FramesOK
  <2>3. /\ frames' = frames /\ sp' = sp /\ reg_f' = reg_f /\ memory' = memory
        /\ reset_pending' = reset_pending
    BY <1>1 DEF allVars, machineVars, vars, cpuVars, lineVars, dataVars
  <2>4. FramesIntact' /\ MaskOK'
    BY <2>3 DEF FramesOK, FramesIntact, Held, Read, MaskOK
  <2>5. Stacked' /\ WithinStack'
    BY <2>3 DEF FramesOK, Stacked, WithinStack, Depth, Youngest
  <2> QED BY <2>2, <2>3, <2>4, <2>5 DEF FramesOK
<1>2. CASE FramesNext /\ Behaves
  <2>1. [Next]_machineVars
    BY <1>2 DEF FramesNext, FramesClock, FramesHost, Next
  <2>2. StateOK' /\ CallsOK' /\ WithinStack'
    BY <1>2, <2>1, NextOK, CallsNext DEF FramesOK, Behaves
  <2>3. CASE FramesClock
    BY <1>2, <2>2, <2>3, FramesTick DEF FramesOK, FramesKept
  <2>4. CASE FramesHost
    BY <1>2, <2>2, <2>4, FramesHostStep DEF FramesOK
  <2> QED BY <1>2, <2>3, <2>4 DEF FramesNext
<1> QED BY <1>1, <1>2

\* The hypotheses of the three theorems that follow: the host asserts reset
\* before it clocks the CPU, and the address that prints is not on the stack.
LEMMA FramesAlwaysOK ==
    ASSUME \A s \in Setups : s.reset, output_addr \notin PageOne
    PROVE  FramesSafetySpec /\ HandlersBehave => []FramesOK
  BY FramesStart, FramesNextOK, PTL DEF FramesSafetySpec, HandlersBehave

\* Whatever nests and whatever the host does between two ticks, the return
\* address and the status that interrupt() pushed stay under every handler.
THEOREM FramesStayIntact ==
    ASSUME \A s \in Setups : s.reset, output_addr \notin PageOne
    PROVE  FramesSafetySpec /\ HandlersBehave => []FramesIntact
<1>1. FramesOK => FramesIntact
  BY DEF FramesOK
<1> QED BY <1>1, FramesAlwaysOK, PTL

\* A held IRQ line does not enter its handler again: every handler runs with I
\* set, so the only IRQ frame there can be is the oldest one.
THEOREM HandlersStayMasked ==
    ASSUME \A s \in Setups : s.reset, output_addr \notin PageOne
    PROVE  FramesSafetySpec /\ HandlersBehave => []HandlersAreMasked
<1>1. FramesOK => HandlersAreMasked
  <2> SUFFICES ASSUME FramesOK PROVE HandlersAreMasked
    OBVIOUS
  <2> DEFINE irqs == {i \in 1 .. Len(frames) : frames[i].kind = "irq"}
  <2>1. irqs \subseteq {1}
    <3>1. Len(frames) \in Nat
      BY DEF FramesOK
    <3>2. \A i \in 1 .. Len(frames) : frames[i].kind = "irq" => ~(i > 1)
      BY DEF FramesOK, MaskOK
    <3> QED BY <3>1, <3>2
  <2> HIDE DEF irqs
  <2>2. Cardinality({1}) = 1 /\ IsFiniteSet({1})
    BY FS_Singleton
  <2>3. Cardinality(irqs) <= 1
    <3>1. irqs = {} \/ irqs = {1}
      BY <2>1
    <3>2. Cardinality({}) = 0
      BY FS_EmptySet
    <3> QED BY <2>2, <3>1, <3>2
  <2> QED BY <2>3 DEF FramesOK, MaskOK, HandlersAreMasked, irqs
<1> QED BY <1>1, FramesAlwaysOK, PTL

\* The interrupted program goes on as if nothing had happened: an RTI restores
\* the pc, the stack pointer and every flag that its handler was entered with.
THEOREM ReturnsRestore ==
    ASSUME \A s \in Setups : s.reset, output_addr \notin PageOne
    PROVE  FramesSafetySpec /\ HandlersBehave => RtiRestores
<1> DEFINE Restored == /\ pc' = Youngest.pc
                       /\ reg_f' = Youngest.status \cup {"U"}
                       /\ sp' = Youngest.sp
<1>1. FramesOK /\ [FramesNext]_allVars /\ [Behaves]_allVars
          => [Executes({"RTI"}) /\ UNCHANGED calls_left => Restored]_allVars
  <2> SUFFICES ASSUME FramesOK, FramesNext, Behaves, Executes({"RTI"}), UNCHANGED calls_left
               PROVE  Restored
    OBVIOUS
  <2>1. CASE FramesClock
    <3>1. Tick /\ Remember
      BY <2>1 DEF FramesClock, Clock
    <3>2. Execute /\ frames' = SubSeq(frames, 1, Len(frames) - 1)
      BY <3>1, TickExecutes, Remembers
    <3> QED BY <3>2, ReturningKeepsFrames
  <2>2. CASE FramesHost
    BY <2>2, HostUsesCalls DEF FramesHost, FramesOK
  <2> QED BY <2>1, <2>2 DEF FramesNext
<1> QED BY <1>1, FramesAlwaysOK, PTL DEF FramesSafetySpec, HandlersBehave, RtiRestores
=============================================================================
