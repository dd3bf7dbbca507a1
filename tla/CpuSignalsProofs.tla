--------------------------- MODULE CpuSignalsProofs ---------------------------
(***************************************************************************)
(* The safety of the control contract and its response times, for every    *)
(* bound on the cycles.                                                    *)
(***************************************************************************)
EXTENDS ResponseTime, TLAPS

\* The two halves of TypeOK: the Boolean variables and the cycles.
FlagsOK == /\ reset_pending \in BOOLEAN /\ nmi_pending \in BOOLEAN /\ irq_line \in BOOLEAN
           /\ masked \in BOOLEAN /\ stopped \in BOOLEAN /\ waiting \in BOOLEAN
BusyOK  == busy \in 0 .. MaxBusy

LEMMA FlagsCorrect == FlagsOK /\ [Next]_vars => FlagsOK'
<1> SUFFICES ASSUME FlagsOK, [Next]_vars PROVE FlagsOK'
  OBVIOUS
<1> USE DEF FlagsOK
<1>1. CASE ServeReset
  BY <1>1 DEF ServeReset
<1>2. CASE CountDown
  BY <1>2 DEF CountDown, lines, modes
<1>3. CASE ServeNmi
  BY <1>3 DEF ServeNmi
<1>4. CASE ServeIrq
  BY <1>4 DEF ServeIrq, lines
<1>5. CASE Idle
  BY <1>5 DEF Idle, vars, lines, modes
<1>6. CASE Execute
  BY <1>6 DEF Execute, lines, modes
<1>7. CASE Host
  BY <1>7 DEF Host, Reset, Nmi, Irq, ClearIrq, modes
<1>8. CASE UNCHANGED vars
  BY <1>8 DEF vars, lines, modes
<1> QED
  BY <1>1, <1>2, <1>3, <1>4, <1>5, <1>6, <1>7, <1>8 DEF Next, Tick

\* The largest durations an entry leaves, 7 and 6, are within the bound.
LEMMA EntriesFit == {0, 6, 7} \subseteq 0 .. MaxBusy
  BY MaxBusyAssumption DEF MaxBusyAssumption

LEMMA BusyCorrect == BusyOK /\ [Next]_vars => BusyOK'
<1> SUFFICES ASSUME BusyOK, [Next]_vars PROVE BusyOK'
  OBVIOUS
<1>1. CASE CountDown
  BY <1>1, MaxBusyAssumption DEF CountDown, BusyOK, MaxBusyAssumption
<1>2. CASE ServeReset \/ ServeNmi \/ ServeIrq
  <2>1. busy' \in {0, 6, 7}
    BY <1>2 DEF ServeReset, ServeNmi, ServeIrq
  <2> QED
    BY <2>1, EntriesFit DEF BusyOK
<1>3. CASE Execute
  BY <1>3 DEF Execute, BusyOK
<1>4. CASE Idle \/ Host \/ UNCHANGED vars
  BY <1>4 DEF Idle, Host, Reset, Nmi, Irq, ClearIrq, vars, BusyOK
<1> QED
  BY <1>1, <1>2, <1>3, <1>4 DEF Next, Tick

\* Type correctness: no step leaves more cycles than MaxBusy or a line that is
\* not Boolean.
THEOREM TypeCorrect == SafetySpec => []TypeOK
<1>1. Init => FlagsOK
  BY DEF Init, FlagsOK
<1>2. Init => BusyOK
  BY EntriesFit DEF Init, BusyOK
<1>3. TypeOK <=> FlagsOK /\ BusyOK
  BY DEF TypeOK, FlagsOK, BusyOK
<1> QED
  BY <1>1, <1>2, <1>3, FlagsCorrect, BusyCorrect, PTL DEF SafetySpec

\* STP and WAI exclude each other, although interrupts are served in a stopped
\* and in a waiting CPU.  Inductive as it stands: only Execute sets one of the
\* two, and it needs both to be clear.
THEOREM HaltsOneWay == SafetySpec => []HaltedOneWay
<1>1. Init => HaltedOneWay
  BY DEF Init, HaltedOneWay
<1>2. HaltedOneWay /\ [Next]_vars => HaltedOneWay'
  BY DEF HaltedOneWay, Next, Tick, Host, vars, lines, modes, ServeReset, CountDown,
         ServeNmi, ServeIrq, Idle, Execute, Reset, Nmi, Irq, ClearIrq
<1> QED
  BY <1>1, <1>2, PTL DEF SafetySpec

\* What ends a stop or a wait, as a property of every step.
THEOREM WakesUpOnlyFor == SafetySpec => WakeUpCauses
<1>1. [Next]_vars =>
        [ /\ stopped /\ ~stopped' => reset_pending
          /\ waiting /\ ~waiting' => reset_pending \/ nmi_pending \/ IrqEnabled ]_vars
  BY DEF Next, Tick, Host, vars, lines, modes, ServeReset, CountDown, ServeNmi, ServeIrq,
         Idle, Execute, Reset, Nmi, Irq, ClearIrq
<1> QED
  BY <1>1, PTL DEF SafetySpec, WakeUpCauses

\* Nothing but the entry of its handler consumes a pending NMI.
THEOREM NmiIsLatched == SafetySpec => NmiLatched
<1>1. [Next]_vars =>
        [ nmi_pending /\ ~nmi_pending' =>
              busy = 0 /\ ~reset_pending /\ masked' /\ busy' = 7 /\ ~waiting' ]_vars
  BY DEF Next, Tick, Host, Boundary, vars, lines, modes, ServeReset, CountDown, ServeNmi,
         ServeIrq, Idle, Execute, Reset, Nmi, Irq, ClearIrq
<1> QED
  BY <1>1, PTL DEF SafetySpec, NmiLatched

-----------------------------------------------------------------------------
(***************************************************************************)
(* The response times.  That the bound is inductive rests on one fact: a   *)
(* tick that lengthens busy finds no line due, or serves the one that is.  *)
(***************************************************************************)
ClocksOK == nmi_wait \in Nat /\ irq_wait \in Nat

\* Either a tick spends a cycle or a clock's line has nothing to wait for.
LEMMA TickServesOrSpends ==
    ASSUME FlagsOK, Tick
    PROVE  \/ busy > 0 /\ busy' = busy - 1
           \/ busy' = 0 /\ reset_pending
           \/ /\ ~(nmi_pending /\ nmi_pending')
              /\ ~(IrqEnabled /\ IrqEnabled')
<1>1. CASE ServeReset
  BY <1>1 DEF ServeReset
<1>2. CASE CountDown
  BY <1>2 DEF CountDown
<1>3. CASE ServeNmi
  BY <1>3 DEF ServeNmi, IrqEnabled
<1>4. CASE ServeIrq
  BY <1>4 DEF ServeIrq, IrqEnabled
<1>5. CASE Idle
  BY <1>5 DEF Idle, Quiescent
<1>6. CASE Execute
  BY <1>6 DEF Execute, Quiescent
<1> QED
  BY <1>1, <1>2, <1>3, <1>4, <1>5, <1>6 DEF Tick

\* The sum for one clock n that a tick takes to m, with b and c cycles before and
\* after it.
LEMMA ClockSum ==
    ASSUME NEW n \in Nat, NEW b \in Nat, NEW c \in Nat, NEW most \in Nat, NEW m,
           n + b <= most, c <= most, m = 0 \/ (m = n + 1 /\ b > 0 /\ c = b - 1)
    PROVE  m \in Nat /\ m + c <= most
  OBVIOUS

\* An NMI that is due is entered at most MaxBusy ticks late, whatever the program,
\* the other lines and the state of the CPU, and so is an IRQ for as long as it
\* stays enabled: an NMI that is entered first masks it, and ends its clock.
THEOREM RespondsInTime == TimedSafetySpec => []ResponseBounded
<1> DEFINE TimedOK == FlagsOK /\ BusyOK /\ ClocksOK /\ ResponseBounded
<1>1. TimedInit => TimedOK
  <2>1. Init => FlagsOK /\ busy = 0
    BY DEF Init, FlagsOK
  <2> QED
    BY <2>1, EntriesFit, MaxBusyAssumption
       DEF TimedInit, BusyOK, ClocksOK, ResponseBounded, MaxBusyAssumption
<1>2. TimedOK /\ [TimedTick \/ TimedHost]_timedVars => TimedOK'
  <2> SUFFICES ASSUME TimedOK, [TimedTick \/ TimedHost]_timedVars
               PROVE  TimedOK'
    OBVIOUS
  <2>1. FlagsOK' /\ BusyOK'
    BY FlagsCorrect, BusyCorrect DEF TimedTick, TimedHost, timedVars, Next
  <2>2. CASE TimedTick
    <3>1. IrqEnabled \in BOOLEAN /\ IrqEnabled' \in BOOLEAN
      BY DEF IrqEnabled
    <3>2. nmi_pending \in BOOLEAN /\ nmi_pending' \in BOOLEAN
      BY <2>1 DEF FlagsOK
    <3>3. nmi_wait' = 0 \/ (nmi_wait' = nmi_wait + 1 /\ busy > 0 /\ busy' = busy - 1)
      <4>1. nmi_wait' = Waited(nmi_wait, nmi_pending, nmi_pending')
        BY <2>2 DEF TimedTick
      <4>2. \/ busy > 0 /\ busy' = busy - 1
            \/ busy' = 0 /\ reset_pending
            \/ ~(nmi_pending /\ nmi_pending')
        BY <2>2, TickServesOrSpends DEF TimedTick
      <4>3. CASE nmi_pending /\ nmi_pending' /\ ~reset_pending
        <5>1. busy > 0 /\ busy' = busy - 1
          BY <4>2, <4>3
        <5>2. nmi_wait' = nmi_wait + 1
          BY <4>1, <4>3, Zenon DEF Waited
        <5> QED
          BY <5>1, <5>2, Zenon
      <4>4. CASE ~(nmi_pending /\ nmi_pending' /\ ~reset_pending)
        BY <4>1, <4>4, Zenon DEF Waited
      <4> QED
        BY <4>3, <4>4, Zenon
    <3>4. irq_wait' = 0 \/ (irq_wait' = irq_wait + 1 /\ busy > 0 /\ busy' = busy - 1)
      <4>1. irq_wait' = Waited(irq_wait, IrqEnabled, IrqEnabled')
        BY <2>2 DEF TimedTick
      <4>2. \/ busy > 0 /\ busy' = busy - 1
            \/ busy' = 0 /\ reset_pending
            \/ ~(IrqEnabled /\ IrqEnabled')
        BY <2>2, TickServesOrSpends DEF TimedTick
      <4>3. CASE IrqEnabled /\ IrqEnabled' /\ ~reset_pending
        <5>1. busy > 0 /\ busy' = busy - 1
          BY <4>2, <4>3
        <5>2. irq_wait' = irq_wait + 1
          BY <4>1, <4>3, Zenon DEF Waited
        <5> QED
          BY <5>1, <5>2, Zenon
      <4>4. CASE ~(IrqEnabled /\ IrqEnabled' /\ ~reset_pending)
        BY <4>1, <4>4, Zenon DEF Waited
      <4> QED
        BY <4>3, <4>4, Zenon
    <3>5. /\ nmi_wait \in Nat /\ irq_wait \in Nat /\ MaxBusy \in Nat
          /\ busy \in Nat /\ busy' \in Nat /\ busy' <= MaxBusy
      BY <2>1, MaxBusyAssumption DEF ClocksOK, BusyOK, MaxBusyAssumption
    <3>6. /\ nmi_wait' \in Nat /\ nmi_wait' + busy' <= MaxBusy
          /\ irq_wait' \in Nat /\ irq_wait' + busy' <= MaxBusy
      BY <3>3, <3>4, <3>5, ClockSum DEF ResponseBounded
    <3> QED
      BY <2>1, <3>6 DEF ClocksOK, ResponseBounded
  <2>3. CASE TimedHost \/ UNCHANGED timedVars
    <3>1. UNCHANGED <<busy, nmi_wait, irq_wait>>
      BY <2>3 DEF TimedHost, Host, Reset, Nmi, Irq, ClearIrq, timedVars, vars
    <3> QED
      BY <2>1, <3>1 DEF ClocksOK, ResponseBounded
  <2> QED
    BY <2>2, <2>3
<1>3. TimedOK => ResponseBounded
  OBVIOUS
<1> QED
  BY <1>1, <1>2, <1>3, PTL DEF TimedSafetySpec
=============================================================================
