------------------------------ MODULE CpuSignals ------------------------------
(***************************************************************************)
(* What cpp65 promises about the order in which a CPU serves its signal    *)
(* lines, whatever program it runs: the control skeleton of CPU::tick()    *)
(* with the instruction abstracted to any duration and any effect on the   *)
(* interrupt mask.  Machine implements this specification.                 *)
(***************************************************************************)
EXTENDS Naturals

CONSTANT MaxBusy   \* the most cycles that a tick can leave to be spent

ASSUME MaxBusyAssumption == MaxBusy \in Nat /\ MaxBusy >= 7

VARIABLES
    reset_pending, nmi_pending, irq_line,   \* the lines of the bus
    masked,                                 \* the I flag
    busy,                                   \* cycles
    stopped, waiting                        \* after STP or KIL; after WAI

lines == <<reset_pending, nmi_pending, irq_line>>
modes == <<stopped, waiting>>
vars  == <<lines, masked, busy, modes>>

Init ==
    /\ reset_pending \in BOOLEAN
    /\ nmi_pending = FALSE
    /\ irq_line = FALSE
    /\ masked = FALSE
    /\ busy = 0
    /\ stopped = FALSE
    /\ waiting = FALSE

-----------------------------------------------------------------------------
(***************************************************************************)
(* The ticks.  A reset is served at any time, an interrupt only when no    *)
(* cycle is left, an NMI before an IRQ, and both before the CPU looks at   *)
(* stopped and waiting.                                                    *)
(***************************************************************************)
\* Mutants of ServeReset: it drops a pending NMI; it leaves a stopped CPU stopped.
ServeResetDropsNmi ==
    /\ reset_pending
    /\ reset_pending' = FALSE /\ nmi_pending' = FALSE
    /\ masked' = TRUE /\ busy' = 0 /\ stopped' = FALSE /\ waiting' = FALSE
    /\ UNCHANGED irq_line
ServeResetStaysStopped ==
    /\ reset_pending
    /\ reset_pending' = FALSE
    /\ masked' = TRUE /\ busy' = 0 /\ waiting' = FALSE
    /\ UNCHANGED <<nmi_pending, irq_line, stopped>>

ServeReset ==
    /\ reset_pending
    /\ reset_pending' = FALSE
    /\ masked' = TRUE
    /\ busy' = 0
    /\ stopped' = FALSE
    /\ waiting' = FALSE
    /\ UNCHANGED <<nmi_pending, irq_line>>

CountDown ==
    /\ ~reset_pending
    /\ busy > 0
    /\ busy' = busy - 1
    /\ UNCHANGED <<lines, masked, modes>>

Boundary == ~reset_pending /\ busy = 0

\* Mutants of ServeNmi: the tick is not counted as one of its cycles; it starts
\* a stopped CPU; a stopped CPU ignores it; it leaves the CPU waiting.
NmiEntry(b, s, w) ==
    /\ Boundary
    /\ nmi_pending
    /\ nmi_pending' = FALSE
    /\ masked' = TRUE
    /\ busy' = b /\ stopped' = s /\ waiting' = w
    /\ UNCHANGED <<reset_pending, irq_line>>
ServeNmiUncounted    == NmiEntry(8, stopped, FALSE)
ServeNmiRestarts     == NmiEntry(7, FALSE, FALSE)
ServeNmiUnlessHalted == ~stopped /\ NmiEntry(7, stopped, FALSE)
ServeNmiStillWaiting == NmiEntry(7, stopped, waiting)

ServeNmi ==
    /\ Boundary
    /\ nmi_pending
    /\ nmi_pending' = FALSE
    /\ masked' = TRUE
    /\ busy' = 7
    /\ waiting' = FALSE
    /\ UNCHANGED <<reset_pending, irq_line, stopped>>

IrqEnabled == irq_line /\ ~masked

\* Mutants of ServeIrq: a waiting CPU ignores it; it goes before an NMI.
ServeIrqUnlessWaiting ==
    /\ Boundary
    /\ ~nmi_pending
    /\ IrqEnabled
    /\ ~waiting
    /\ masked' = TRUE
    /\ busy' = 6
    /\ UNCHANGED <<lines, modes>>

ServeIrqFirst ==
    /\ Boundary
    /\ IrqEnabled
    /\ masked' = TRUE
    /\ busy' = 6
    /\ waiting' = FALSE
    /\ UNCHANGED <<lines, stopped>>

ServeIrq ==
    /\ Boundary
    /\ ~nmi_pending
    /\ IrqEnabled
    /\ masked' = TRUE
    /\ busy' = 6
    /\ waiting' = FALSE
    /\ UNCHANGED <<lines, stopped>>

Quiescent == Boundary /\ ~nmi_pending /\ ~IrqEnabled

Idle == Quiescent /\ (stopped \/ waiting) /\ UNCHANGED vars

\* A mutant of Execute: it does not look at stopped.
ExecuteWhenStopped ==
    /\ Quiescent
    /\ ~waiting
    /\ busy' \in 0 .. MaxBusy
    /\ \/ masked' \in BOOLEAN /\ UNCHANGED modes
       \/ stopped' = TRUE /\ UNCHANGED <<masked, waiting>>
       \/ waiting' = TRUE /\ UNCHANGED <<masked, stopped>>
    /\ UNCHANGED lines

\* An instruction; one that stops the CPU or makes it wait leaves the mask alone.
Execute ==
    /\ Quiescent
    /\ ~stopped
    /\ ~waiting
    /\ busy' \in 0 .. MaxBusy
    /\ \/ masked' \in BOOLEAN /\ UNCHANGED modes
       \/ stopped' = TRUE /\ UNCHANGED <<masked, waiting>>
       \/ waiting' = TRUE /\ UNCHANGED <<masked, stopped>>
    /\ UNCHANGED lines

Tick == ServeReset \/ CountDown \/ ServeNmi \/ ServeIrq \/ Idle \/ Execute

-----------------------------------------------------------------------------
\* The host moves the lines at any time.
Reset    == reset_pending' = TRUE /\ UNCHANGED <<nmi_pending, irq_line, masked, busy, modes>>
Nmi      == nmi_pending' = TRUE /\ UNCHANGED <<reset_pending, irq_line, masked, busy, modes>>
Irq      == irq_line' = TRUE /\ UNCHANGED <<reset_pending, nmi_pending, masked, busy, modes>>
ClearIrq == irq_line' = FALSE /\ UNCHANGED <<reset_pending, nmi_pending, masked, busy, modes>>

Host == Reset \/ Nmi \/ Irq \/ ClearIrq
Next == Tick \/ Host

\* The host keeps calling tick(); nothing else is owed.
SafetySpec == Init /\ [][Next]_vars
Spec       == SafetySpec /\ WF_vars(Tick)

-----------------------------------------------------------------------------
\* Every variable has its type, and no tick leaves more than MaxBusy cycles.
TypeOK ==
    /\ reset_pending \in BOOLEAN /\ nmi_pending \in BOOLEAN /\ irq_line \in BOOLEAN
    /\ masked \in BOOLEAN /\ stopped \in BOOLEAN /\ waiting \in BOOLEAN
    /\ busy \in 0 .. MaxBusy

\* A CPU never waits and is stopped at once: WAI is not executed by a stopped
\* CPU, and STP not by a waiting one, although interrupts are served in both
\* conditions and clear only waiting.
HaltedOneWay == ~(stopped /\ waiting)

\* Only a reset starts a stopped CPU again, and only a reset, an NMI or an
\* enabled IRQ ends a wait: an IRQ that the I flag masks does not.
WakeUpCauses ==
    [][ /\ stopped /\ ~stopped' => reset_pending
        /\ waiting /\ ~waiting' => reset_pending \/ nmi_pending \/ IrqEnabled ]_vars

\* A pending NMI stays pending over the cycles of the instruction under way
\* and over a reset, and only entering its handler consumes it.
NmiLatched ==
    [][ nmi_pending /\ ~nmi_pending' =>
            busy = 0 /\ ~reset_pending /\ masked' /\ busy' = 7 /\ ~waiting' ]_vars

\* However long the instruction under way, a pending NMI is entered, unless a
\* reset keeps getting in before it: also in a stopped and in a waiting CPU.
NmiServed == nmi_pending ~> (~nmi_pending \/ reset_pending)

\* An IRQ that is held and enabled is entered (which masks it), unless the
\* program masks it first: a stream of NMIs may delay it but each masks it too.
IrqServed == IrqEnabled ~> (masked \/ ~irq_line \/ reset_pending)

\* A wait ends when an NMI comes: through the NMI, an IRQ before it, or a reset.
WaitEnds == (waiting /\ nmi_pending) ~> ~waiting

\* A reset is served although an instruction is under way, and it leaves a CPU
\* that can run.
ResetServed == reset_pending ~> (~reset_pending /\ masked /\ busy = 0 /\ ~stopped /\ ~waiting)
=============================================================================
