----------------------------- MODULE ResponseTime -----------------------------
(***************************************************************************)
(* The control contract with a clock for each interrupt line.  The clocks  *)
(* are history: no tick depends on them.  Each counts the ticks for which  *)
(* its line has been due without being served, and starts again when a     *)
(* reset gets in or when the line is masked: by the program, or by the     *)
(* handler of an NMI that was entered first.                               *)
(***************************************************************************)
EXTENDS CpuSignals

VARIABLES nmi_wait, irq_wait

timedVars == <<vars, nmi_wait, irq_wait>>

\* A clock after a tick: its line was due before the tick and still is.  The entry
\* of an NMI's handler sets I, so the IRQ is not due behind it.
Waited(n, due, still_due) == IF due /\ still_due /\ ~reset_pending THEN n + 1 ELSE 0

TimedInit == Init /\ nmi_wait = 0 /\ irq_wait = 0

TimedTick ==
    /\ Tick
    /\ nmi_wait' = Waited(nmi_wait, nmi_pending, nmi_pending')
    /\ irq_wait' = Waited(irq_wait, IrqEnabled, IrqEnabled')

TimedHost == Host /\ UNCHANGED <<nmi_wait, irq_wait>>

TimedSafetySpec == TimedInit /\ [][TimedTick \/ TimedHost]_timedVars
TimedSpec       == TimedSafetySpec /\ WF_timedVars(TimedTick)

-----------------------------------------------------------------------------
\* An NMI waits for the instruction under way and for nothing else: what it has
\* waited and what is left of that instruction are together no more than the
\* longest instruction.  So it is entered at most MaxBusy ticks late, also in a
\* stopped or waiting CPU and when an IRQ comes with it.  The same holds of an
\* IRQ for as long as it stays enabled.  An NMI that is due with it goes first
\* and masks it: the IRQ then waits for that handler too, for as long as that
\* takes, and the bound counts anew from where I is cleared.
ResponseBounded ==
    /\ nmi_wait + busy <= MaxBusy
    /\ irq_wait + busy <= MaxBusy
=============================================================================
