----------------------------- MODULE MC_liveness -----------------------------
(***************************************************************************)
(* What must happen in the end: a program under an IRQ that is held and    *)
(* released, one that waits for interrupts, and one that stops.            *)
(***************************************************************************)
EXTENDS InterruptFrames, TLC

Vectors == VectorCells(ResetVector, 32768) @@ VectorCells(NmiVector, 36864)
           @@ VectorCells(IrqVector, 40960)

\* 9000 PHA / INC $10 / PLA / RTI and A000 PHA / PLA / RTI
Handlers == LoadCells(36864, <<72, 230, 16, 104, 64>>) @@ LoadCells(40960, <<72, 104, 64>>)

LoopAddress == 32778   \* $800A

\* CLI / LDX #2 / DEX / BNE / NOP ... / JMP 800A
Looping == LoadCells(32768, <<88, 162, 2, 202, 208, 253, 234, 234, 234, 234, 76, 10, 128>>)

\* WAI (KIL on the NMOS part) with I set / CLI / WAI / JMP 800A
Waiting == LoadCells(32768, <<203, 88, 203, 76, 10, 128>>) @@ LoadCells(32778, <<76, 10, 128>>)

\* CLI / STP
Stopping == LoadCells(32768, <<88, 219>>)

Images == {p @@ Handlers @@ Vectors : p \in {Looping, Waiting, Stopping}}

Budgets == {
    [reset |-> 0, load |-> 0, nmi |-> 2, irq |-> 0, clear_irq |-> 0],
    [reset |-> 0, load |-> 0, nmi |-> 1, irq |-> 1, clear_irq |-> 1],
    [reset |-> 1, load |-> 0, nmi |-> 1, irq |-> 0, clear_irq |-> 0] }

Starts == [image : Images, reset : {TRUE}, calls : Budgets]
=============================================================================
