---------------------------- MODULE MC_interrupts ----------------------------
(***************************************************************************)
(* A program that wraps the stack, adds in decimal, prints, waits, breaks  *)
(* and keeps a status on the stack, beside its undisturbed twin.           *)
(***************************************************************************)
EXTENDS UndisturbedTwin, TLC

\* 8000 CLI / LDX #1 / TXS / JSR 8020 / DEX / BPL 8004 / STA $0200
\* 800D WAI or NOP / BRK + 2 / STA $F001 / TSX / STX $0201 / 8017 JMP 8017
Main(pause) == <<88, 162, 1, 154, 32, 32, 128, 202, 16, 250, 141, 0, 2, pause, 0, 234,
                 141, 1, 240, 186, 142, 1, 2, 76, 23, 128>>

\* 8020 SED / ADC #$27 / PHP / CLD / INC $12 / PLP / CLD / RTS
Subroutine == <<248, 105, 39, 8, 216, 230, 18, 40, 216, 96>>

\* 9000 PHA / CLD / INC $10 / LDA #$FF / PLA / RTI
NmiHandler == <<72, 216, 230, 16, 169, 255, 104, 64>>

\* A000 PHA / LDA #$80 / STA $11 / PLA / RTI
IrqHandler == <<72, 169, 128, 133, 17, 104, 64>>

Image(pause) ==
    LoadCells(32768, Main(pause)) @@ LoadCells(32800, Subroutine)
    @@ LoadCells(36864, NmiHandler) @@ LoadCells(40960, IrqHandler)
    @@ VectorCells(ResetVector, 32768) @@ VectorCells(NmiVector, 36864)
    @@ VectorCells(IrqVector, 40960)

Images == {Image(203), Image(234)}

\* Two nested NMIs; an NMI and an IRQ that is held for a while.
Budgets == {
    [reset |-> 0, load |-> 0, nmi |-> 2, irq |-> 0, clear_irq |-> 0],
    [reset |-> 0, load |-> 0, nmi |-> 1, irq |-> 1, clear_irq |-> 1] }

LoopAddress == 32791   \* $8017
Counters    == {16, 17}

Starts == [image : Images, reset : {TRUE}, calls : Budgets]
=============================================================================
