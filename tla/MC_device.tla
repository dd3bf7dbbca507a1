------------------------------ MODULE MC_device ------------------------------
(***************************************************************************)
(* A program that masks and unmasks its interrupts, with an NMI handler of *)
(* its own, under a device with two messages, an NMI and a reset.          *)
(***************************************************************************)
EXTENDS Device, TLC

\* 8000 CLI / LDX #1 / SEI / DEX / JMP 8000
Main == <<88, 162, 1, 120, 202, 76, 0, 128>>

\* 9000 PHA / LDA #$FF / PLA / RTI
NmiHandler == <<72, 169, 255, 104, 64>>

\* A000 PHA / LDA $0010 / STA $F001 / PLA / RTI
IrqHandler == <<72, 165, 16, 141, 1, 240, 104, 64>>

Images == {
    LoadCells(32768, Main) @@ LoadCells(36864, NmiHandler) @@ LoadCells(40960, IrqHandler)
    @@ VectorCells(ResetVector, 32768) @@ VectorCells(NmiVector, 36864)
    @@ VectorCells(IrqVector, 40960) }

TwoBytes == <<65, 66>>
Pokes    == {[addr |-> 16, bytes |-> <<b>>] : b \in {65, 66}}

Budgets == {[reset |-> 1, nmi |-> 1, irq |-> 2, clear_irq |-> 0, load |-> 2]}

Starts == [image : Images, reset : {TRUE}, calls : Budgets]
=============================================================================
