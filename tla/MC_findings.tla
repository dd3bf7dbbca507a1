----------------------------- MODULE MC_findings -----------------------------
(***************************************************************************)
(* Two statements of the repository that its code does not keep.           *)
(***************************************************************************)
EXTENDS Machine, TLC

\* CLI / STP; the NMI handler is RTI.
StopProgram ==
    LoadCells(32768, <<88, 219>>) @@ LoadCells(36864, <<64>>)
    @@ VectorCells(ResetVector, 32768) @@ VectorCells(NmiVector, 36864)

\* BRK into a handler that stops.
BreakProgram ==
    LoadCells(32768, <<0, 234>>) @@ LoadCells(36864, <<219>>)
    @@ VectorCells(ResetVector, 32768) @@ VectorCells(IrqVector, 36864)

Nmis(n) == [c \in Call |-> IF c = "nmi" THEN n ELSE 0]

StopSetups  == {[image |-> StopProgram, reset |-> TRUE, calls |-> Nmis(1)]}
BreakSetups == {[image |-> BreakProgram, reset |-> TRUE, calls |-> Nmis(0)]}

\* STP "stops the CPU" (src/src/cpu.h:545): until a reset a 65C02 that is stopped
\* changes no register and writes nothing.  (It still pushes three bytes and takes the vector when an
\* NMI comes, or an IRQ with I clear, and then executes no handler.)
StoppedMeansStopped ==
    [][model = "wdc65c02" /\ stopped /\ ~reset_pending =>
           UNCHANGED <<reg, reg_f, sp, pc, dataVars>>]_machineVars

\* Every instruction takes at least the cycles of its table entry.  (brk() has
\* interrupt() overwrite the 7 of its entry with 0, so that BRK takes one tick.)
BreakTakesItsTime ==
    [][Executes({"BRK"}) /\ UNCHANGED calls_left =>
           cycles' >= table[model][Read(pc)].cycles - 1]_machineVars
=============================================================================
