----------------------------- MODULE MC_examples -----------------------------
(***************************************************************************)
(* Every program of the repository, in one suite.                          *)
(***************************************************************************)
EXTENDS RepositoryPrograms

AllPrograms == Examples \cup InstructionTests \cup {asm65_console_test}

\* The 65C02's jump, with the test's budget taken as exact.
IndirectJumpTest == {test_wdc65c02_indirect_jmp}

Starts == {SetupOf(p) : p \in Suite}
=============================================================================
