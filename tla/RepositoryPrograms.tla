-------------------------- MODULE RepositoryPrograms --------------------------
(***************************************************************************)
(* The programs of the repository: the five examples, the tests of         *)
(* cpu_instruction_test.cpp, and the console test as ca65 assembles it.    *)
(* Each is a record for ExampleRun, with the ticks that its source gives   *)
(* it after the one that serves the reset, and what its source expects.    *)
(***************************************************************************)
EXTENDS ExampleRun, TLC

Wdc  == "wdc65c02"
Nmos == "nmos6502"

At8000(bytes) == LoadCells(32768, bytes) @@ VectorCells(ResetVector, 32768)
At9000(bytes) == LoadCells(36864, bytes)

\* A check of a cell after so many ticks: expect_eq, or expect_flags, which
\* looks at N, V, Z and C.
Cell(tick, at, value)  == [tick |-> tick, at |-> at, allowed |-> {value}]
Flags(tick, at, value) == [tick |-> tick, at |-> at,
                           allowed |-> {b \in Byte : BitAnd(b, 195) = value}]

\* The common form of a test: bytes at $8000, more cells in RAM, ticks, and a
\* cell to look at when they are over.  It ends with STP.
Test(m, bytes, ram, budget, at, value) ==
    [model |-> m, image |-> At8000(bytes) @@ ram, calls |-> <<>>,
     end |-> AtStop, owed |-> 0, budget |-> budget, exact |-> TRUE,
     checks |-> {Cell(budget, at, value)}, output |-> <<>>]

\* A program whose source gives it more ticks than it needs.
Generous(t) == [t EXCEPT !.exact = FALSE]

-----------------------------------------------------------------------------
(***************************************************************************)
(* The examples.                                                           *)
(***************************************************************************)
\* LDA #$42 / STA $0200 / STP
LoadStore ==
    Test(Wdc, <<169, 66, 141, 0, 2, 219>>, <<>>, 2 + 4 + 3, 512, 66)

\* LDX #3 / STX $0200 / DEX / BNE / STP
BranchLoop ==
    Test(Wdc, <<162, 3, 142, 0, 2, 202, 208, 250, 219>>,
         <<>>, 2 + ((4 + 2 + 3) * 2) + 4 + 2 + 2 + 3, 512, 1)

\* JSR $8008 / STA $0201 / STP / NOP / LDA #$37 / RTS
Subroutine ==
    Test(Wdc, <<32, 8, 128, 141, 1, 2, 219, 234, 169, 55, 96>>,
         <<>>, 6 + 2 + 6 + 4 + 3, 513, 55)

\* LDA # / STA $F001 for each letter / STP
MemoryMappedConsole ==
    [Test(Wdc, <<169, 72, 141, 1, 240, 169, 101, 141, 1, 240, 169, 108, 141, 1, 240,
                 169, 108, 141, 1, 240, 169, 111, 141, 1, 240, 169, 10, 141, 1, 240, 219>>,
         <<>>, (2 + 4) * 6 + 3, 0, 0) EXCEPT
        !.output = <<72, 101, 108, 108, 111, 10>>]

\* The sieve prints "02 03 05 07 0B 0D 11 13 17 1D 1F " and leaves its flags.
SieveBytes ==
    <<169, 0, 162, 0, 157, 0, 2, 232, 224, 32, 208, 248, 169, 1, 162, 2, 157, 0, 2, 232, 224, 32, 208,
      248, 169, 2, 133, 0, 166, 0, 189, 0, 2, 240, 25, 165, 0, 24, 101, 0, 133, 1, 166, 1, 169, 0,
      157, 0, 2, 165, 1, 24, 101, 0, 133, 1, 201, 32, 144, 238, 230, 0, 165, 0, 201, 6, 144, 216, 162,
      2, 134, 1, 189, 0, 2, 240, 9, 138, 32, 99, 128, 169, 32, 141, 1, 240, 166, 1, 232, 224, 32, 208,
      233, 169, 10, 141, 1, 240, 219, 72, 74, 74, 74, 74, 170, 189, 122, 128, 141, 1, 240, 104, 41,
      15, 170, 189, 122, 128, 141, 1, 240, 96, 48, 49, 50, 51, 52, 53, 54, 55, 56, 57, 65, 66, 67, 68,
      69, 70>>

SievePrimes == {2, 3, 5, 7, 11, 13, 17, 19, 23, 29, 31}

Sieve ==
    Generous([Test(Wdc, SieveBytes, <<>>, 40000 - 1, 0, 6) EXCEPT
        !.checks = @ \cup {Cell(40000 - 1, 512 + n, IF n \in SievePrimes THEN 1 ELSE 0)
                               : n \in 2 .. 31},
        !.output = <<48, 50, 32, 48, 51, 32, 48, 53, 32, 48, 55, 32, 48, 66, 32, 48, 68, 32,
                     49, 49, 32, 49, 51, 32, 49, 55, 32, 49, 68, 32, 49, 70, 32, 10>>])

(***************************************************************************)
(* The tests of the instructions and of the addressing modes.              *)
(***************************************************************************)
\* LDA #$42 / STA $0200 / LDX #5 / INX / STX $0201 / STP
test_load_store_and_increment ==
    [Test(Wdc, <<169, 66, 141, 0, 2, 162, 5, 232, 142, 1, 2, 219>>,
         <<>>, 2 + 4 + 2 + 2 + 4 + 3, 512, 66) EXCEPT
        !.checks = @ \cup {Cell(17, 513, 6)}]

\* LDA #0 / BEQ +3 / LDA #1 / STP / LDA #2 / STA $0202 / STP
test_branch_taken_skips_instruction ==
    Test(Wdc, <<169, 0, 240, 3, 169, 1, 219, 169, 2, 141, 2, 2, 219>>,
         <<>>, 2 + 3 + 2 + 4 + 3, 514, 2)

\* LDA #1 / BEQ +5 / LDA #$7A / STA $0203 / STP
test_branch_not_taken_falls_through ==
    Test(Wdc, <<169, 1, 240, 5, 169, 122, 141, 3, 2, 219>>,
         <<>>, 2 + 2 + 2 + 4 + 3, 515, 122)

\* LDA #$10 / ADC #5 / STA $0204 / SEC / SBC #$15 / BEQ +3 / LDA #$FF / STP / LDA #1
\* STA $0205 / STP
test_add_subtract ==
    [Test(Wdc, <<169, 16, 105, 5, 141, 4, 2, 56, 233, 21, 240, 3, 169, 255, 219, 169, 1,
                 141, 5, 2, 219>>,
         <<>>, 2 + 2 + 4 + 2 + 2 + 3 + 2 + 4 + 3, 516, 21) EXCEPT
        !.checks = @ \cup {Cell(24, 517, 1)}]

\* JSR $8008 / STA $0206 / STP / NOP / LDA #$37 / RTS
test_subroutine_call_and_return ==
    Test(Wdc, <<32, 8, 128, 141, 6, 2, 219, 234, 169, 55, 96>>,
         <<>>, 6 + 2 + 6 + 4 + 3, 518, 55)

\* LDX #1 / LDA $FF,X / STA $0207 / STP
test_zero_page_indexed ==
    Test(Wdc, <<162, 1, 181, 255, 141, 7, 2, 219>>,
         LoadCells(0, <<171>>), 2 + 4 + 4 + 3, 519, 171)

\* LDX #1 / LDA ($FE,X) / STA $0208 / STP
test_indexed_indirect ==
    Test(Wdc, <<162, 1, 161, 254, 141, 8, 2, 219>>,
         LoadCells(255, <<0>>) @@ LoadCells(0, <<144>>) @@ At9000(<<205>>), 2 + 6 + 4 + 3, 520, 205)

\* LDA ($FF) / STA $0209 / STP
test_zero_page_indirect ==
    Test(Wdc, <<178, 255, 141, 9, 2, 219>>,
         LoadCells(255, <<52>>) @@ LoadCells(0, <<18>>) @@ LoadCells(4660, <<239>>),
         5 + 4 + 3, 521, 239)

\* LDY #1 / LDA ($FF),Y / STA $020A / STP
test_indirect_indexed ==
    Test(Wdc, <<160, 1, 177, 255, 141, 10, 2, 219>>,
         LoadCells(255, <<0>>) @@ LoadCells(0, <<144>>) @@ LoadCells(36865, <<119>>),
         2 + 5 + 4 + 3, 522, 119)

\* JMP ($12FF), with $90 at $1200 and $91 at $1300.
JumpVia12FF == LoadCells(4863, <<0, 145>>) @@ LoadCells(4608, <<144>>)

\* LDA #$42 / STA $020E at $9000
test_nmos6502_indirect_jmp ==
    [Test(Nmos, <<108, 255, 18>>,
         At9000(<<169, 66, 141, 14, 2>>) @@ JumpVia12FF, 5 + 2 + 4, 526, 66) EXCEPT
        !.end = 36869]

\* LDA #$43 / STA $020F / STP at $9100
test_wdc65c02_indirect_jmp ==
    Test(Wdc, <<108, 255, 18>>,
         LoadCells(37120, <<169, 67, 141, 15, 2, 219>>) @@ JumpVia12FF, 6 + 2 + 4 + 3, 527, 67)

\* STZ $10 / STP, where the NMOS part has no STZ.
test_stz_not_available(m, budget, value) ==
    Test(m, <<100, 16, 219>>, LoadCells(16, <<170>>), budget, 16, value)
StzOnNmos == Generous(test_stz_not_available(Nmos, 16, 170))
StzOnWdc  == test_stz_not_available(Wdc, 3 + 3, 0)

(***************************************************************************)
(* The tests of the interrupts: the host calls a line at a tick.  A test   *)
(* ticks once behind that call, and then as often as it counts for the     *)
(* entry or the instruction that this tick already began; the budgets are  *)
(* what it counts, without the tick that is there twice.                   *)
(***************************************************************************)
\* LDA #value / STA $02cell / STP at $9000, the handler.
Handler(value, cell) == At9000(<<169, value, 141, cell, 2, 219>>)

\* NOP / STP
test_nmi_enters_handler ==
    [Test(Wdc, <<234, 219>>,
         Handler(153, 11) @@ VectorCells(NmiVector, 36864), 8 + 2 + 4 + 3, 523, 153) EXCEPT
        !.calls = [nmi |-> 0]]

\* CLI / NOP
test_irq_enters_handler ==
    [Test(Wdc, <<88, 234>>,
         Handler(85, 12) @@ VectorCells(IrqVector, 36864), 2 + 7 + 2 + 4 + 3, 524, 85) EXCEPT
        !.calls = [irq |-> 2]]

\* LDA #$11 / STA $020D / STP
test_irq_is_ignored ==
    [Test(Wdc, <<169, 17, 141, 13, 2, 219>>,
         Handler(238, 13) @@ VectorCells(IrqVector, 36864), 2 + 4 + 3, 525, 17) EXCEPT
        !.calls = [irq |-> 0]]

(***************************************************************************)
(* The tests of decimal mode.                                              *)
(***************************************************************************)
\* SED / CLC or SEC / LDA #a / ADC # or SBC #b / STA $02cell / PHP / PLA /
\* STA $02cell+1, and STP on the 65C02.
DecimalTest(m, carry, a, op, b, cell, value, flags) ==
    LET stop   == IF m = Wdc THEN <<219>> ELSE <<>>
        budget == 2 + 2 + 2 + (IF m = Wdc THEN 3 ELSE 2) + 4 + 3 + 4 + 4 + (IF m = Wdc THEN 3 ELSE 0)
    IN  [Test(m, <<248, carry, 169, a, op, b, 141, cell, 2, 8, 104, 141, cell + 1, 2>> \o stop,
              <<>>, budget, 512 + cell, value) EXCEPT
            !.end = IF m = Wdc THEN AtStop ELSE 32782,
            !.checks = @ \cup {Flags(budget, 513 + cell, flags)}]

test_nmos6502_binary_zero == DecimalTest(Nmos, 56, 137, 105, 118, 16, 102, 3)
test_nmos6502_negative_and_overflow == DecimalTest(Nmos, 24, 36, 105, 86, 24, 128, 192)
test_wdc65c02_negative_and_overflow == DecimalTest(Wdc, 24, 36, 105, 86, 26, 128, 192)
test_wdc65c02_adjusted_zero == DecimalTest(Wdc, 56, 137, 105, 118, 18, 102, 1)
test_carry_wraps_bcd == DecimalTest(Wdc, 24, 153, 105, 1, 20, 0, 3)
test_sbc_borrows_to_bcd_99 == DecimalTest(Wdc, 56, 0, 233, 1, 22, 153, 128)

\* SED / CLC / LDA #$20 / ADC #$22 / STA, looked at in the first tick of STA,
\* which owes three more, and on the 65C02 one and two ticks before.
DecimalStore(m, cell, budget) ==
    [Test(m, <<248, 24, 169, 32, 105, 34, 141, cell, 2>>, <<>>, budget, 512 + cell, 66) EXCEPT
        !.end = 32777, !.owed = 3]
test_adc_wdc65c02_extra_cycle ==
    [DecimalStore(Wdc, 28, 2 + 2 + 2 + 2 + 1 + 1) EXCEPT
        !.checks = @ \cup {Cell(8, 540, 0), Cell(9, 540, 0)}]
test_adc_nmos6502_no_extra_cycle == DecimalStore(Nmos, 29, 2 + 2 + 2 + 2 + 1)

(***************************************************************************)
(* The console test.                                                       *)
(***************************************************************************)
HelloMessage ==
    <<65, 83, 77, 54, 53, 32, 115, 97, 121, 115, 32, 104, 101, 108, 108, 111, 32, 102, 114, 111, 109,
      32, 99, 112, 112, 54, 53, 33, 10>>

\* JSR print_message / finished: JMP finished / LDX #0 / LDA message,X / BEQ done
\* STA CONSOLE_OUT / INX / JMP msg_loop / done: RTS
console_output ==
    <<32, 6, 128, 76, 3, 128, 162, 0, 189, 21, 128, 240, 7, 141, 1, 240, 232, 76, 8, 128, 96>>
        \o HelloMessage \o <<0>>

asm65_console_test ==
    Generous([Test(Wdc, console_output, <<>>, 20000 - 1, 0, 0) EXCEPT
        !.end = 32771, !.output = HelloMessage])

-----------------------------------------------------------------------------
Examples == {LoadStore, BranchLoop, Subroutine, MemoryMappedConsole, Sieve}

\* The 65C02's jump is here with a budget that need not be exact.
InstructionTests == {
    test_load_store_and_increment, test_branch_taken_skips_instruction,
    test_branch_not_taken_falls_through, test_add_subtract, test_subroutine_call_and_return,
    test_zero_page_indexed, test_indexed_indirect, test_zero_page_indirect,
    test_indirect_indexed, test_nmi_enters_handler, test_irq_enters_handler,
    test_irq_is_ignored, test_nmos6502_indirect_jmp, Generous(test_wdc65c02_indirect_jmp),
    StzOnNmos, StzOnWdc, test_nmos6502_binary_zero, test_nmos6502_negative_and_overflow,
    test_wdc65c02_adjusted_zero, test_wdc65c02_negative_and_overflow,
    test_adc_wdc65c02_extra_cycle, test_adc_nmos6502_no_extra_cycle, test_carry_wraps_bcd,
    test_sbc_borrows_to_bcd_99 }
=============================================================================
