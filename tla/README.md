# A TLA+ verification of cpp65

cpp65 is a 6502 / 65C02 emulator: a CPU that executes one clock cycle per call
of `tick()`, a bus with three signal lines, 64 KiB of RAM and an optional
memory-mapped console. This directory holds a TLA+ model of it, the TLC runs
that check the model on small instances, and TLAPS proofs of the properties
that matter most.

The whole CPU is modelled: all 512 entries of the two dispatch tables, every
addressing mode, every operate function, the stack, decimal arithmetic and the
interrupt logic. So is the whole bus, and so are the programs of the repository:
its examples, its instruction tests and its console test run on the model. What
is checked are the things a unit test hardly reaches: interrupts at every tick
of a program, nested handlers, a device that is acknowledged in the middle of a
tick, signals that arrive in the middle of an instruction or before the first
reset, stops and waits, wraps of the stack and of addresses.

- [1. The system](#1-the-system)
- [2. The modules](#2-the-modules)
- [3. The runs](#3-the-runs)
- [4. The proofs](#4-the-proofs)
- [5. Where the code and its documents disagree](#5-where-the-code-and-its-documents-disagree)
- [6. What is not modelled](#6-what-is-not-modelled)
- [7. Plan](#7-plan)

## 1. The system

| Component | Source | State | Operations |
|---|---|---|---|
| Signal lines | `bus.h` `Bus` | `reset_pending`, `nmi_pending` (latches), `irq_line` (a level) | host: `reset`, `nmi`, `irq`, `clear_irq`; CPU: `consume_reset`, `consume_nmi`, `irq_asserted` |
| RAM | `bus.h` `RamBus` | 65536 bytes | CPU: `read`, `write`; host: `load`, `peek`, `poke`, `set_*_vector` |
| Console | `bus.h` `PutCharBus` | an output address | `write` to it calls a function instead of storing |
| Stack | `cpu.cpp` `push`, `pull` | `sp`, page one of the RAM | `push`, `pull`, one to three bytes at a time |
| Tick | `cpu.cpp` `CPU::tick` | `cycles`, `stopped`, `waiting`, `opcode` | `tick`, `reset`, `nmi`, `irq`, `interrupt` |
| Addressing modes | `cpu.cpp` `imp` .. `zpr` | `addr_abs`, `addr_rel` | sixteen modes, four of them with a page-crossing result |
| Instructions | `cpu.cpp` `adc` .. `wai` | `reg_a`, `reg_x`, `reg_y`, `reg_f`, `sp`, `pc` | the operate functions |
| Arithmetic | `cpu.cpp` `adc`, `sbc`, `compare`, shifts | none | pure |
| Dispatch tables | `cpu.cpp` | constants | two tables of 256 entries |
| Examples, tests | `examples/`, `tests/` | programs | load, reset, a loop of `tick()` |

**How they interact.** Everything is a call on one thread. The CPU owns a
reference to the bus and is the only caller of its CPU side; the host program
owns both, loads the RAM, asserts lines, and calls `tick()` in a loop. A tick
is atomic for the host, which runs between two ticks, with one exception: the
output callback of a `PutCharBus` runs in the middle of a tick, at the bus write
of a store or a push (`bus.cpp:152`). The lines are checked before the
instruction, so what a callback does to a line takes effect at the next tick;
`Device` models a device that uses its callback as an acknowledgement.

**Where the difficulty is.** One tick does the *whole* of an instruction: it
fetches, addresses and operates at once and leaves in `cycles` the ticks that
the instruction still owes. During those ticks the lines move. So the hard
behaviours are orders of events: which of reset, the remaining cycles, NMI, IRQ,
`stopped` and `waiting` goes first (`cpu.cpp:21-43`); whether an event that comes
at a bad moment is kept; and whether the frames that nested handlers push on one
wrapping stack are found again. A second source is the arithmetic at its
boundaries, and a third the tables, in which an operation and an addressing
mode are two independent function pointers that communicate through members.

**What makes each component correct.**

- *Lines and tick*: no NMI edge is lost or served twice; a reset is served at
  once, an interrupt only between instructions; an NMI goes before an IRQ; only
  a reset ends a stop; each signal is served in the end.
- *Interrupts*: a handler finds the return address and status of what it
  interrupted, RTI restores them, and a program's results do not depend on when
  it was interrupted.
- *Stack*: push and pull agree on their cell at every `sp`; a stack that is
  full loses its oldest bytes only.
- *A device on the bus*: each message it hands over through a mailbox and the
  IRQ line is received once and in order.
- *Addressing*: addresses are what two-byte arithmetic with a carry finds, and
  the extra cycle is charged exactly when there is a carry.
- *RAM and console*: a read returns the last store; the console shows the CPU's
  writes and nothing else.
- *Arithmetic*: it is arithmetic, on binary numbers and on decimal ones.
- *Tables*: no operation uses an address that its mode did not set.
- *Timing*: a program takes the ticks its documentation counts.

`PROJECT.json` lists the hazards with the line where each bites and the
properties that would catch it.

## 2. The modules

```
MachineWords ── bytes, words, casts, bit operations
   ├── Alu ── status byte, adc, sbc, compare, shifts        AluMachine (run alu)
   ├── OpcodeTable ── the two tables
   └── Bus ── lines, RAM, console                           BusHost, MC_bus (run bus)
          └── Stack ── push and pull                        StackHost, MC_stack (run stack)
                 └── Cpu ── an action per kind of tick and per group of instructions
                        └── Machine ── CPU + bus + host     MC_findings
                               ├── Addressing, OpcodeAudit  MC_isa
                               ├── ExampleRun ── + a program and its ticks
                               │      └── RepositoryPrograms        MC_examples
                               ├── Device ── + a device     MC_device
                               └── InterruptFrames ── + history     MC_liveness
                                      └── UndisturbedTwin ── + a second CPU   MC_interrupts

CpuSignals ── the abstract control contract; Machine implements it
   └── ResponseTime ── + a clock for each interrupt line    (run signals)
Lifo ── an abstract stack; StackHost implements it
Delivery ── an abstract channel; Device implements it
```

**MachineWords.** `static_cast<std::uint8_t>` is `Wrap8`, `static_cast<std::uint16_t>`
is `Wrap16`. Bitwise operators go through the set of the positions of the 1 bits.

**Alu.** `reg_f` is the *set* of the flags that are 1, so `set_flag` is `Assign`
and the byte that travels over the stack is `StatusByte(F)` / `FlagsOf(b)`. An
arithmetic operator returns the value, the new flags and the extra cycle of the
65C02's decimal mode.

**OpcodeTable.** The entries of `wdc65c02_table` as records `[op, mode, cycles]`,
one per opcode. The code builds `nmos6502_table` by filling with `KIL` and then
assigning the 151 official opcodes; the model says the same with the set of
official opcodes and the four entries whose cycles differ.

**Bus.** The variables `reset_pending`, `nmi_pending`, `irq_line`, `memory` and
`output`. `memory` is a function from the cells that were ever stored to, all
others read 0 (the `std::array` is value-initialised). `output_addr` is the
console's address or `NoConsole` for a plain `RamBus`.

**Stack.** `Push` and `Pull` move several bytes at once: `PushSlot` keeps the
code's order *write at `sp`, then decrement and force into page one*, which
matters for the first push after power-on, when `sp` is 0. **StackHost** pushes
and pulls one to three bytes at a time, as the callers of `push()` and `pull()`
do, from the stacks in `Starts`, and never pulls more than was pushed. **Lifo**
is what the callers rely on: a sequence that drops its oldest items when it is
full. `StackIsLifo` says that the first implements the second, where the
abstract contents are what the pulls to come would return.

**Cpu.** The variables are the members of `CPU`, with the three index registers
in one function `reg`. `Tick` is a disjunction of six actions, one per exit of
`CPU::tick`: `ServeReset`, `CountDown`, `ServeNmi`, `ServeIrq`, `Idle`, `Execute`.
`Execute` binds `Decoded`, a record of what an operate function finds after the
addressing mode ran, and applies one of 22 instruction operators (`Operate`).
Every instruction reads before it writes, so its values are functions of the
state before the tick. `fetched` is left out: the code stores it and never reads
it back.

**Machine.** A host that starts with one of the `Setups`, each a RAM image that
it loaded, whether it has asserted reset, and how often it will call each
operation of the bus later, and then interleaves `tick()` with those calls: on
the lines, and loads of one of the blocks in `Loads` (a block of one byte is a
`poke`, one of two bytes at a vector is a `set_*_vector`). `Clock` is the tick,
`Host` the calls.

**Addressing** states what an indexed mode and a branch must compute, in the way
of the real part: a sum of low bytes whose carry or borrow goes into the high
byte. The code instead adds words, casts and compares pages afterwards.
**OpcodeAudit** looks at the table entry that `pc` points at, and says which
pairs of operation, mode and time can work.

**CpuSignals.** What `tick()` promises *about the lines, whatever the program
does*: an instruction becomes any duration and any effect on the I flag.
`Machine!ControlContract` says that the machine implements it under the mapping
`masked <- "I" \in reg_f`, `busy <- cycles`.

**ResponseTime.** The contract with a clock for each interrupt line, which counts
the ticks for which the line was due and not served, and starts again when the
line is masked. An NMI is so bounded whatever comes. An IRQ is bounded for as long
as it stays enabled: an NMI that goes first masks it, and no bound is claimed for
the time until that handler, or one after it, clears I again.

**InterruptFrames.** The machine with three history variables: the stack of
interrupted contexts, the number of NMI edges, the number of NMI entries. No tick
reads them. `Behaves` says what the code of a program has to do at each step for
its frames to survive, in terms of the program alone: it does not unmask the IRQ in a
handler, pulls nothing that it did not push, returns with its frame on top,
stores nothing by address over a frame, and stays within an area of the stack
(from `Top` downwards, `Reach` bytes and the three of one more interrupt). That
pushes and nested frames stay clear of older frames is not part of it; it is
proved. `HandlersBehave` says it of every step and is the hypothesis of the
theorems about frames.

**UndisturbedTwin** adds a second CPU (`Twin == INSTANCE Cpu`) with a RAM and a
console of its own, which runs the same program with its interrupt lines low. It
takes its steps when the program of the machine does and stands still while a
handler runs. `Transparent` compares the two whenever no handler is running: all
registers, the RAM except the handlers' own cells and what lies below the stack
pointer within the area, and the console. `ProgramsBehave` adds to `Behaves` what keeps a
program apart from its handlers (`Apart`): it reads neither their cells nor below
its stack pointer (`ReadCells` are the cells an instruction reads), and its TXS
gives no bytes up; a handler stores into its own cells only, prints nothing, and
returns A, X and Y as it found them.

**Device.** A machine and a device of its host. The device pokes a message into a
mailbox (`Post`), raises the IRQ line then or later (`Raise`), and drops it from
the console's output callback (`Callback`), when the program's handler has
copied the mailbox to the console. The callback is an action of its own between
two ticks, because an instruction reads no line behind its store; until it ran,
neither the clock nor the host goes on. `DeliversEachOnce` says that this
implements **Delivery**: one message at a time, each once, in order, in the end.
The device is external; the repository offers the interface it uses.

**ExampleRun** adds the program that runs and its elapsed ticks.
**RepositoryPrograms** holds the programs, each as the bytes that its source
loads (for `console_output.s`, the bytes that the assembler makes of it), the
line calls that it makes and after which tick, the ticks that it spends, and
what it expects of RAM, flags and console. A budget is *exact* where the source
counts cycles, so that the program must come to its end at that very tick. The
tests of the interrupts count the entry twice, once with a tick of its own; their
budgets leave that tick out and are exact, too.

**Mutants.** A definition `X` may be preceded by operators that a comment calls
mutants of `X`: the same operator with a plausible mistake (a dropped guard, a
missing mask, a byte order swapped). No specification uses them. Substituted for
`X`, each breaks the property that `PROJECT.json` pairs it with, which shows that
the property constrains the code and that the run's bounds reach the case.

## 3. The runs

| Run | Question | Instance | States |
|---|---|---|---|
| `signals` | Is every signal kept, ordered and served, and how late is an NMI, or an IRQ that stays enabled, for every program? | all lines at all times, `MaxBusy = 7` | 3 408 |
| `bus` | Is RAM a memory and the console a log? | 5 addresses at both ends of memory and at the console, 2 values, blocks of 2 and 3 bytes, 4 stores | 193 846 |
| `alu` | Is the arithmetic arithmetic, and do the flags say of it what each model shows? | every accumulator, operand, carry, mode and model | 2 048, each against 256 operands |
| `stack` | Are push and pull a stack, also when it wraps and overflows? | `Bytes` of 3 values, `Burst = 3`, 9 `Starts`, `MaxSteps = 2` | 10 793 |
| `isa` | What may every program rely on, whatever the opcode, and before the first reset? | 256 opcodes x 2 models x 4 sets of boundary operands; 3 programs at $0000 with every call of the host once, in any order, a load over the vectors among them | 345 438 |
| `interrupts` | Does an interrupt at any tick leave any trace in a program? | 2 programs x 2 models, 2 NMIs / NMI + held IRQ at every tick; `Top = $0101`, `Reach = 16` | 588 070 |
| `device` | Is each message delivered once? | 2 messages, one NMI and one reset at every tick; both models | 47 098 |
| `liveness` | Do programs end, or halt for ever, and do signals get served, each NMI once? | a loop, a program that waits twice, one that stops, under 2 NMIs / NMI + IRQ / reset + NMI; both models | 39 841 |
| `examples` | Do the repository's programs give their results in their time? | 5 examples, 24 programs of the 23 instruction tests, the console test | 3 838 |
| `stopped`, `break_time`, `indirect_jump` | Three statements that the code does not keep | see section 5 | - |

**Why the bounds are enough.**

- `signals` has no bound but `MaxBusy`, which is exact: the theorem
  `MachineTypeCorrect` shows that no tick leaves more than seven cycles.
- `alu` is exhaustive. The constant `Operands` of `alu` only drives the walk from
  one accumulator to the next; the invariants quantify over all 256 operands in
  each state.
- `bus`: a hazard needs an overlap of two stores, a wrap past $FFFF, or the
  console's cell; `MCAddresses` has two cells on each side of the wrap and the
  console with its neighbour, and four stores make any two loads overlap.
- `stack`: `Starts` has `sp` at the two cells on each side of the wrap, with two
  bytes on the stack and one short of full, so that the bytes of one push or pull
  lie on both sides of the wrap or of the limit; two steps are a push and its
  pull. `Bytes` has three values, so that neighbouring cells differ.
- `isa`: the operands make each index cross a page and wrap page zero, each
  pointer lie at $FF, branches carry and borrow, push and pull happen at both
  ends of the stack, and PLP set all eight bits. The opcode under test is at the
  end of a page. The programs at $0000 push, pull or call first; the load
  replaces two vectors and wraps over the program.
- `interrupts`: the program has a loop, a subroutine whose stack wraps, decimal
  mode, a BRK, console output, a WAI in one version, and a status on the stack,
  so that each kind of context is interrupted. Two NMIs nest; one IRQ held over
  several ticks is entered once or twice, as in the code. `Top` is where this
  program's stack starts, two cells above the wrap, and `Reach` what it may use:
  program and handlers together keep 12 bytes there at most, which the run checks
  (`WithinStack`). The reset leaves `sp` at $01FD, four cells below `Top` over the
  wrap, so the area is well formed from the first tick. `liveness` states no
  property of the area; its `Top` is where the reset leaves `sp`.
- `device`: the second message can overtake the first only if there are two; the
  reset and the NMI come at every tick of the program and of both handlers.
- The `calls` of a setup are the one bound on the host. An NMI edge, a held IRQ
  and a reset are each needed once or twice for every pairwise race.

**Fairness.** The machine's only fairness is weak fairness of the clock: the host
keeps calling `tick()`, as every example's loop does. `DeviceSpec` adds that the
callback returns (it is a function call) and that the device posts its next
message and raises the line when it can; without the latter nothing would be sent.
Nothing is assumed of the lines.
The liveness properties are written for that: `NmiServed` allows a reset to get
in first, `IrqServed` allows the program to mask the IRQ or the host to drop it,
and `ProgramFinishes` assumes that the IRQ line is not held for ever, because a
level-triggered IRQ that is never cleared is entered again after each RTI. It
ends at `Finish`, or in a WAI or STP that lasts for ever; a wait that is ended does
not count, so the program that waits twice has to come through both of its waits
whenever the signals for that come.

## 4. The proofs

| Module | Theorem | For every |
|---|---|---|
| `CpuSignalsProofs` | `TypeCorrect`, `HaltsOneWay`, `WakesUpOnlyFor`, `NmiIsLatched`, `RespondsInTime` | bound on the cycles of at least 7 |
| `OperatorProofs` | `TablesOK`, `ArithmeticOK` | entry of both tables; bytes, carry, mode, model |
| `AluMachineProofs` | `AddsNumbers`, `SubtractsNumbers`, `ComparesLikeSubtraction`, `ShiftsLoseNoBit`, `DecimalNumbers`, `FlagsOfDecimalMode`, `ModelsComputeAlike` | accumulator, operand, carry, mode, model |
| `BusProofs` | `BusTypeCorrect`, `ReadsReturnLastStore`, `ConsoleShowsEachWrite` | addresses, values, blocks, console address, number of stores |
| | `StackTypeCorrect`, `StackImplementsLifo` | bytes, burst of up to 256, stack to begin with, number of steps |
| `MachineProofs` | `MachineTypeCorrect`, `BreakFlagNeverSet`, `StackPageKept`, `ModesSwitchedOnlyBy`, `ImplementsContract`, `MachineHaltsOneWay`, `MachineWakesUpOnlyFor`, `MachineNmiIsLatched` | program in memory, console address, host, loads and pokes between ticks |
| `AddressingProofs` | `IndexingCarries`, `BranchesLand`, `NoStaleAddress`, `CyclesCoverAccesses`, `BitInstructionsCovered` | the same |
| `InterruptFramesProofs` | `NmiEdgesAccounted` | the same |
| | `FramesStayIntact`, `HandlersStayMasked`, `ReturnsRestore` | the same, with handlers that behave |
| `TwinProofs` | `InterruptsLeaveNoTrace`, `TwinIsReady` | the same, with programs that behave |

**Assumptions.** The constants' own: the console's address is a word or absent,
and for the stack not in page one; programs are functions from words to bytes; a
loaded block has at most 65536 bytes; the addresses and values of `BusHost` are
words and bytes; `MaxBusy` is at least 7; the operands of `AluMachine`, which
only drive TLC's walk, are bytes; the stack's area and the handlers' cells lie in
page one and in memory. But for the frames and the twin nothing is assumed of programs; in particular they
may modify themselves, and the proofs cover unfinished calls, underflowing stacks
and a host that never asserts reset.

The theorems about frames and about the twin have hypotheses, because what they
say is false of some programs.

| Theorems | Of the host | Of the console | Of the program |
|---|---|---|---|
| frames | asserts reset before its first tick | not in page one | `HandlersBehave` |
| twin | the same, and neither resets nor loads later | not in page one | `ProgramsBehave` |

Before a reset `sp` is 0, and the first frame would be pushed partly outside the
page that RTI reads. A reset in a handler abandons it half done, and a load
changes one memory only; NMIs and the IRQ line are unrestricted, as are their
number, their times and what nests. `ProgramsBehave` implies `HandlersBehave`. The run
`interrupts` satisfies all of these: its setups assert reset and call neither
operation later, its console is at $F001, and TLC checks `ProgramsBehave` in it,
at every tick and nesting. It is as much a property of the emulator as of the
handlers: an interrupt that pushes what a call would push breaks it, as its
mutant shows. `StackAssumption` says that the area lies in page one and leaves
room for the three bytes of one interrupt, so that a push from its lower end
does not wrap around to `Top`.

**The inductive invariant** of the machine is `StateOK`. It is `TypeOK` with
`reg_f \subseteq Settable` in place of `reg_f \subseteq Flag`, where `Settable`
leaves out B. `BreakFlagClear` is not inductive on its own: that an instruction
gives no B depends on what it is handed, and that `cycles` stays at most 7
depends on each entry of the table having room for the penalties its operation
can add. The argument has four layers:

1. `OperatorProofs`, words: wraps, halves and bit operations are bytes and words;
   the arithmetic returns a byte, a status without B and at most one cycle; a
   status survives its byte on the stack (`StatusRoundTrip`).
2. `OperatorProofs`, tables: each entry has one of the sixteen modes and one to
   eight cycles, at most six for the operations that add some (`EntryOK`).
3. `MachineProofs`, decoding: from `StateOK` an operation is handed words, a byte
   and cycles as above (`DecodedOK`); one lemma for each of the 22 instructions
   then gives `Effect` (memory, registers and stack), `Flow` (the pc and the
   cycles) and what happens to `stopped` and `waiting`.
4. `MachineProofs`, the tick: one step for each of its six actions and for the
   host's calls; `StateCorrect` is `SafetySpec => []StateOK`.

`StackPageKept`, `ModesSwitchedOnlyBy` and `ImplementsContract` are step facts
under that invariant. The refinement proof maps each action of the tick to the
action of the same name in `CpuSignals`; the one that is not immediate is
`Execute`, which needs that a BRK, the only instruction that clears `waiting`, is
not executed while waiting. Through it the safety of the contract holds of the
machine: `MachineHaltsOneWay`, `MachineWakesUpOnlyFor` and `MachineNmiIsLatched`
are the properties of `CpuSignals` under the mapping, and `RespondsInTime`
applies with `MaxBusy = 7`.

**Addresses and tables.** `StateOK` gives the ranges; the rest is arithmetic. A
sum of words and the byte-wise sum with its carry agree because the low byte
carries exactly when the page changes (`IndexingCarries`), and a taken branch
adds a signed offset as its two's complement word (`BranchesLand`). What
`OpcodeAudit` says of an entry is proved for the 256 entries in four blocks, and
for the NMOS table through the opcodes that it takes over.

**The bus.** The invariant of `ReadsReturnLastStore` says of every address that
its cell holds the value of the newest store to it, and that there is no cell
without one (`HoldsLast`). Every operation is one batch of stores that the history
takes in the order of `load()`'s cursor. `ConsoleShowsEachWrite` compares the n-th byte
shown with the n-th CPU write to the address; its invariant counts the writes,
and a write is the next in number or changes no number.

**Arithmetic.** Binary addition is one equation between the nine-bit sum, the
value and C; the signed overflow follows by cases on three signs, subtraction
as the addition of the complement. The decimal cases split the digits: the low
digit carries or not, the high one carries or not, and each of the four sums is
linear. V of a decimal sum is the overflow of the two high digits and a carry, as
signed sixteens (`SumOfSixteens`), by the same cases on signs as in binary mode.
`ModelsComputeAlike` is stated for the disagreement about the decimal results in
section 5: no operand at all tells the models' values apart.

**Frames.** `NmiEdgesAccounted` needs nothing of the instructions: its induction
is on the equation itself, with the type of the three variables it mentions. For
the other three the invariant is `FramesOK`: `StateOK`; each frame is well typed;
`sp` is in page one, unless the first reset is still to come; every frame is held
by its three cells (`FramesIntact`); each frame lies below the three bytes of the
one under it and `sp` below the youngest (`Stacked`, `WithinStack`); and `MaskOK`, which
strengthens `HandlersAreMasked`: with a frame I is set, and every frame but the oldest has I
in its *saved* status and is not an IRQ's. Without the saved status it is not
inductive, since the RTI of a nested handler restores it. Entering a handler puts
high byte, low byte and status into three different cells of the page
(`PushOfThree`, also over the wrap), and RTI from three cells below finds the
same bytes (`ReturnRestores`); that no other tick unmasks the IRQ is
`ModesSwitchedOnlyBy`. The host changes neither `sp` nor the flags.
Why a push never hits a frame is an argument about `Depth`, the distance below
`Top` counted over the wrap: a tick writes at most three cells from `sp` down,
their depths are at least that of `sp` and less than 256, and those of a frame's
cells are less than that of `sp`.

**The twin.** `Transparent` is not inductive in two ways: it says nothing while
a handler runs, and nothing of the cycles. The invariant `TwinOK` says where the
twin is at all times. While no handler runs, machine and twin have the same
registers (`Level`) and their memories agree outside the handlers' cells and the
free part of the stack (`Agree`). While handlers run, the twin has the
registers, flags, `sp` and pc of the *outermost* frame of a signal, neither waits nor
owes cycles, and the memories agree but for the handlers' cells and the stack
from that frame's `sp` down (`Outermost`, `Suspended`). The argument:

1. An instance repeats the operators of the machine for the twin; the
   lemmas at the start of the module (`SameWords` to `SameTable`) say that they
   are the same operators.
2. *Lockstep.* When both execute, the program reads only `ReadCells`, on which the
   memories agree (`Sees`), so both decode the same record but for an operand that
   a store or a jump does not use (`Alike`). Then one lemma for each group
   of instructions shows that both leave the same registers, pc and cycles and write
   the same bytes to the same cells or to the console (`Together`).
3. *A handler runs.* The twin stands still. A push writes below the outermost
   frame, a store goes to the handlers' cells, so the memories still agree.
4. *A handler is entered or left.* On entry from the program the frame holds the
   twin's registers. On the RTI that drops the outermost frame, `FramesOK` gives
   back pc, `sp` and status, where U, which RTI sets, was set before
   (`ModesSwitchedOnlyBy`), and `Apart` gives back A, X and Y.
5. *Waiting and stopping.* An interrupt ends the twin's wait with the machine's.
   The twin is stopped only if the machine is.

`Follow` conjoins steps of machine and twin, so a twin that could not move would
stop the machine and make `Transparent` cheap. `TwinIsReady` excludes that without
`ENABLED`: whenever the program executes, the twin is at the same pc, at the
start of an instruction, with nothing pending, and neither stopped nor waiting,
which are all the guards of its `Execute`.

`RespondsInTime` is inductive once it is joined with the type of the state: a
tick that leaves an interrupt waiting spends one cycle of the instruction under
way, and an instruction is not started while one is due. The entry of an NMI's
handler ends the clock of the IRQ by masking it, so nothing is proved of how long
that handler takes.

`StackImplementsLifo` rests on one fact about the wrap: the slots that a push
fills, from `sp` downwards, are those that the next pulls read, and they are
pairwise different as long as there are at most 256 (`StackPage` is injective on
256 consecutive values). The contents after a push are then the pushed bytes in
reverse before the first 256 - n of the old ones.

**Only model-checked.** The liveness properties (the prover has no `ENABLED`):
`NmiServed`, `IrqServed`, `WaitEnds`, `ResetServed`, `SignalsServed`,
`ProgramFinishes`, and with them the refinement `DeliversEachOnce`, whose safety
depends on what one program does. `FinishesOnBudget`, `ComputesResults` and
`ProgramsBehave` are statements about the programs of their runs; a proof would
be a symbolic execution of those programs. Every other property of a passing run
is stated by a theorem.

## 5. Where the code and its documents disagree

- **A stopped CPU takes interrupts** (run `stopped`). `tick()` looks at the lines
  before it looks at `stopped` (`cpu.cpp:31-43`) and `interrupt()` does not clear
  `stopped`: after STP an NMI pushes three bytes, sets I and jumps to the vector,
  and nothing of the handler runs. `cpu.h:545` says "Stops the CPU."
- **Decimal results do not depend on the model** (theorem `ModelsComputeAlike`).
  `src/README.md:193` promises "Model-specific decimal-mode `ADC`/`SBC` result, flag,
  and cycle behavior." `adc()` and `sbc()` assign the adjusted value before they
  look at the model (`cpu.cpp:872`, `cpu.cpp:1386`), so value, C and V are the same
  on both for every accumulator and operand, packed decimal or not. Only Z, N and
  the cycle are model-specific, which `DecimalFlags` and `DecimalArithmetic` state.
- **BRK takes one tick** (run `break_time`). `brk()` passes a cycle count of 0 to
  `interrupt()`, which overwrites the seven cycles of the table entry.
- **JMP (abs) takes five ticks on the 65C02** (run `indirect_jump`), while its
  test counts six; the test passes because a stopped CPU may be ticked again.

The model has the code's behaviour in each case. Other things that a reader of
the code may trip over, none of which a document contradicts:

- BRA takes at least four ticks: its entry has the three cycles of a taken branch
  and `branch_if` adds one more.
- WAI is ended by an interrupt that is *served*. With I set an IRQ does not end
  it, unlike on a real 65C02.
- BRK pushes the address of its opcode plus three: its mode `imm` skips one byte
  and `brk()` a second one.
- An interrupt does not clear D on the 65C02 model.
- Before the first reset `sp` is 0: the first push writes $0000, the pulls that
  follow read page one, so an NMI that comes before the reset cannot return.

## 6. What is not modelled

- `main.cpp`, the build files and `version.h`: no state. The same holds of the
  version test in `bus_test.cpp`, and of how `asm65_console_test.cpp` reads a file.
- A `load` of more than 65536 bytes, which would wrap onto itself.
- The formatting of console output: the console is the sequence of its bytes.
- A callback that calls `tick()` or writes to the bus while it runs. Nothing in
  the repository does.
- Threads: the classes have no synchronisation and the repository uses none.

## 7. Plan

Done: the words, the arithmetic, the tables, the bus, the stack, the CPU, the
machine with its contract and its response times, the interrupt history, the
undisturbed twin, a device, the reference for addresses, and all programs of the
repository; the runs above; and a theorem for every safety property of the runs
but those about the programs of one run.

Next, proving more:

1. The twin under a host that loads or resets: a load into both memories, outside
   the area of the stack, and a reset that abandons a handler.
2. The response time on the machine itself, with the clocks of `ResponseTime`
   under the mapping of the contract.
3. The safety half of `Delivery` for any handler that reads the mailbox once and
   prints once.
