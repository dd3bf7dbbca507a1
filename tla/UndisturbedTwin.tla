--------------------------- MODULE UndisturbedTwin ---------------------------
(***************************************************************************)
(* A machine beside its twin: a second CPU with a RAM of its own that runs *)
(* the same program and that no interrupt reaches.  The twin takes its     *)
(* steps when the program of the machine does, and stands still while a    *)
(* handler of the machine runs.  What the host must be able to rely on is  *)
(* that the two never differ when no handler is running.                   *)
(***************************************************************************)
EXTENDS InterruptFrames

CONSTANT HandlerCells   \* the cells that the handlers may write

ASSUME TwinAssumption == HandlerCells \subseteq Word

VARIABLES
    t_nmi_pending, t_irq_line,   \* the lines of the twin, which stay low
    t_memory, t_output, t_reg, t_reg_f, t_sp, t_pc, t_opcode, t_addr_abs, t_addr_rel,
    t_cycles, t_stopped, t_waiting

twinModes == <<t_stopped, t_waiting>>
twinRest  == <<t_nmi_pending, t_irq_line, t_memory, t_output, t_reg, t_reg_f, t_sp, t_pc,
               t_opcode, t_addr_abs, t_addr_rel, t_cycles>>
twinVars  == <<allVars, twinRest, twinModes>>

\* The twin shares the reset line.
Twin == INSTANCE Cpu WITH
    nmi_pending <- t_nmi_pending, irq_line <- t_irq_line,
    memory <- t_memory, output <- t_output, reg <- t_reg, reg_f <- t_reg_f, sp <- t_sp,
    pc <- t_pc, opcode <- t_opcode, addr_abs <- t_addr_abs, addr_rel <- t_addr_rel,
    cycles <- t_cycles, stopped <- t_stopped, waiting <- t_waiting

InHandler == \E i \in 1 .. Len(frames) : frames[i].kind # "brk"

\* What the twin does beside a tick of the machine.  An interrupt ends its wait
\* as it ends the machine's, and is not served otherwise.
Follow ==
    \/ ServeReset /\ Twin!ServeReset
    \/ CountDown /\ IF t_cycles > 0 THEN Twin!CountDown ELSE UNCHANGED <<twinRest, twinModes>>
    \/ (ServeNmi \/ ServeIrq) /\ t_waiting' = FALSE /\ UNCHANGED <<twinRest, t_stopped>>
    \/ Idle /\ UNCHANGED <<twinRest, twinModes>>
    \/ Execute /\ IF InHandler THEN UNCHANGED <<twinRest, twinModes>> ELSE Twin!Execute

TwinInit ==
    /\ FramesInit
    /\ t_nmi_pending = FALSE /\ t_irq_line = FALSE
    /\ t_memory = memory /\ t_output = output
    /\ Twin!CpuInit

TwinClock == Follow /\ Remember /\ UNCHANGED calls_left
TwinHost  == FramesHost /\ UNCHANGED <<twinRest, twinModes>>

TwinSpec == TwinInit /\ [][TwinClock \/ TwinHost]_twinVars

-----------------------------------------------------------------------------
\* The cells of the stack's area below the stack pointer, which pushes overwrite.
BelowStack == {StackPage(Top - i) : i \in Depth(sp) .. Reach - 1}

\* Interrupts leave no trace: whenever no handler of an NMI or an IRQ is
\* running, the registers, the flags, the stack pointer, the pc, the RAM but
\* for the handlers' own cells and what lies below the stack pointer, and the
\* console hold what they would hold had no interrupt come.
Transparent ==
    ~InHandler =>
        /\ <<reg, reg_f, sp, pc, stopped, waiting>>
               = <<t_reg, t_reg_f, t_sp, t_pc, t_stopped, t_waiting>>
        /\ output = t_output
        /\ \A a \in (DOMAIN memory \cup DOMAIN t_memory) \ (HandlerCells \cup BelowStack) :
               Read(a) = Twin!Read(a)

-----------------------------------------------------------------------------
(***************************************************************************)
(* What a program and its handlers must keep to, for an interrupt to leave *)
(* no trace.                                                               *)
(***************************************************************************)
PullCount == [PLA |-> 1, PLX |-> 1, PLY |-> 1, PLP |-> 1, RTS |-> 2, RTI |-> 3]

\* The cells of the pointer that an indirect mode reads.
PointerCells(mode) ==
    CASE mode = "ind" ->
             {Arg16, IF model = "nmos6502" /\ Low(Arg16) = 255 THEN Arg16 - 255 ELSE Wrap16(Arg16 + 1)}
      [] mode = "iax" -> {Wrap16(Arg16 + reg["x"]), Wrap16(Wrap16(Arg16 + reg["x"]) + 1)}
      [] mode = "izx" -> {Wrap8(Arg + reg["x"]), Wrap8(Wrap8(Arg + reg["x"]) + 1)}
      [] mode \in {"izy", "zpi"} -> {Arg, Wrap8(Arg + 1)}
      [] OTHER -> {}

\* The cells that the next instruction reads.
ReadCells ==
    LET d == Decoded
    IN  {Wrap16(pc + i) : i \in 0 .. Length(d.mode) - 1}
        \cup PointerCells(d.mode)
        \cup (IF d.mode \in {"imp", "acc", "rel"} \/ d.op \in DOMAIN StoreOp \cup {"JMP", "JSR"}
                THEN {} ELSE {d.at})
        \cup (IF d.op \in DOMAIN PullCount THEN {StackPage(sp + i) : i \in 1 .. PullCount[d.op]} ELSE {})
        \cup (IF d.op = "BRK" THEN {IrqVector, IrqVector + 1} ELSE {})

Executing == NoInterrupt /\ ~stopped /\ ~waiting

\* The program reads neither the handlers' cells nor below its stack pointer, and
\* a TXS of its own gives no bytes up; a handler stores into its own cells, prints
\* nothing, and hands A, X and Y back as it found them.
Apart ==
    /\ Executing /\ ~InHandler => ReadCells \cap (HandlerCells \cup BelowStack) = {}
    /\ Executes({"TXS"}) /\ ~InHandler => Depth(sp') <= Depth(sp)
    /\ InHandler => \A a \in {Decoded.at} : Stores(a) => a \in HandlerCells \ {output_addr}
    /\ Executes({"RTI"}) /\ Youngest.kind # "brk" => reg = Youngest.reg

\* The program of the machine and its handlers behave and are kept apart, at
\* whichever tick an interrupt comes and whatever nests.
ProgramsBehave == [][Behaves /\ Apart]_twinVars
=============================================================================
