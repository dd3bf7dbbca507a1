------------------------------- MODULE Machine -------------------------------
(***************************************************************************)
(* A machine built with cpp65: a bus, a CPU connected to it, and a host    *)
(* that loads a program, asserts reset and then calls tick() from its      *)
(* clock loop, moving the signal lines and storing into the RAM between    *)
(* two ticks as it likes.                                                  *)
(***************************************************************************)
EXTENDS Cpu

Call == {"reset", "nmi", "irq", "clear_irq", "load"}

CONSTANTS
    Setups,   \* what a host may start with: the RAM image it loaded, whether it asserted
              \* reset and, as a bound, how often it calls each operation of the bus later
    Loads     \* the blocks, as records of addr and bytes, that it may load between ticks

ASSUME MachineAssumption ==
    /\ \A s \in Setups : /\ DOMAIN s.image \subseteq Word /\ s.image \in [DOMAIN s.image -> Byte]
                         /\ s.reset \in BOOLEAN
                         /\ s.calls \in [Call -> Nat]
    /\ \A l \in Loads : l.addr \in Word /\ l.bytes \in Seq(Byte) /\ Len(l.bytes) <= 65536

VARIABLE calls_left   \* what is left of the budget

machineVars == <<vars, calls_left>>

Init ==
    /\ \E s \in Setups : memory = s.image /\ reset_pending = s.reset /\ calls_left = s.calls
    /\ nmi_pending = FALSE
    /\ irq_line = FALSE
    /\ output = <<>>
    /\ CpuInit

Clock == Tick /\ UNCHANGED calls_left

HostCalls(c) ==
    /\ calls_left[c] > 0
    /\ calls_left' = [calls_left EXCEPT ![c] = @ - 1]
    /\ UNCHANGED cpuVars

Host ==
    \/ HostCalls("reset") /\ Reset
    \/ HostCalls("nmi") /\ Nmi
    \/ HostCalls("irq") /\ Irq
    \/ HostCalls("clear_irq") /\ ClearIrq
    \/ HostCalls("load") /\ \E l \in Loads : Load(l.addr, l.bytes)   \* or poke, or set_*_vector

Next == Clock \/ Host

\* The clock loop never stops calling tick().
SafetySpec == Init /\ [][Next]_machineVars
Spec       == SafetySpec /\ WF_machineVars(Clock)

-----------------------------------------------------------------------------
\* The next tick executes an instruction, and its operation is one of ops.
Executes(ops) == NoInterrupt /\ ~stopped /\ ~waiting /\ table[model][Read(pc)].op \in ops

\* Every member holds a value of its C++ type.  The cycles of a size_t never
\* exceed the seven that entering an NMI handler leaves.
TypeOK ==
    /\ BusTypeOK
    /\ reg \in [{"a", "x", "y"} -> Byte]
    /\ reg_f \subseteq Flag
    /\ sp \in Word /\ pc \in Word /\ addr_abs \in Word /\ addr_rel \in Word
    /\ opcode \in Byte
    /\ cycles \in 0 .. 7
    /\ stopped \in BOOLEAN /\ waiting \in BOOLEAN
    /\ model \in Models

\* The B flag exists only in pushed copies of the status: no pull, no
\* interrupt and no program ever sets it in the register.
BreakFlagClear == "B" \notin reg_f

\* Before the first reset sp is 0, and the first push lands in $0000.  From the
\* first reset, push or TXS on, no push, pull, nesting or wrap leaves page one.
StackStaysInPageOne ==
    [][(sp \in 256 .. 511 \/ sp' # sp) => (sp' \in 256 .. 511)]_machineVars

\* The control contract, with the program's effect on I and on the timing as
\* the abstract choice.
Signals == INSTANCE CpuSignals WITH
    MaxBusy <- 7, masked <- ("I" \in reg_f), busy <- cycles

ControlContract == Signals!SafetySpec
=============================================================================
