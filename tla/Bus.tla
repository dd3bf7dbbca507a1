--------------------------------- MODULE Bus ---------------------------------
(***************************************************************************)
(* The bus of cpp65: the three signal lines of Bus, the 64 KiB of RamBus   *)
(* and the memory-mapped console of PutCharBus.  A machine drives it from  *)
(* two sides.  The host asserts lines, loads programs and pokes RAM; the   *)
(* CPU reads, writes and consumes the lines.                               *)
(***************************************************************************)
EXTENDS MachineWords, Sequences

CONSTANT output_addr   \* the console of a PutCharBus, or NoConsole for a RamBus

NoConsole == -1

ASSUME OutputAddrAssumption == output_addr \in Word \cup {NoConsole}

VARIABLES
    reset_pending,   \* set by reset(), cleared by consume_reset()
    nmi_pending,     \* set by nmi(), cleared by consume_nmi()
    irq_line,        \* a level: irq() raises it, clear_irq() drops it
    memory,          \* the cells of the RAM that were ever stored to; others hold 0
    output           \* the bytes given to the console, oldest first

lineVars == <<reset_pending, nmi_pending, irq_line>>
dataVars == <<memory, output>>

-----------------------------------------------------------------------------
Read(a) == IF a \in DOMAIN memory THEN memory[a] ELSE 0

\* A little-endian word; the address of its high byte wraps at 2^16.
Read16(a) == Pair(Read(a), Read(Wrap16(a + 1)))

\* RAM m after the cells, a function from addresses to bytes, are stored.
Stored(m, cells) ==
    [a \in DOMAIN m \cup DOMAIN cells |-> IF a \in DOMAIN cells THEN cells[a] ELSE m[a]]

\* A mutant of Write: a byte for the console goes on to the RAM.
WriteThrough(cells) ==
    /\ memory' = Stored(memory, cells)
    /\ output' = IF output_addr \in DOMAIN cells
                 THEN Append(output, cells[output_addr]) ELSE output

\* Bus writes of one tick, at pairwise different addresses.
Write(cells) ==
    /\ memory' = Stored(memory, [a \in DOMAIN cells \ {output_addr} |-> cells[a]])
    /\ output' = IF output_addr \in DOMAIN cells
                 THEN Append(output, cells[output_addr]) ELSE output

\* Nothing is written.
Quiet == UNCHANGED dataVars

\* A mutant of LoadCells: the cursor does not wrap.
LoadCellsUnwrapped(addr, bytes) ==
    [a \in addr .. addr + Len(bytes) - 1 |-> bytes[a - addr + 1]]

\* load: the cells of at most 2^16 bytes from addr on, with a 16-bit cursor.
LoadCells(addr, bytes) ==
    [a \in {Wrap16(addr + i - 1) : i \in 1 .. Len(bytes)} |-> bytes[Wrap16(a - addr) + 1]]

VectorCells(vector, target) == LoadCells(vector, <<Low(target), High(target)>>)

ResetVector == 65532   \* $FFFC
NmiVector   == 65530   \* $FFFA
IrqVector   == 65534   \* $FFFE, shared with BRK

-----------------------------------------------------------------------------
\* The power-on bus; the lines and the RAM are value-initialised.
BusInit ==
    /\ reset_pending = FALSE
    /\ nmi_pending = FALSE
    /\ irq_line = FALSE
    /\ memory = <<>>
    /\ output = <<>>

\* A mutant of ClearIrq: the line is a latch, which the host cannot drop.
ClearIrqLatched == UNCHANGED <<lineVars, dataVars>>

\* The host's side of the lines.
Reset    == reset_pending' = TRUE /\ UNCHANGED <<nmi_pending, irq_line, dataVars>>
Nmi      == nmi_pending' = TRUE /\ UNCHANGED <<reset_pending, irq_line, dataVars>>
Irq      == irq_line' = TRUE /\ UNCHANGED <<reset_pending, nmi_pending, dataVars>>
ClearIrq == irq_line' = FALSE /\ UNCHANGED <<reset_pending, nmi_pending, dataVars>>

\* A mutant of Load: the bytes are written over the bus.
LoadOverBus(addr, bytes) == Write(LoadCells(addr, bytes)) /\ UNCHANGED lineVars

\* The host's side of the RAM, which bypasses the console.
Load(addr, bytes)         == memory' = Stored(memory, LoadCells(addr, bytes))
                             /\ UNCHANGED <<lineVars, output>>
Poke(addr, value)         == Load(addr, <<value>>)
SetVector(vector, target) == memory' = Stored(memory, VectorCells(vector, target))
                             /\ UNCHANGED <<lineVars, output>>

\* The CPU's side of the lines; a consumer learns whether the line was set.
consume_reset == reset_pending' = FALSE /\ UNCHANGED <<nmi_pending, irq_line>>
\* A mutant of consume_nmi: the line is only looked at.
consume_nmi_level == UNCHANGED lineVars

consume_nmi   == nmi_pending' = FALSE /\ UNCHANGED <<reset_pending, irq_line>>

BusTypeOK ==
    /\ reset_pending \in BOOLEAN /\ nmi_pending \in BOOLEAN /\ irq_line \in BOOLEAN
    /\ DOMAIN memory \subseteq Word
    /\ memory \in [DOMAIN memory -> Byte]
    /\ output \in Seq(Byte)
=============================================================================
