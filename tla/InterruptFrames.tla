--------------------------- MODULE InterruptFrames ---------------------------
(***************************************************************************)
(* The machine with a record of what each interrupt interrupted.  frames   *)
(* and entered are history: no tick depends on them.  A frame is added     *)
(* when an NMI, an IRQ or a BRK enters its handler, and the youngest one   *)
(* is dropped when an RTI returns, so that the properties can say what the *)
(* handlers must find on the stack and what the interrupted program must   *)
(* find when it goes on.                                                   *)
(***************************************************************************)
EXTENDS Machine, FiniteSets

CONSTANTS
    Finish,   \* the address at which the program loops when it is done
    Top,      \* where the stack of the program starts
    Reach     \* how many bytes from there downwards it and its handlers keep in use

\* A tick pushes at most three bytes, and they must not reach Top again.
ASSUME StackAssumption == Top \in 256 .. 511 /\ Reach \in 3 .. 252

VARIABLES
    frames,      \* what was interrupted, the youngest last
    edges,       \* how many calls of nmi() found no NMI pending
    entered      \* how many NMI handlers were entered

allVars == <<machineVars, frames, edges, entered>>

-----------------------------------------------------------------------------
NmiEntry == Boundary /\ nmi_pending
IrqEntry == Boundary /\ ~nmi_pending /\ IrqEnabled
BrkEntry == Executes({"BRK"})

\* Where the interrupted program goes on: BRK skips its two padding bytes.
Resume == IF BrkEntry THEN Wrap16(pc + 3) ELSE pc

Frame(kind) == [kind |-> kind, pc |-> Resume, status |-> reg_f, sp |-> sp, reg |-> reg]

Youngest == frames[Len(frames)]

Remember ==
    /\ frames' = CASE reset_pending -> <<>>
                   [] NmiEntry -> Append(frames, Frame("nmi"))
                   [] IrqEntry -> Append(frames, Frame("irq"))
                   [] BrkEntry -> Append(frames, Frame("brk"))
                   [] Executes({"RTI"}) -> SubSeq(frames, 1, Len(frames) - 1)
                   [] OTHER -> frames
    /\ entered' = IF NmiEntry THEN entered + 1 ELSE entered
    /\ edges' = edges

FramesInit  == Init /\ frames = <<>> /\ edges = 0 /\ entered = 0
FramesClock == Clock /\ Remember
FramesHost  ==
    /\ Host
    /\ edges' = IF nmi_pending' /\ ~nmi_pending THEN edges + 1 ELSE edges
    /\ UNCHANGED <<frames, entered>>
FramesNext  == FramesClock \/ FramesHost

FramesSafetySpec == FramesInit /\ [][FramesNext]_allVars
FramesSpec       == FramesSafetySpec /\ WF_allVars(FramesClock)

-----------------------------------------------------------------------------
\* The three bytes that interrupt() pushed for a frame are still on the stack:
\* the return address, and the status with U set and B telling a BRK from a signal.
Held(fr) ==
    /\ Read(fr.sp) = High(fr.pc)
    /\ Read(StackPage(fr.sp - 1)) = Low(fr.pc)
    /\ FlagsOf(Read(StackPage(fr.sp - 2)))
           = (fr.status \cup {"U"}) \cup (IF fr.kind = "brk" THEN {"B"} ELSE {})

\* While its handler runs, and whatever nests in it, the three bytes of every
\* frame stay on the stack as interrupt() pushed them.
FramesIntact == \A i \in 1 .. Len(frames) : Held(frames[i])

\* A program that is interrupted goes on as if nothing had happened: the RTI of
\* a handler restores the pc, the stack pointer and every flag, D and the
\* interrupt mask among them, whatever the handler and nested handlers did.
RtiRestores ==
    [][ Executes({"RTI"}) /\ UNCHANGED calls_left =>
            /\ pc' = Youngest.pc
            /\ reg_f' = Youngest.status \cup {"U"}
            /\ sp' = Youngest.sp ]_allVars

\* A held IRQ line does not re-enter its handler: while any handler runs that
\* does not clear I itself, I is set, so no IRQ is entered and at most one IRQ
\* frame is live.  NMIs and BRKs may nest in it, and it in none of them.
HandlersAreMasked ==
    /\ frames # <<>> => "I" \in reg_f
    /\ Cardinality({i \in 1 .. Len(frames) : frames[i].kind = "irq"}) <= 1

\* No NMI is lost and none is served twice: each edge is pending or was
\* entered, over busy cycles, stopped and waiting CPUs, resets and other NMIs.
NmiEdgesServedOnce == edges = entered + (IF nmi_pending THEN 1 ELSE 0)

\* The program comes to its end, or to a WAI or STP that nothing ends: a wait that
\* is ended is not the end of it.  Excepted is an IRQ line that is held for ever:
\* then its handler is entered again after each RTI, before the next instruction
\* of the program.
ProgramFinishes ==
    <>[]~irq_line => <>(pc = Finish) \/ <>[](waiting \/ stopped)

\* The machine, with its real instructions and their durations, owes its host
\* what the contract promises: a pending NMI and an enabled IRQ are entered,
\* and a wait ends, also behind STP, WAI and the cycles of another handler.
SignalsServed == Signals!NmiServed /\ Signals!IrqServed /\ Signals!WaitEnds

-----------------------------------------------------------------------------
(***************************************************************************)
(* What interrupt() and RTI promise, they promise to handlers that keep to *)
(* their side: a handler does not unmask the IRQ, pulls nothing that it    *)
(* did not push, returns with its frame on top of the stack, and nothing   *)
(* is stored by address, or loaded by the host, over a frame.  That        *)
(* pushes, and the frames of whatever nests, stay clear of the frames is   *)
(* not asked of them.                                                      *)
(***************************************************************************)
\* How far below Top a cell of the stack is, counted over the wrap.
Depth(p) == (Top - p) % 256

CellsOf(fr) == {fr.sp, StackPage(fr.sp - 1), StackPage(fr.sp - 2)}

\* The stack is in its area, and what runs in a handler is below the handler's frame.
WithinStack ==
    /\ ~reset_pending => Depth(sp) <= Reach
    /\ frames # <<>> => Depth(Youngest.sp) + 3 <= Depth(sp)

Unmasks == frames # <<>> /\ Executes({"CLI", "PLP"}) /\ "I" \notin reg_f'

StoreOps == DOMAIN StoreOp \cup {"ASL", "LSR", "ROL", "ROR", "INC", "DEC", "RMB", "SMB", "TRB", "TSB"}

\* The instruction that the next tick executes stores at the address a.
Stores(a) == Executes(StoreOps) /\ ~OnAccumulator(Decoded) /\ a = Decoded.at

Behaves ==
    /\ ~Unmasks
    /\ WithinStack'
    /\ Executes({"RTI"}) => frames # <<>> /\ sp = StackPage(Youngest.sp - 3)
    /\ \A i \in 1 .. Len(frames) : \A a \in CellsOf(frames[i]) :
           ~Stores(a) /\ (calls_left' # calls_left => Read(a)' = Read(a))

\* The handlers of a program behave, whatever nests in them and at whichever tick
\* they are entered: their pushes and pulls pair up, also over the wrap of the
\* stack, which stays in its area, and no store hits a frame that waits for its RTI.
HandlersBehave == [][Behaves]_allVars
=============================================================================
