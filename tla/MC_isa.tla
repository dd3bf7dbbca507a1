------------------------------- MODULE MC_isa -------------------------------
(***************************************************************************)
(* What every program may rely on: every opcode of both models, with       *)
(* operands and registers at their boundaries, and a clock that runs       *)
(* before the first reset.                                                 *)
(***************************************************************************)
EXTENDS Addressing, OpcodeAudit, TLC

Seed(a, x, y, f, s, arg1, arg2) ==
    [a |-> a, x |-> x, y |-> y, f |-> f, s |-> s, args |-> <<arg1, arg2>>]

\* Carry and decimal on with the stack at its end; a branch into the next page.
\* Indexes that wrap page zero; a pointer at $FF; all status bits, B included;
\* a branch that carries into its next page and one that borrows.
Seeds == {
    Seed(153, 255, 1, 9, 0, 255, 1),
    Seed(0, 1, 255, 0, 255, 128, 127),
    Seed(127, 128, 128, 255, 1, 255, 255),
    Seed(1, 200, 0, 65, 255, 127, 128) }

\* A program sets the registers through ordinary instructions (LDX, TXS, LDA,
\* PHA, PLP, LDA, LDX, LDY), then executes the opcode under test at $80FD, whose
\* last operand byte ends its page.  Wherever that leads, the CPU runs into STP
\* (which is KIL on the NMOS part), or through a BRK of zeroed RAM into the
\* handler, which is another STP.
Program(o, s) ==
    LoadCells(32768, <<162, s.s, 154, 169, s.f, 72, 40, 169, s.a, 162, s.x, 160, s.y,
                       76, 253, 128>>)                                     \* JMP $80FD
    @@ LoadCells(33021, <<o>> \o s.args \o <<219, 219>>)                  \* o, args, STP
    @@ LoadCells(0, <<64, 2, 129>>) @@ LoadCells(126, <<255, 128, 1, 15>>)
    @@ LoadCells(254, <<3, 240>>) @@ LoadCells(509, <<255, 144, 129>>)
    @@ VectorCells(ResetVector, 32768) @@ VectorCells(IrqVector, 36864)
    @@ LoadCells(36864, <<219>>)

NoCalls == [c \in Call |-> 0]

Tests == [image : {Program(o, s) : o \in Byte, s \in Seeds}, reset : {TRUE}, calls : {NoCalls}]

-----------------------------------------------------------------------------
\* A clock that runs before the host asserts reset, with every line moving and a
\* block loaded over the vectors and the program.  The CPU starts at $0000 with
\* sp = $0000, in a program that pushes first (over its own opcode), pulls
\* first, or calls.
PowerOn == {<<72, 8, 40, 104, 219>>, <<104, 40, 72, 8, 219>>, <<32, 6, 0, 154, 72, 219, 64>>}

\* The handlers of all vectors, and the program that a reset starts:
\* 8000 TSX / PHA / JSR 8010 / PLA / STP, 8010 NOP / RTS, 9000 RTI.
Handlers ==
    LoadCells(32768, <<186, 72, 32, 16, 128, 104, 219>>) @@ LoadCells(32784, <<234, 96>>)
    @@ LoadCells(36864, <<64>>)
    @@ VectorCells(ResetVector, 32768) @@ VectorCells(NmiVector, 36864)
    @@ VectorCells(IrqVector, 36864)

EachOnce == [c \in Call |-> 1]

Unreset ==
    [image : {LoadCells(0, p) @@ Handlers : p \in PowerOn}, reset : {FALSE}, calls : {EachOnce}]

\* New targets of the vectors at $FFFC and $FFFE, and over the wrap NOP / STP.
Blocks == {[addr |-> ResetVector, bytes |-> <<0, 128, 0, 144, 234, 219>>]}

Starts == Tests \cup Unreset
=============================================================================
