------------------------------ MODULE ExampleRun ------------------------------
(***************************************************************************)
(* A machine that runs a program for a number of ticks, as the examples    *)
(* and the tests of the repository do.  A member of Suite has the model,   *)
(* the RAM image, the line calls that the host makes and after how many    *)
(* ticks, its end (AtStop, or a pc and the cycles that may be owed there), *)
(* the budget of ticks after the one that serves the reset, whether that   *)
(* budget is exact, the checks of RAM cells and the console output.        *)
(***************************************************************************)
EXTENDS Machine

CONSTANT Suite

VARIABLES program, elapsed   \* the member that runs, and its ticks so far

runVars == <<machineVars, program, elapsed>>

\* The end of a program that executes STP (or KIL) and spends its cycles.
AtStop == -1

Done ==
    /\ ~reset_pending
    /\ IF program.end = AtStop THEN stopped /\ cycles = 0
                               ELSE pc = program.end /\ cycles <= program.owed

\* The ticks are over.  A program with more than it needs is cut at its end.
Over == elapsed = program.budget \/ (Done /\ ~program.exact)

\* A program starts with the reset asserted, and makes each of its calls once.
SetupOf(p) == [image |-> p.image, reset |-> TRUE,
               calls |-> [c \in Call |-> IF c \in DOMAIN p.calls THEN 1 ELSE 0]]

RunInit ==
    /\ Init
    /\ program \in Suite
    /\ memory = program.image /\ calls_left = SetupOf(program).calls
    /\ model = program.model
    /\ elapsed = 0

CallIsDue ==
    /\ ~reset_pending
    /\ \E c \in DOMAIN program.calls : program.calls[c] = elapsed /\ calls_left[c] > 0

RunCall == CallIsDue /\ Host /\ UNCHANGED <<program, elapsed>>

RunTick ==
    /\ ~CallIsDue
    /\ ~Over
    /\ Clock
    /\ elapsed' = IF reset_pending THEN 0 ELSE elapsed + 1
    /\ program' = program

RunSpec == RunInit /\ [][RunCall \/ RunTick]_runVars

-----------------------------------------------------------------------------
\* A program comes to its end in exactly its budget, not a tick before: the sum
\* of the cycle counts that the examples and tests give for its instructions,
\* loops, page crossings and decimal additions included.
FinishesOnBudget ==
    IF program.exact THEN Done <=> elapsed = program.budget ELSE Over => Done

\* The RAM cells and the console hold what the repository expects, at the tick
\* at which it looks at them.
ComputesResults ==
    /\ \A c \in program.checks :
           elapsed = c.tick \/ (c.tick = program.budget /\ Over) => Read(c.at) \in c.allowed
    /\ Over => output = program.output
=============================================================================
