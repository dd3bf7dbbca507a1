------------------------------ MODULE StackHost ------------------------------
(***************************************************************************)
(* A program and its interrupts, seen from the stack: they push and pull   *)
(* one to three bytes at a time, as PHA, JSR, BRK, an NMI and their        *)
(* counterparts do, and pull no more than was pushed.                      *)
(***************************************************************************)
EXTENDS Stack

CONSTANTS
    Bytes,      \* the bytes that are pushed
    Burst,      \* the most that are pushed or pulled at a time
    Starts,     \* stacks to begin with: records of an sp, a RAM and a depth
    MaxSteps    \* a bound on the pushes and pulls of a run

PageOne == 256 .. 511

ASSUME StackHostAssumption ==
    /\ output_addr \notin PageOne
    /\ Bytes \subseteq Byte
    /\ Burst \in 1 .. 256
    /\ MaxSteps \in Nat
    /\ \A s \in Starts :
           /\ s.sp \in PageOne /\ s.depth \in 0 .. 256
           /\ PageOne \subseteq DOMAIN s.memory /\ s.memory \in [DOMAIN s.memory -> Bytes]

VARIABLES
    depth,    \* how many of the pushed bytes page one still holds
    pulled,   \* what the last pull returned, in its order
    steps

stackVars == <<lineVars, dataVars, sp, depth, pulled, steps>>

StackInit ==
    /\ \E s \in Starts : sp = s.sp /\ memory = s.memory /\ depth = s.depth
    /\ reset_pending = FALSE /\ nmi_pending = FALSE /\ irq_line = FALSE
    /\ output = <<>>
    /\ pulled = <<>>
    /\ steps = 0

PushSome(bytes) ==
    /\ Push(bytes)
    /\ depth' = IF depth + Len(bytes) > 256 THEN 256 ELSE depth + Len(bytes)
    /\ pulled' = pulled

PullSome(n) ==
    /\ n <= depth
    /\ Pull(n)
    /\ depth' = depth - n
    /\ pulled' = [i \in 1 .. n |-> Pulled(i)]

StackNext ==
    /\ steps < MaxSteps
    /\ steps' = steps + 1
    /\ \E n \in 1 .. Burst : PullSome(n) \/ \E bytes \in [1 .. n -> Bytes] : PushSome(bytes)
    /\ UNCHANGED lineVars

StackSpec == StackInit /\ [][StackNext]_stackVars

-----------------------------------------------------------------------------
\* sp is in page one, which holds bytes that can be pushed.
StackTypeOK ==
    /\ sp \in PageOne
    /\ depth \in 0 .. 256
    /\ PageOne \subseteq DOMAIN memory /\ memory \in [DOMAIN memory -> Bytes]

\* What the pulls to come would return.
Contents == [i \in 1 .. depth |-> Pulled(i)]

AsLifo == INSTANCE Lifo WITH
    Item <- Bytes, Capacity <- 256, contents <- Contents

\* Bytes come back newest first although sp wraps within page one in the middle
\* of a call, an interrupt or a return, and a stack that is full loses only its
\* oldest bytes: each push() and pull() agree on their cell at every sp.
StackIsLifo == AsLifo!Spec
=============================================================================
