------------------------------ MODULE MC_stack ------------------------------
(***************************************************************************)
(* An empty stack after a reset, and stacks with two bytes, or one byte    *)
(* short of full, whose sp is about to wrap, down or up.                   *)
(***************************************************************************)
EXTENDS StackHost

\* Page one before the run; a cell differs from its neighbours.
Filled == [a \in PageOne |-> 17 * (a % 3)]

StacksToTry ==
    {[sp |-> 509, depth |-> 0, memory |-> Filled]}
    \cup {[sp |-> p, depth |-> k, memory |-> Filled] : p \in {256, 257, 510, 511}, k \in {2, 255}}
=============================================================================
