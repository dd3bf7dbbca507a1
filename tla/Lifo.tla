--------------------------------- MODULE Lifo ---------------------------------
(***************************************************************************)
(* What a stack in one page of RAM promises: the bytes come back newest    *)
(* first, and when it is full the oldest ones are lost, never a newer one. *)
(* Several bytes are pushed or pulled at a time, as an interrupt, a call   *)
(* and their returns do.  StackHost implements this specification.         *)
(***************************************************************************)
EXTENDS Integers, Sequences

CONSTANTS
    Item,
    Capacity,   \* how many items the stack keeps
    Burst       \* the most that are pushed or pulled at a time, at most Capacity

VARIABLES
    contents,   \* the items, newest first
    pulled      \* what the last pull returned, in its order

vars == <<contents, pulled>>

Kept(n) == IF n > Capacity THEN Capacity ELSE n

Init == contents \in Seq(Item) /\ Len(contents) <= Capacity /\ pulled = <<>>

Push(items) ==
    /\ contents' = [i \in 1 .. Kept(Len(items) + Len(contents)) |->
                       IF i <= Len(items) THEN items[Len(items) - i + 1]
                                          ELSE contents[i - Len(items)]]
    /\ pulled' = pulled

Pull(n) ==
    /\ n <= Len(contents)
    /\ pulled' = [i \in 1 .. n |-> contents[i]]
    /\ contents' = [i \in 1 .. Len(contents) - n |-> contents[n + i]]

Next == \E n \in 1 .. Burst : Pull(n) \/ \E items \in [1 .. n -> Item] : Push(items)

Spec == Init /\ [][Next]_vars
=============================================================================
