-------------------------------- MODULE Stack --------------------------------
(***************************************************************************)
(* push() and pull() of the CPU, which keep the 6502's stack in page one.  *)
(* push() writes at sp, wherever that is, and then forces sp into page     *)
(* one; pull() forces it first.  They differ on an sp of 0, the value      *)
(* before the first reset.                                                 *)
(***************************************************************************)
EXTENDS Bus

VARIABLE sp

StackPage(n) == 256 + Wrap8(n)

PushSlot(i) == IF i = 1 THEN sp ELSE StackPage(sp - (i - 1))

\* The cells that push() of each of the bytes writes, in order.
PushCells(bytes) ==
    [a \in {PushSlot(i) : i \in 1 .. Len(bytes)} |->
        bytes[CHOOSE i \in 1 .. Len(bytes) : a = PushSlot(i)]]

\* A mutant of Push: sp is counted down and not forced into page one.
PushUnforced(bytes) == Write(PushCells(bytes)) /\ sp' = Wrap16(sp - Len(bytes))

Push(bytes) == Write(PushCells(bytes)) /\ sp' = StackPage(sp - Len(bytes))

\* A mutant of Pulled: sp is not forced into page one before the read.
PulledUnforced(i) == Read(Wrap16(sp + i))

Pulled(i) == Read(StackPage(sp + i))
Pull(n)   == Quiet /\ sp' = StackPage(sp + n)
=============================================================================
