------------------------------ MODULE Addressing ------------------------------
(***************************************************************************)
(* The 6502 forms an address in two bytes: it adds to the low one and lets *)
(* the carry or the borrow into the high one, in a cycle of its own.  The  *)
(* code adds 16-bit words, sign-extends, casts, and compares pages         *)
(* afterwards.  Here the first is the reference for the second.            *)
(***************************************************************************)
EXTENDS Machine

\* The word whose low byte has n added to it, -128 <= n <= 255, and whether
\* that carries or borrows.
Carried(w, n) ==
    LET low == Low(w) + n
    IN  [at      |-> Pair(Wrap8(low), Wrap8(High(w) + (low \div 256))),
         crosses |-> low \notin Byte]

Signed(b) == IF b < 128 THEN b ELSE b - 256

IndexOf == [abx |-> "x", aby |-> "y", izy |-> "y"]

Branches == DOMAIN BranchOp \cup {"BRA", "BBR", "BBS"}

-----------------------------------------------------------------------------
\* Whatever the base, the index and the place in memory, an indexed mode finds
\* the cell that the byte-wise sum addresses, wraps from $FFFF to $0000, and
\* charges its extra cycle exactly when the low byte carries.
IndexedAddresses ==
    \A mode \in DOMAIN IndexOf :
        LET c == Carried(Base(mode), reg[IndexOf[mode]])
        IN  /\ EffectiveAddress(mode) = c.at
            /\ PageCross(mode) = IF c.crosses THEN 1 ELSE 0

\* A branch goes on behind itself in the time of its entry, or to a target from
\* 128 bytes before to 127 bytes behind that address, wrapped, for one cycle
\* more, and for two exactly when the low byte carries or borrows.
BranchTargets ==
    [][ Executes(Branches) /\ UNCHANGED calls_left =>
            LET inst == table[model][Read(pc)]
                next == Wrap16(pc + Length(inst.mode))
                c    == Carried(next, Signed(Read(Wrap16(next - 1))))
            IN  \/ pc' = next /\ cycles' = inst.cycles - 1
                \/ pc' = c.at /\ cycles' = inst.cycles + (IF c.crosses THEN 1 ELSE 0) ]_machineVars
=============================================================================
