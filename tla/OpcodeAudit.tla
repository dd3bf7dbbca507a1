----------------------------- MODULE OpcodeAudit -----------------------------
(***************************************************************************)
(* The entry that the CPU would execute next, read at pc.  The operation   *)
(* and the addressing mode of an entry are separate functions that meet    *)
(* only in the members addr_abs and addr_rel, so an entry that pairs an    *)
(* operation with the wrong mode compiles and silently uses what an        *)
(* earlier instruction left there.                                         *)
(***************************************************************************)
EXTENDS Machine

entry == table[model][Read(pc)]

-----------------------------------------------------------------------------
\* The operations by the way they use addr_abs and addr_rel.
Relative  == DOMAIN BranchOp \cup {"BRA"}
BitBranch == {"BBR", "BBS"}
Readers   == {"LDA", "LDX", "LDY", "AND", "ORA", "EOR", "ADC", "SBC", "CMP", "CPX", "CPY", "BIT"}
Writers   == {"STA", "STX", "STY", "STZ"}
Modifiers == {"ASL", "LSR", "ROL", "ROR", "INC", "DEC", "TRB", "TSB", "RMB", "SMB"}
Jumps     == {"JMP", "JSR"}
OnStack   == [PHA |-> 1, PHP |-> 1, PHX |-> 1, PHY |-> 1, PLA |-> 1, PLP |-> 1, PLX |-> 1,
              PLY |-> 1, JSR |-> 2, RTS |-> 2, RTI |-> 3, BRK |-> 3]

Fresh(e) ==
    /\ e.op \in Readers \cup Writers \cup Jumps \cup Modifiers =>
           OnAccumulator(e) \/ e.mode \notin {"imp", "acc", "rel", "zpr"}
    /\ e.op \in BitBranch <=> e.mode = "zpr"
    /\ e.op \in Relative <=> e.mode = "rel"
    /\ e.mode = "acc" => OnAccumulator(e)
    /\ e.mode = "imm" => e.op \in Readers \cup {"NOP", "BRK"}

\* No operation meets a stale addr_abs or addr_rel: whatever uses one of them
\* has a mode that has just set it, and nothing branches without an offset.
\* Nothing is stored over the instruction stream: an immediate operand is only
\* read, skipped by NOP, or the padding of BRK.
AddressesAreFresh == Fresh(entry)

\* The bytes that an entry moves: those of the instruction, the pointer of an
\* indirect mode, the operand, the stack and the vector.
Accesses(e) ==
    LET fetched == IF e.mode \in {"imp", "acc"} \/ e.op \in {"NOP", "BRK"} THEN 1
                   ELSE IF e.mode \in {"abs", "abx", "aby", "ind", "iax", "zpr"} THEN 3
                   ELSE 2
        pointer == IF e.mode \in {"ind", "iax", "izx", "izy", "zpi"} THEN 2 ELSE 0
        data == IF OnAccumulator(e) \/ e.mode = "imm" THEN 0
                ELSE IF e.op \in Modifiers THEN 2
                ELSE IF e.op \in Readers \cup Writers \cup BitBranch THEN 1
                ELSE 0
        stack  == IF e.op \in DOMAIN OnStack THEN OnStack[e.op] ELSE 0
        vector == IF e.op = "BRK" THEN 2 ELSE 0
    IN  fetched + pointer + data + stack + vector

\* A cycle moves at most one byte over the bus: the base time of an entry is
\* enough for the bytes that its mode, its operation and its vector move.
AccessesFitInCycles == Accesses(entry) <= entry.cycles

BitOps == {"RMB", "SMB"} \cup BitBranch

\* The bit that bit_index_from_opcode() extracts.
Bit(o) == (o \div 16) % 8

\* The 65C02 has each of its bit instructions, RMB, SMB, BBR and BBS for each of
\* the eight bits: they are the 32 opcodes of two columns, no two of them agree
\* in both operation and bit, and the NMOS part has none.
BitInstructionsComplete ==
    /\ entry.op \in BitOps <=> model = "wdc65c02" /\ Read(pc) % 8 = 7
    /\ entry.op \in BitOps =>
           \A o \in Byte \ {Read(pc)} :
               table[model][o].op = entry.op => Bit(o) # Bit(Read(pc))
=============================================================================
