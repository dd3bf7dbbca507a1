----------------------------- MODULE OpcodeTable -----------------------------
(***************************************************************************)
(* The two dispatch tables of cpp65's CPU.  An entry names the operation,  *)
(* the addressing mode and the base cycle count; the name of an entry is   *)
(* the name of its operate function (AND for and_).  A block holds the     *)
(* entries of 64 consecutive opcodes, sixteen to a row.                    *)
(***************************************************************************)
EXTENDS MachineWords

Models == {"nmos6502", "wdc65c02"}

Mode == {"imp", "acc", "imm", "zp0", "zpx", "zpy", "abs", "abx", "aby",
         "ind", "iax", "izx", "izy", "zpi", "rel", "zpr"}

\* Instruction
I(op, mode, cycles) == [op |-> op, mode |-> mode, cycles |-> cycles]

\* Which entries modify A and not memory: the operate functions ask for their
\* own addressing mode, the shifts for acc and INC and DEC for imp.
OnAccumulator(i) == \/ i.mode = "acc" /\ i.op \in {"ASL", "LSR", "ROL", "ROR"}
                    \/ i.mode = "imp" /\ i.op \in {"INC", "DEC"}

-----------------------------------------------------------------------------
Wdc00 == <<
    \* 00
    I("BRK", "imm", 7), I("ORA", "izx", 6), I("NOP", "imm", 2), I("NOP", "imp", 1),
    I("TSB", "zp0", 5), I("ORA", "zp0", 3), I("ASL", "zp0", 5), I("RMB", "zp0", 5),
    I("PHP", "imp", 3), I("ORA", "imm", 2), I("ASL", "acc", 2), I("NOP", "imp", 1),
    I("TSB", "abs", 6), I("ORA", "abs", 4), I("ASL", "abs", 6), I("BBR", "zpr", 5),
    \* 10
    I("BPL", "rel", 2), I("ORA", "izy", 5), I("ORA", "zpi", 5), I("NOP", "imp", 1),
    I("TRB", "zp0", 5), I("ORA", "zpx", 4), I("ASL", "zpx", 6), I("RMB", "zp0", 5),
    I("CLC", "imp", 2), I("ORA", "aby", 4), I("INC", "imp", 2), I("NOP", "imp", 1),
    I("TRB", "abs", 6), I("ORA", "abx", 4), I("ASL", "abx", 6), I("BBR", "zpr", 5),
    \* 20
    I("JSR", "abs", 6), I("AND", "izx", 6), I("NOP", "imm", 2), I("NOP", "imp", 1),
    I("BIT", "zp0", 3), I("AND", "zp0", 3), I("ROL", "zp0", 5), I("RMB", "zp0", 5),
    I("PLP", "imp", 4), I("AND", "imm", 2), I("ROL", "acc", 2), I("NOP", "imp", 1),
    I("BIT", "abs", 4), I("AND", "abs", 4), I("ROL", "abs", 6), I("BBR", "zpr", 5),
    \* 30
    I("BMI", "rel", 2), I("AND", "izy", 5), I("AND", "zpi", 5), I("NOP", "imp", 1),
    I("BIT", "zpx", 4), I("AND", "zpx", 4), I("ROL", "zpx", 6), I("RMB", "zp0", 5),
    I("SEC", "imp", 2), I("AND", "aby", 4), I("DEC", "imp", 2), I("NOP", "imp", 1),
    I("BIT", "abx", 4), I("AND", "abx", 4), I("ROL", "abx", 6), I("BBR", "zpr", 5)
>>

Wdc40 == <<
    \* 40
    I("RTI", "imp", 6), I("EOR", "izx", 6), I("NOP", "imm", 2), I("NOP", "imp", 1),
    I("NOP", "zp0", 3), I("EOR", "zp0", 3), I("LSR", "zp0", 5), I("RMB", "zp0", 5),
    I("PHA", "imp", 3), I("EOR", "imm", 2), I("LSR", "acc", 2), I("NOP", "imp", 1),
    I("JMP", "abs", 3), I("EOR", "abs", 4), I("LSR", "abs", 6), I("BBR", "zpr", 5),
    \* 50
    I("BVC", "rel", 2), I("EOR", "izy", 5), I("EOR", "zpi", 5), I("NOP", "imp", 1),
    I("NOP", "zpx", 4), I("EOR", "zpx", 4), I("LSR", "zpx", 6), I("RMB", "zp0", 5),
    I("CLI", "imp", 2), I("EOR", "aby", 4), I("PHY", "imp", 3), I("NOP", "imp", 1),
    I("NOP", "abs", 8), I("EOR", "abx", 4), I("LSR", "abx", 6), I("BBR", "zpr", 5),
    \* 60
    I("RTS", "imp", 6), I("ADC", "izx", 6), I("NOP", "imm", 2), I("NOP", "imp", 1),
    I("STZ", "zp0", 3), I("ADC", "zp0", 3), I("ROR", "zp0", 5), I("RMB", "zp0", 5),
    I("PLA", "imp", 4), I("ADC", "imm", 2), I("ROR", "acc", 2), I("NOP", "imp", 1),
    I("JMP", "ind", 5), I("ADC", "abs", 4), I("ROR", "abs", 6), I("BBR", "zpr", 5),
    \* 70
    I("BVS", "rel", 2), I("ADC", "izy", 5), I("ADC", "zpi", 5), I("NOP", "imp", 1),
    I("STZ", "zpx", 4), I("ADC", "zpx", 4), I("ROR", "zpx", 6), I("RMB", "zp0", 5),
    I("SEI", "imp", 2), I("ADC", "aby", 4), I("PLY", "imp", 4), I("NOP", "imp", 1),
    I("JMP", "iax", 6), I("ADC", "abx", 4), I("ROR", "abx", 6), I("BBR", "zpr", 5)
>>

Wdc80 == <<
    \* 80
    I("BRA", "rel", 3), I("STA", "izx", 6), I("NOP", "imm", 2), I("NOP", "imp", 1),
    I("STY", "zp0", 3), I("STA", "zp0", 3), I("STX", "zp0", 3), I("SMB", "zp0", 5),
    I("DEY", "imp", 2), I("BIT", "imm", 2), I("TXA", "imp", 2), I("NOP", "imp", 1),
    I("STY", "abs", 4), I("STA", "abs", 4), I("STX", "abs", 4), I("BBS", "zpr", 5),
    \* 90
    I("BCC", "rel", 2), I("STA", "izy", 6), I("STA", "zpi", 5), I("NOP", "imp", 1),
    I("STY", "zpx", 4), I("STA", "zpx", 4), I("STX", "zpy", 4), I("SMB", "zp0", 5),
    I("TYA", "imp", 2), I("STA", "aby", 5), I("TXS", "imp", 2), I("NOP", "imp", 1),
    I("STZ", "abs", 4), I("STA", "abx", 5), I("STZ", "abx", 5), I("BBS", "zpr", 5),
    \* A0
    I("LDY", "imm", 2), I("LDA", "izx", 6), I("LDX", "imm", 2), I("NOP", "imp", 1),
    I("LDY", "zp0", 3), I("LDA", "zp0", 3), I("LDX", "zp0", 3), I("SMB", "zp0", 5),
    I("TAY", "imp", 2), I("LDA", "imm", 2), I("TAX", "imp", 2), I("NOP", "imp", 1),
    I("LDY", "abs", 4), I("LDA", "abs", 4), I("LDX", "abs", 4), I("BBS", "zpr", 5),
    \* B0
    I("BCS", "rel", 2), I("LDA", "izy", 5), I("LDA", "zpi", 5), I("NOP", "imp", 1),
    I("LDY", "zpx", 4), I("LDA", "zpx", 4), I("LDX", "zpy", 4), I("SMB", "zp0", 5),
    I("CLV", "imp", 2), I("LDA", "aby", 4), I("TSX", "imp", 2), I("NOP", "imp", 1),
    I("LDY", "abx", 4), I("LDA", "abx", 4), I("LDX", "aby", 4), I("BBS", "zpr", 5)
>>

WdcC0 == <<
    \* C0
    I("CPY", "imm", 2), I("CMP", "izx", 6), I("NOP", "imm", 2), I("NOP", "imp", 1),
    I("CPY", "zp0", 3), I("CMP", "zp0", 3), I("DEC", "zp0", 5), I("SMB", "zp0", 5),
    I("INY", "imp", 2), I("CMP", "imm", 2), I("DEX", "imp", 2), I("WAI", "imp", 3),
    I("CPY", "abs", 4), I("CMP", "abs", 4), I("DEC", "abs", 6), I("BBS", "zpr", 5),
    \* D0
    I("BNE", "rel", 2), I("CMP", "izy", 5), I("CMP", "zpi", 5), I("NOP", "imp", 1),
    I("NOP", "zpx", 4), I("CMP", "zpx", 4), I("DEC", "zpx", 6), I("SMB", "zp0", 5),
    I("CLD", "imp", 2), I("CMP", "aby", 4), I("PHX", "imp", 3), I("STP", "imp", 3),
    I("NOP", "abs", 4), I("CMP", "abx", 4), I("DEC", "abx", 7), I("BBS", "zpr", 5),
    \* E0
    I("CPX", "imm", 2), I("SBC", "izx", 6), I("NOP", "imm", 2), I("NOP", "imp", 1),
    I("CPX", "zp0", 3), I("SBC", "zp0", 3), I("INC", "zp0", 5), I("SMB", "zp0", 5),
    I("INX", "imp", 2), I("SBC", "imm", 2), I("NOP", "imp", 2), I("NOP", "imp", 1),
    I("CPX", "abs", 4), I("SBC", "abs", 4), I("INC", "abs", 6), I("BBS", "zpr", 5),
    \* F0
    I("BEQ", "rel", 2), I("SBC", "izy", 5), I("SBC", "zpi", 5), I("NOP", "imp", 1),
    I("NOP", "zpx", 4), I("SBC", "zpx", 4), I("INC", "zpx", 6), I("SMB", "zp0", 5),
    I("SED", "imp", 2), I("SBC", "aby", 4), I("PLX", "imp", 4), I("NOP", "imp", 1),
    I("NOP", "abs", 4), I("SBC", "abx", 4), I("INC", "abx", 7), I("BBS", "zpr", 5)
>>

wdc65c02_table ==
    [o \in Byte |-> IF o < 64 THEN Wdc00[o + 1] ELSE IF o < 128 THEN Wdc40[o - 63]
                    ELSE IF o < 192 THEN Wdc80[o - 127] ELSE WdcC0[o - 191]]

-----------------------------------------------------------------------------
(***************************************************************************)
(* The NMOS table is filled with KIL and then given the 151 official       *)
(* opcodes.  They stand in the columns below, a set per row of sixteen     *)
(* opcodes, and have the entry of the WDC table, but for the four shifts   *)
(* of an absolute indexed operand, which always take the cycle of a page   *)
(* crossing.                                                               *)
(***************************************************************************)
official ==
    <<{0, 1, 5, 6, 8, 9, 10, 13, 14},
      {0, 1, 5, 6, 8, 9, 13, 14},
      {0, 1, 4, 5, 6, 8, 9, 10, 12, 13, 14},
      {0, 1, 5, 6, 8, 9, 13, 14},
      {0, 1, 5, 6, 8, 9, 10, 12, 13, 14},
      {0, 1, 5, 6, 8, 9, 13, 14},
      {0, 1, 5, 6, 8, 9, 10, 12, 13, 14},
      {0, 1, 5, 6, 8, 9, 13, 14},
      {1, 4, 5, 6, 8, 10, 12, 13, 14},
      {0, 1, 4, 5, 6, 8, 9, 10, 13},
      {0, 1, 2, 4, 5, 6, 8, 9, 10, 12, 13, 14},
      {0, 1, 4, 5, 6, 8, 9, 10, 12, 13, 14},
      {0, 1, 4, 5, 6, 8, 9, 10, 12, 13, 14},
      {0, 1, 5, 6, 8, 9, 13, 14},
      {0, 1, 4, 5, 6, 8, 9, 10, 12, 13, 14},
      {0, 1, 5, 6, 8, 9, 13, 14}>>

Official(o) == (o % 16) \in official[(o \div 16) + 1]

IndexedShift == {30, 62, 94, 126}   \* 1E, 3E, 5E, 7E

nmos6502_table ==
    [o \in Byte |->
        IF ~Official(o) THEN I("KIL", "imp", 1)
        ELSE IF o \in IndexedShift THEN [wdc65c02_table[o] EXCEPT !.cycles = 7]
        ELSE wdc65c02_table[o]]

(***************************************************************************)
(* Mutants of table: the entry of one opcode is mistaken.                  *)
(***************************************************************************)
Mistaken(o, entry) == [m \in Models |-> IF m = "nmos6502" THEN nmos6502_table
                                        ELSE [wdc65c02_table EXCEPT ![o] = entry]]

tableDecByAcc         == Mistaken(58, I("DEC", "acc", 2))     \* 3A by acc: dec() asks for imp
tableFastIndirect     == Mistaken(114, I("ADC", "zpi", 4))    \* 72 forgets a pointer byte
tableRmbTwice         == Mistaken(135, I("RMB", "zp0", 5))    \* 87 is copied from 07

table == [m \in Models |-> IF m = "nmos6502" THEN nmos6502_table ELSE wdc65c02_table]
=============================================================================
