------------------------------ MODULE BusProofs ------------------------------
(***************************************************************************)
(* RAM and console of the bus, for every address, block and order of the   *)
(* calls of host and CPU: a read returns the last byte stored, and the     *)
(* console shows the CPU's writes to it.  And the stack that the CPU keeps *)
(* in that RAM is last-in first-out, for every sp, every contents of page  *)
(* one and bursts of up to 256 bytes.                                      *)
(*                                                                         *)
(* Every action appends entries to history and stores the same entries, so *)
(* one lemma about storing a batch serves all four.                        *)
(***************************************************************************)
EXTENDS BusHost, StackHost, OperatorProofs, FiniteSetTheorems

Entry == [by : {"cpu", "host"}, at : Word, value : Byte]

HistoryOK == history \in Seq(Entry)

-----------------------------------------------------------------------------
(***************************************************************************)
(* What an action appends and stores.                                      *)
(***************************************************************************)
\* es are the entries of bytes that go to addr and behind, cursor by cursor.
EntriesOf(es, by, addr, bytes) ==
    /\ es \in Seq(Entry) /\ Len(es) = Len(bytes)
    /\ \A i \in 1 .. Len(bytes) : /\ es[i].by = by
                                  /\ es[i].at = Wrap16(addr + i - 1)
                                  /\ es[i].value = bytes[i]

LEMMA EntriesHold ==
    ASSUME NEW by \in {"cpu", "host"}, NEW addr \in Word, NEW bytes \in Seq(Byte)
    PROVE  EntriesOf(Entries(by, addr, bytes), by, addr, bytes)
<1> DEFINE es == Entries(by, addr, bytes)
<1>1. \A i \in 1 .. Len(bytes) :
          es[i] = [by |-> by, at |-> Wrap16(addr + i - 1), value |-> bytes[i]]
  BY DEF Entries, Wrap16
<1>2. \A i \in 1 .. Len(bytes) : (addr + i - 1) % 65536 \in Word /\ bytes[i] \in Byte
  BY DEF Word
<1>3. es \in [1 .. Len(bytes) -> Entry]
  BY <1>2 DEF Entries, Entry
<1> HIDE DEF es
<1>4. es \in Seq(Entry) /\ Len(es) = Len(bytes)
  BY <1>3
<1>5. \A i \in 1 .. Len(bytes) :
          es[i].by = by /\ es[i].at = Wrap16(addr + i - 1) /\ es[i].value = bytes[i]
  <2> TAKE i \in 1 .. Len(bytes)
  <2>1. es[i] = [by |-> by, at |-> Wrap16(addr + i - 1), value |-> bytes[i]]
    BY <1>1
  <2> QED BY <2>1
<1> QED BY <1>4, <1>5, Zenon DEF EntriesOf, es

\* cells are the cells of bytes that are loaded at addr: each byte is at the
\* address that the cursor has for it, and no two of them are at the same.
CellsOf(cells, addr, bytes) ==
    /\ DOMAIN cells = {Wrap16(addr + i - 1) : i \in 1 .. Len(bytes)}
    /\ \A i \in 1 .. Len(bytes) : cells[Wrap16(addr + i - 1)] = bytes[i]
    /\ \A i, j \in 1 .. Len(bytes) : Wrap16(addr + i - 1) = Wrap16(addr + j - 1) => i = j

LEMMA LoadCellsHold ==
    ASSUME NEW addr \in Word, NEW bytes \in Seq(Byte), Len(bytes) <= 65536
    PROVE  CellsOf(LoadCells(addr, bytes), addr, bytes)
<1> DEFINE cells == LoadCells(addr, bytes)
<1>1. \A i \in 1 .. Len(bytes) : Wrap16(Wrap16(addr + i - 1) - addr) = i - 1
  BY CursorWraps
<1>2. \A i, j \in 1 .. Len(bytes) :
          Wrap16(addr + i - 1) = Wrap16(addr + j - 1) => i = j
  <2> TAKE i, j \in 1 .. Len(bytes)
  <2> HAVE Wrap16(addr + i - 1) = Wrap16(addr + j - 1)
  <2>1. i - 1 = j - 1
    BY <1>1
  <2> QED BY <2>1
<1>3. ASSUME NEW i \in 1 .. Len(bytes)
      PROVE  cells[Wrap16(addr + i - 1)] = bytes[i]
  <2> DEFINE at == Wrap16(addr + i - 1)
  <2>1. cells[at] = bytes[Wrap16(at - addr) + 1]
    BY DEF LoadCells
  <2>2. Wrap16(at - addr) + 1 = i
    BY <1>1
  <2> QED BY <2>1, <2>2
<1>4. DOMAIN cells = {Wrap16(addr + i - 1) : i \in 1 .. Len(bytes)}
  BY DEF LoadCells
<1> HIDE DEF cells
<1> QED BY <1>2, <1>3, <1>4 DEF CellsOf, cells

\* A batch: the entries that history gets, and the cells that are stored.
Batch(es, cells) ==
    /\ es \in Seq(Entry)
    /\ history' = history \o es
    /\ memory' = Stored(memory, cells)
    /\ DOMAIN cells = {es[i].at : i \in {i \in 1 .. Len(es) : ~ToConsole(es[i])}}
    /\ \A i \in 1 .. Len(es) : ~ToConsole(es[i]) => cells[es[i].at] = es[i].value
    /\ \A i, j \in 1 .. Len(es) : es[i].at = es[j].at => i = j

\* The entries of a batch stand behind those that were there.
LEMMA BatchAppends ==
    ASSUME NEW es, NEW cells, Batch(es, cells), HistoryOK
    PROVE  /\ history \in Seq(Entry) /\ history' \in Seq(Entry)
           /\ Len(history') = Len(history) + Len(es)
           /\ \A i \in 1 .. Len(history) : history'[i] = history[i]
           /\ \A i \in 1 .. Len(es) : history'[Len(history) + i] = es[i]
<1>1. /\ history \in Seq(Entry) /\ history' \in Seq(Entry)
      /\ Len(history') = Len(history) + Len(es)
  BY DEF Batch, HistoryOK
<1>2. \A i \in 1 .. Len(history) : history'[i] = history[i]
  BY DEF Batch, HistoryOK
<1>3. \A i \in 1 .. Len(es) : history'[Len(history) + i] = es[i]
  BY DEF Batch, HistoryOK
<1> QED BY <1>1, <1>2, <1>3

\* What a host loads is a batch that the console does not see.
LEMMA LoadIsBatch ==
    ASSUME NEW addr \in Word, NEW bytes \in Seq(Byte), Len(bytes) <= 65536,
           history' = history \o Entries("host", addr, bytes),
           memory' = Stored(memory, LoadCells(addr, bytes))
    PROVE  /\ Batch(Entries("host", addr, bytes), LoadCells(addr, bytes))
           /\ \A i \in 1 .. Len(bytes) : ~ToConsole(Entries("host", addr, bytes)[i])
<1> DEFINE es == Entries("host", addr, bytes)
           cells == LoadCells(addr, bytes)
<1>1. EntriesOf(es, "host", addr, bytes)
  BY EntriesHold
<1>2. CellsOf(cells, addr, bytes)
  BY LoadCellsHold
<1> HIDE DEF es, cells
<1> USE DEF EntriesOf, CellsOf
<1>3. \A i \in 1 .. Len(bytes) : ~ToConsole(es[i])
  BY <1>1 DEF ToConsole
<1>4. DOMAIN cells = {es[i].at : i \in {i \in 1 .. Len(es) : ~ToConsole(es[i])}}
  BY <1>1, <1>2, <1>3
<1>5. \A i \in 1 .. Len(es) : ~ToConsole(es[i]) => cells[es[i].at] = es[i].value
  BY <1>1, <1>2
<1>6. \A i, j \in 1 .. Len(es) : es[i].at = es[j].at => i = j
  BY <1>1, <1>2
<1>7. history' = history \o es /\ memory' = Stored(memory, cells)
  BY DEF es, cells
<1> QED BY <1>1, <1>3, <1>4, <1>5, <1>6, <1>7 DEF Batch, es, cells

LEMMA FirstOfBlock == \A a \in Word : Wrap16(a + 1 - 1) = a
<1> TAKE a \in Word
<1>1. a + 1 - 1 = a /\ a \in Int /\ 0 <= a /\ a < 65536
  BY DEF Word
<1> QED BY <1>1 DEF Wrap16

\* What the CPU writes is a batch of one, whose cell is left out at the console.
LEMMA WriteIsBatch ==
    ASSUME NEW a \in Word, NEW v \in Byte,
           history' = history \o Entries("cpu", a, <<v>>), Write([c \in {a} |-> v])
    PROVE  Batch(Entries("cpu", a, <<v>>), [c \in {a} \ {output_addr} |-> v])
<1> DEFINE es == Entries("cpu", a, <<v>>)
           cells == [c \in {a} \ {output_addr} |-> v]
<1>1. <<v>> \in Seq(Byte) /\ Len(<<v>>) = 1 /\ <<v>>[1] = v
  OBVIOUS
<1>2. Wrap16(a + 1 - 1) = a
  BY FirstOfBlock
<1>3. es \in Seq(Entry) /\ Len(es) = 1 /\ es[1].by = "cpu" /\ es[1].at = a /\ es[1].value = v
  <2>1. EntriesOf(es, "cpu", a, <<v>>)
    BY <1>1, EntriesHold
  <2> QED BY <1>1, <1>2, <2>1 DEF EntriesOf
<1>4. memory' = Stored(memory, cells)
  <2>1. memory' = Stored(memory, [c \in {a} \ {output_addr} |-> [d \in {a} |-> v][c]])
    BY DEF Write
  <2>2. [c \in {a} \ {output_addr} |-> [d \in {a} |-> v][c]] = cells
    OBVIOUS
  <2> QED BY <2>1, <2>2
<1>5. DOMAIN cells = {a} \ {output_addr} /\ \A c \in DOMAIN cells : cells[c] = v
  OBVIOUS
<1>6. history' = history \o es
  OBVIOUS
<1> HIDE DEF es, cells
<1>7. ToConsole(es[1]) <=> a = output_addr
  BY <1>3 DEF ToConsole
<1>8. DOMAIN cells = {es[i].at : i \in {i \in 1 .. Len(es) : ~ToConsole(es[i])}}
  BY <1>3, <1>5, <1>7
<1>9. \A i \in 1 .. Len(es) : ~ToConsole(es[i]) => cells[es[i].at] = es[i].value
  BY <1>3, <1>5, <1>7
<1>10. \A i, j \in 1 .. Len(es) : es[i].at = es[j].at => i = j
  BY <1>3
<1> QED BY <1>3, <1>4, <1>6, <1>8, <1>9, <1>10 DEF Batch, es, cells

\* Each action appends what it stores; only the CPU's writes reach the console.
LEMMA HostActionsAreBatches ==
    ASSUME HostPokes \/ HostLoads \/ HostSetsVector
    PROVE  /\ \E es, cells : Batch(es, cells) /\ \A i \in 1 .. Len(es) : ~ToConsole(es[i])
           /\ UNCHANGED <<lineVars, output>>
<1>1. ASSUME NEW addr \in Word, NEW bytes \in Seq(Byte), Len(bytes) <= 65536,
             Recorded("host", addr, bytes), Load(addr, bytes)
      PROVE  /\ \E es, cells : Batch(es, cells) /\ \A i \in 1 .. Len(es) : ~ToConsole(es[i])
             /\ UNCHANGED <<lineVars, output>>
  <2> DEFINE es == Entries("host", addr, bytes)
             cells == LoadCells(addr, bytes)
  <2>1. Batch(es, cells) /\ \A i \in 1 .. Len(bytes) : ~ToConsole(es[i])
    <3>1. history' = history \o es /\ memory' = Stored(memory, cells)
      BY <1>1 DEF Recorded, Load
    <3> QED BY <1>1, <3>1, LoadIsBatch
  <2>2. Len(es) = Len(bytes)
    BY EntriesHold DEF EntriesOf
  <2>3. UNCHANGED <<lineVars, output>>
    BY <1>1 DEF Load
  <2> HIDE DEF es, cells
  <2> QED BY <2>1, <2>2, <2>3
<1>2. CASE HostPokes
  <2>1. PICK a \in Addresses, v \in Values : Recorded("host", a, <<v>>) /\ Load(a, <<v>>)
    BY <1>2 DEF HostPokes, Poke
  <2>2. a \in Word /\ <<v>> \in Seq(Byte) /\ Len(<<v>>) <= 65536
    BY BusHostAssumption
  <2> QED BY <1>1, <2>1, <2>2
<1>3. CASE HostLoads
  <2>1. PICK a \in Addresses, b \in Blocks : Recorded("host", a, b) /\ Load(a, b)
    BY <1>3 DEF HostLoads
  <2>2. a \in Word /\ b \in Seq(Byte) /\ Len(b) <= 65536
    BY BusHostAssumption
  <2> QED BY <1>1, <2>1, <2>2
<1>4. CASE HostSetsVector
  <2>1. PICK v \in {ResetVector, NmiVector, IrqVector}, t \in Addresses :
            Recorded("host", v, <<t % 256, t \div 256>>) /\ SetVector(v, t)
    BY <1>4 DEF HostSetsVector
  <2>2. v \in Word /\ t \in Word
    BY BusHostAssumption DEF ResetVector, NmiVector, IrqVector, Word
  <2> DEFINE bytes == <<Low(t), High(t)>>
  <2>3. bytes \in Seq(Byte) /\ Len(bytes) <= 65536
    BY <2>2, HalvesAreBytes
  <2>4. Recorded("host", v, bytes) /\ Load(v, bytes)
    BY <2>1 DEF SetVector, VectorCells, Load, Low, High
  <2> HIDE DEF bytes
  <2> QED BY <1>1, <2>2, <2>3, <2>4
<1> QED BY <1>2, <1>3, <1>4

LEMMA CpuWritesIsBatch ==
    ASSUME CpuWrites
    PROVE  \E a \in Word, v \in Byte :
               /\ Batch(Entries("cpu", a, <<v>>), [c \in {a} \ {output_addr} |-> v])
               /\ output' = IF a = output_addr THEN Append(output, v) ELSE output
               /\ UNCHANGED lineVars
<1>1. PICK a \in Addresses, v \in Values :
          Recorded("cpu", a, <<v>>) /\ Write([c \in {a} |-> v]) /\ UNCHANGED lineVars
  BY DEF CpuWrites
<1>2. a \in Word /\ v \in Byte
  BY BusHostAssumption
<1>3. Batch(Entries("cpu", a, <<v>>), [c \in {a} \ {output_addr} |-> v])
  BY <1>1, <1>2, WriteIsBatch DEF Recorded
<1>4. output' = IF a = output_addr THEN Append(output, v) ELSE output
  BY <1>1 DEF Write
<1> QED BY <1>1, <1>2, <1>3, <1>4

-----------------------------------------------------------------------------
(***************************************************************************)
(* RAM.  The inductive invariant names the store that a read returns: a    *)
(* cell holds the value of the last entry for its address, and a cell that *)
(* RAM does not list was never stored to.                                  *)
(***************************************************************************)
StoresTo(a) == {i \in DOMAIN history : history[i].at = a /\ ~ToConsole(history[i])}

HoldsLast(a) ==
    /\ a \in DOMAIN memory =>
           \E i \in StoresTo(a) : memory[a] = history[i].value /\ \A j \in StoresTo(a) : j <= i
    /\ a \notin DOMAIN memory => StoresTo(a) = {}

RamOK == HistoryOK /\ \A a : HoldsLast(a)

LEMMA BatchKeepsRam ==
    ASSUME NEW es, NEW cells, Batch(es, cells), RamOK
    PROVE  RamOK'
<1> DEFINE m == Len(history)
           n == Len(es)
<1>1. /\ es \in Seq(Entry) /\ history \in Seq(Entry)
      /\ m \in Nat /\ n \in Nat
      /\ history' \in Seq(Entry) /\ Len(history') = m + n
      /\ DOMAIN history = 1 .. m /\ DOMAIN history' = 1 .. m + n
  BY DEF Batch, RamOK, HistoryOK
<1>2. /\ \A i \in 1 .. m : history'[i] = history[i]
      /\ \A i \in 1 .. n : history'[m + i] = es[i]
      /\ \A i \in 1 .. m + n : i \in 1 .. m \/ (i - m \in 1 .. n /\ i = m + (i - m))
  BY <1>1 DEF Batch
<1>3. memory' = [c \in DOMAIN memory \cup DOMAIN cells |->
                    IF c \in DOMAIN cells THEN cells[c] ELSE memory[c]]
  BY DEF Batch, Stored
<1>4. ASSUME NEW a PROVE HoldsLast(a)'
  <2> DEFINE S == StoresTo(a)
             T == {i \in 1 .. m + n : history'[i].at = a /\ ~ToConsole(history'[i])}
  <2>1. StoresTo(a)' = T
    BY <1>1 DEF StoresTo, ToConsole
  <2>2. S = {i \in 1 .. m : history[i].at = a /\ ~ToConsole(history[i])}
    BY <1>1 DEF StoresTo
  <2>3. \A i \in 1 .. m : i \in T <=> i \in S
    BY <1>1, <1>2, <2>2
  <2>4. \A i \in 1 .. n : m + i \in T <=> es[i].at = a /\ ~ToConsole(es[i])
    BY <1>1, <1>2
  <2>5. \A i \in T : i \in 1 .. m \/ \E k \in 1 .. n : i = m + k
    BY <1>2
  <2> HIDE DEF S, T
  <2>6. CASE a \in DOMAIN cells
    <3>1. PICK i \in 1 .. n : a = es[i].at /\ ~ToConsole(es[i])
      BY <2>6 DEF Batch
    <3>2. m + i \in T
      BY <2>4, <3>1
    <3>3. \A j \in T : j <= m + i
      <4> TAKE j \in T
      <4>1. CASE j \in 1 .. m
        BY <1>1, <4>1
      <4>2. CASE \E k \in 1 .. n : j = m + k
        <5>1. PICK k \in 1 .. n : j = m + k
          BY <4>2
        <5>2. es[k].at = a
          BY <2>4, <5>1
        <5>3. k = i
          BY <3>1, <5>2 DEF Batch
        <5> QED BY <1>1, <5>1, <5>3
      <4> QED BY <2>5, <4>1, <4>2
    <3>4. a \in DOMAIN memory' /\ memory'[a] = history'[m + i].value
      BY <1>2, <1>3, <2>6, <3>1 DEF Batch
    <3> QED BY <2>1, <3>2, <3>3, <3>4 DEF HoldsLast
  <2>7. CASE a \notin DOMAIN cells
    <3>1. \A i \in 1 .. n : ~(es[i].at = a /\ ~ToConsole(es[i]))
      BY <2>7 DEF Batch
    <3>2. T = S
      BY <2>2, <2>3, <2>4, <2>5, <3>1 DEF S
    <3>3. /\ a \in DOMAIN memory' <=> a \in DOMAIN memory
          /\ a \in DOMAIN memory => memory'[a] = memory[a]
      BY <1>3, <2>7
    <3>4. \A i \in S : history'[i] = history[i]
      BY <1>2, <2>2
    <3>5. /\ a \in DOMAIN memory =>
                 \E i \in S : memory[a] = history[i].value /\ \A j \in S : j <= i
          /\ a \notin DOMAIN memory => S = {}
      BY DEF RamOK, HoldsLast, S
    <3> QED BY <2>1, <3>2, <3>3, <3>4, <3>5 DEF HoldsLast
  <2> QED BY <2>6, <2>7
<1> QED BY <1>1, <1>4 DEF RamOK, HistoryOK

LEMMA RamInit == Init => RamOK
  BY DEF Init, BusInit, RamOK, HistoryOK, HoldsLast, StoresTo

LEMMA RamNext == RamOK /\ [Next]_allVars => RamOK'
<1> SUFFICES ASSUME RamOK, [Next]_allVars PROVE RamOK'
  OBVIOUS
<1>1. CASE CpuWrites
  BY <1>1, CpuWritesIsBatch, BatchKeepsRam
<1>2. CASE HostPokes \/ HostLoads \/ HostSetsVector
  BY <1>2, HostActionsAreBatches, BatchKeepsRam
<1>3. CASE UNCHANGED allVars
  BY <1>3 DEF allVars, dataVars, RamOK, HistoryOK, HoldsLast, StoresTo, ToConsole
<1> QED BY <1>1, <1>2, <1>3 DEF Next

LEMMA RamCorrect == Spec => []RamOK
  BY RamInit, RamNext, PTL DEF Spec

\* A read of an address that was stored to returns the last byte stored there,
\* whoever stored it and however the blocks overlapped or wrapped; a write of
\* the CPU to the console is no store.
THEOREM ReadsReturnLastStore == Spec => []ReadsLastStore
<1>1. RamOK => ReadsLastStore
  <2> SUFFICES ASSUME RamOK, NEW a
               PROVE  IF StoresTo(a) = {} THEN Read(a) = 0
                      ELSE Read(a) = history[CHOOSE i \in StoresTo(a) :
                                                 \A j \in StoresTo(a) : j <= i].value
    BY DEF ReadsLastStore, StoresTo
  <2> DEFINE S == StoresTo(a)
             last == CHOOSE i \in S : \A j \in S : j <= i
  <2>1. HoldsLast(a) /\ S \subseteq Int
    BY DEF RamOK, HistoryOK, StoresTo
  <2>2. CASE a \notin DOMAIN memory
    BY <2>1, <2>2 DEF HoldsLast, Read
  <2>3. CASE a \in DOMAIN memory
    <3>1. PICK i \in S : memory[a] = history[i].value /\ \A j \in S : j <= i
      BY <2>1, <2>3 DEF HoldsLast
    <3> HIDE DEF S
    <3>2. last \in S /\ \A j \in S : j <= last
      BY <3>1
    <3> HIDE DEF last
    <3>3. last = i
      BY <2>1, <3>1, <3>2
    <3>4. Read(a) = history[last].value /\ S # {}
      BY <2>3, <3>1, <3>3 DEF Read
    <3> QED BY <3>4 DEF S, last
  <2> QED BY <2>2, <2>3
<1> QED BY <1>1, RamCorrect, PTL

-----------------------------------------------------------------------------
(***************************************************************************)
(* Types.                                                                  *)
(***************************************************************************)
LinesTypeOK == reset_pending \in BOOLEAN /\ nmi_pending \in BOOLEAN /\ irq_line \in BOOLEAN
RamTypeOK   == DOMAIN memory \subseteq Word /\ memory \in [DOMAIN memory -> Byte]

LEMMA BatchKeepsTypes ==
    ASSUME NEW es, NEW cells, Batch(es, cells), RamTypeOK
    PROVE  RamTypeOK'
<1>1. \A c \in DOMAIN cells : c \in Word /\ cells[c] \in Byte
  <2> TAKE c \in DOMAIN cells
  <2>1. PICK i \in 1 .. Len(es) : c = es[i].at /\ ~ToConsole(es[i])
    BY DEF Batch
  <2>2. es[i] \in Entry
    BY DEF Batch
  <2>3. es[i].at \in Word /\ es[i].value \in Byte
    BY <2>2 DEF Entry
  <2> QED BY <2>1, <2>3 DEF Batch
<1>2. memory' = [c \in DOMAIN memory \cup DOMAIN cells |->
                    IF c \in DOMAIN cells THEN cells[c] ELSE memory[c]]
  BY DEF Batch, Stored
<1> QED BY <1>1, <1>2 DEF RamTypeOK

BusOK == LinesTypeOK /\ RamTypeOK /\ output \in Seq(Byte)

LEMMA BusNext == BusOK /\ [Next]_allVars => BusOK'
<1> SUFFICES ASSUME BusOK, [Next]_allVars PROVE BusOK'
  OBVIOUS
<1>1. CASE CpuWrites
  <2>1. PICK a \in Word, v \in Byte :
            /\ Batch(Entries("cpu", a, <<v>>), [c \in {a} \ {output_addr} |-> v])
            /\ output' = IF a = output_addr THEN Append(output, v) ELSE output
            /\ UNCHANGED lineVars
    BY <1>1, CpuWritesIsBatch
  <2>2. RamTypeOK'
    BY <2>1, BatchKeepsTypes DEF BusOK
  <2>3. output' \in Seq(Byte)
    BY <2>1 DEF BusOK
  <2>4. LinesTypeOK'
    BY <2>1 DEF BusOK, LinesTypeOK, lineVars
  <2> QED BY <2>2, <2>3, <2>4 DEF BusOK
<1>2. CASE HostPokes \/ HostLoads \/ HostSetsVector
  <2>1. (\E es, cells : Batch(es, cells)) /\ UNCHANGED <<lineVars, output>>
    BY <1>2, HostActionsAreBatches
  <2>2. RamTypeOK'
    BY <2>1, BatchKeepsTypes DEF BusOK
  <2>3. LinesTypeOK' /\ output' = output
    BY <2>1 DEF BusOK, LinesTypeOK, lineVars
  <2> QED BY <2>2, <2>3 DEF BusOK
<1>3. CASE UNCHANGED allVars
  BY <1>3 DEF allVars, lineVars, dataVars, BusOK, LinesTypeOK, RamTypeOK
<1> QED BY <1>1, <1>2, <1>3 DEF Next

\* Lines, RAM and console keep the C++ types of their members under every store
\* of the host and every write of the CPU.
THEOREM BusTypeCorrect == Spec => []BusTypeOK
<1>1. Init => BusOK
  <2> SUFFICES ASSUME Init PROVE BusOK
    OBVIOUS
  <2>1. LinesTypeOK
    BY Zenon DEF Init, BusInit, LinesTypeOK
  <2>2. memory = <<>> /\ output = <<>>
    BY DEF Init, BusInit
  <2>3. RamTypeOK
    <3>1. DOMAIN memory = {}
      BY <2>2
    <3> QED BY <2>2, <3>1 DEF RamTypeOK
  <2>4. output \in Seq(Byte)
    BY <2>2
  <2> QED BY <2>1, <2>3, <2>4 DEF BusOK
<1>2. BusOK => BusTypeOK
  BY DEF BusOK, LinesTypeOK, RamTypeOK, BusTypeOK
<1> QED BY <1>1, <1>2, BusNext, PTL DEF Spec

-----------------------------------------------------------------------------
(***************************************************************************)
(* The console.  Its writes are numbered by counting those before them.    *)
(***************************************************************************)
Shown == {i \in DOMAIN history : ToConsole(history[i])}

\* How many of the writes in S are not behind i.
Rank(S, i) == Cardinality({j \in S : j <= i})

ConsoleOK == /\ HistoryOK
             /\ output \in Seq(Byte)
             /\ Len(output) = Cardinality(Shown)
             /\ \A i \in Shown : output[Rank(Shown, i)] = history[i].value

LEMMA ShownIsFinite ==
    ASSUME HistoryOK
    PROVE  /\ IsFiniteSet(Shown) /\ Cardinality(Shown) \in Nat
           /\ Shown \subseteq 1 .. Len(history)
           /\ \A i \in Shown : Rank(Shown, i) \in 1 .. Cardinality(Shown)
<1>1. Shown \subseteq 1 .. Len(history) /\ Len(history) \in Nat
  BY DEF Shown, HistoryOK
<1>2. IsFiniteSet(1 .. Len(history))
  BY <1>1, FS_Interval
<1>3. IsFiniteSet(Shown) /\ Cardinality(Shown) \in Nat
  BY <1>1, <1>2, FS_Subset, FS_CardinalityType
<1>4. ASSUME NEW i \in Shown PROVE Rank(Shown, i) \in 1 .. Cardinality(Shown)
  <2> DEFINE S == {j \in Shown : j <= i}
  <2>1. S \in SUBSET Shown
    OBVIOUS
  <2>2. i \in S
    BY <1>1
  <2> HIDE DEF S
  <2>3. IsFiniteSet(S) /\ Cardinality(S) <= Cardinality(Shown) /\ Cardinality(S) \in Nat
    BY <1>3, <2>1, FS_Subset, FS_CardinalityType
  <2>4. Cardinality(S) # 0
    BY <2>2, <2>3, FS_EmptySet
  <2> QED BY <1>3, <2>3, <2>4 DEF Rank, S
<1> QED BY <1>1, <1>3, <1>4

\* A batch that the console does not see leaves the numbering alone.
LEMMA SilentBatch ==
    ASSUME ConsoleOK, NEW es, NEW cells, Batch(es, cells),
           \A i \in 1 .. Len(es) : ~ToConsole(es[i]), output' = output
    PROVE  ConsoleOK'
<1> DEFINE m == Len(history)
           n == Len(es)
<1>1. /\ es \in Seq(Entry) /\ history \in Seq(Entry) /\ history' \in Seq(Entry)
      /\ m \in Nat /\ n \in Nat
      /\ DOMAIN history = 1 .. m /\ DOMAIN history' = 1 .. m + n
  BY DEF Batch, ConsoleOK, HistoryOK
<1>2. /\ \A i \in 1 .. m : history'[i] = history[i]
      /\ \A i \in 1 .. m + n : i \in 1 .. m \/ \E k \in 1 .. n : i = m + k /\ history'[i] = es[k]
  <2>1. \A i \in 1 .. n : history'[m + i] = es[i]
    BY <1>1 DEF Batch
  <2>2. \A i \in 1 .. m + n : i \in 1 .. m \/ (i - m \in 1 .. n /\ i = m + (i - m))
    BY <1>1
  <2>3. \A i \in 1 .. m : history'[i] = history[i]
    BY <1>1 DEF Batch
  <2> QED BY <2>1, <2>2, <2>3
<1>3. Shown' = {i \in 1 .. m + n : ToConsole(history'[i])}
  BY <1>1 DEF Shown, ToConsole
<1>4. Shown = {i \in 1 .. m : ToConsole(history[i])}
  BY <1>1 DEF Shown
<1>5. Shown' = Shown
  <2>1. ASSUME NEW i \in 1 .. m + n PROVE ToConsole(history'[i]) <=> i \in Shown
    <3>1. CASE i \in 1 .. m
      BY <1>2, <1>4, <3>1
    <3>2. CASE i \notin 1 .. m
      BY <1>2, <1>4, <3>2
    <3> QED BY <3>1, <3>2
  <2>2. Shown \subseteq 1 .. m + n
    BY <1>1, <1>4
  <2> HIDE DEF m, n
  <2> QED BY <1>3, <2>1, <2>2
<1>6. \A i \in Shown : history'[i] = history[i]
  BY <1>2, <1>4
<1> QED BY <1>1, <1>5, <1>6 DEF ConsoleOK, HistoryOK, Rank

\* A write of the CPU to the console is the last one, and shows the last byte.
LEMMA ShowingBatch ==
    ASSUME ConsoleOK, NEW v \in Byte, output' = Append(output, v),
           NEW cells, NEW es, Batch(es, cells),
           Len(es) = 1, ToConsole(es[1]), es[1].value = v
    PROVE  ConsoleOK'
<1> DEFINE m == Len(history)
           c == Cardinality(Shown)
<1>1. /\ es \in Seq(Entry) /\ history \in Seq(Entry) /\ history' \in Seq(Entry)
      /\ m \in Nat /\ DOMAIN history = 1 .. m /\ DOMAIN history' = 1 .. m + 1
      /\ \A i \in 1 .. m : history'[i] = history[i]
      /\ history'[m + 1] = es[1]
  <2>1. /\ history \in Seq(Entry) /\ history' \in Seq(Entry) /\ Len(history') = m + 1
        /\ \A i \in 1 .. m : history'[i] = history[i]
        /\ \A i \in 1 .. 1 : history'[m + i] = es[i]
    BY BatchAppends DEF ConsoleOK
  <2>2. m \in Nat /\ DOMAIN history = 1 .. m /\ DOMAIN history' = 1 .. m + 1
    BY <2>1
  <2> QED BY <2>1, <2>2 DEF Batch
<1>2. /\ IsFiniteSet(Shown) /\ c \in Nat /\ Shown \subseteq 1 .. m
      /\ \A i \in Shown : Rank(Shown, i) \in 1 .. c
  BY ShownIsFinite DEF ConsoleOK
<1>3. Shown' = {i \in 1 .. m + 1 : ToConsole(history'[i])}
  BY <1>1 DEF Shown, ToConsole
<1>4. Shown = {i \in 1 .. m : ToConsole(history[i])}
  BY <1>1 DEF Shown
<1>5. Shown' = Shown \cup {m + 1} /\ m + 1 \notin Shown
  BY <1>1, <1>2, <1>3, <1>4
<1>6. Cardinality(Shown') = c + 1
  BY <1>2, <1>5, FS_AddElement
<1>7. /\ output' \in Seq(Byte) /\ Len(output') = c + 1
      /\ output'[c + 1] = v
      /\ \A k \in 1 .. c : output'[k] = output[k]
  BY <1>2 DEF ConsoleOK
<1>8. ASSUME NEW i \in Shown PROVE output'[Rank(Shown', i)] = history'[i].value
  <2>1. {j \in Shown' : j <= i} = {j \in Shown : j <= i}
    BY <1>1, <1>2, <1>5
  <2>2. Rank(Shown', i) = Rank(Shown, i)
    BY <2>1 DEF Rank
  <2>3. output[Rank(Shown, i)] = history[i].value /\ history'[i] = history[i]
    BY <1>1, <1>2 DEF ConsoleOK
  <2> QED BY <1>2, <1>7, <2>2, <2>3
<1>9. output'[Rank(Shown', m + 1)] = history'[m + 1].value
  <2>1. {j \in Shown' : j <= m + 1} = Shown'
    <3>1. \A j \in Shown' : j <= m + 1
      BY <1>1, <1>2, <1>5
    <3> HIDE DEF m
    <3> QED BY <3>1
  <2>2. Rank(Shown', m + 1) = c + 1
    BY <1>6, <2>1 DEF Rank
  <2> QED BY <1>1, <1>7, <2>2
<1> QED BY <1>1, <1>5, <1>6, <1>7, <1>8, <1>9 DEF ConsoleOK, HistoryOK

LEMMA ConsoleNext == ConsoleOK /\ [Next]_allVars => ConsoleOK'
<1> SUFFICES ASSUME ConsoleOK, [Next]_allVars PROVE ConsoleOK'
  OBVIOUS
<1>1. CASE CpuWrites
  <2>1. PICK a \in Word, v \in Byte :
            /\ Batch(Entries("cpu", a, <<v>>), [c \in {a} \ {output_addr} |-> v])
            /\ output' = IF a = output_addr THEN Append(output, v) ELSE output
    BY <1>1, CpuWritesIsBatch
  <2> DEFINE es == Entries("cpu", a, <<v>>)
             cells == [c \in {a} \ {output_addr} |-> v]
  <2>2. Len(es) = 1 /\ es[1].by = "cpu" /\ es[1].at = a /\ es[1].value = v
    <3>1. <<v>> \in Seq(Byte) /\ Len(<<v>>) = 1 /\ <<v>>[1] = v
      OBVIOUS
    <3>2. EntriesOf(es, "cpu", a, <<v>>)
      BY <3>1, EntriesHold
    <3>3. Wrap16(a + 1 - 1) = a
      BY DEF Wrap16, Word
    <3> QED BY <3>1, <3>2, <3>3 DEF EntriesOf
  <2>3. Batch(es, cells)
    BY <2>1
  <2> HIDE DEF es, cells
  <2>4. ToConsole(es[1]) <=> a = output_addr
    BY <2>2 DEF ToConsole
  <2>5. CASE a = output_addr
    BY <2>1, <2>2, <2>3, <2>4, <2>5, ShowingBatch
  <2>6. CASE a # output_addr
    <3>1. \A i \in 1 .. Len(es) : ~ToConsole(es[i])
      BY <2>2, <2>4, <2>6
    <3> QED BY <2>1, <2>3, <2>6, <3>1, SilentBatch
  <2> QED BY <2>5, <2>6
<1>2. CASE HostPokes \/ HostLoads \/ HostSetsVector
  BY <1>2, HostActionsAreBatches, SilentBatch
<1>3. CASE UNCHANGED allVars
  BY <1>3 DEF allVars, dataVars, ConsoleOK, HistoryOK, Shown, ToConsole, Rank
<1> QED BY <1>1, <1>2, <1>3 DEF Next

\* The console shows the CPU's writes to its address, each once and in their
\* order, and nothing that the host stores there.
THEOREM ConsoleShowsEachWrite == Spec => []ConsoleShowsWrites
<1>1. Init => ConsoleOK
  <2> SUFFICES ASSUME Init PROVE ConsoleOK
    OBVIOUS
  <2>1. history = <<>> /\ output = <<>>
    BY DEF Init, BusInit
  <2>2. Shown = {}
    BY <2>1 DEF Shown
  <2> QED BY <2>1, <2>2, FS_EmptySet DEF ConsoleOK, HistoryOK
<1>2. ConsoleOK => ConsoleShowsWrites
  BY DEF ConsoleOK, ConsoleShowsWrites, Shown, Rank
<1> QED BY <1>1, <1>2, ConsoleNext, PTL DEF Spec

-----------------------------------------------------------------------------
(***************************************************************************)
(* The stack.  Every cell is a distance below sp modulo 256, and within a  *)
(* page equal distances are equal cells.                                   *)
(***************************************************************************)
\* Going into page one before or after an addition is the same.
LEMMA StackPageOfSum ==
    ASSUME NEW p \in Int, NEW i \in Int
    PROVE  /\ StackPage(StackPage(p) + i) = StackPage(p + i)
           /\ StackPage(p) \in PageOne
BY DEF StackPage, Wrap8, PageOne

\* Two distances less than a page apart are two cells.
LEMMA StackPageDistinct ==
    ASSUME NEW p \in Int, NEW q \in Int, p < q, q < p + 256
    PROVE  StackPage(p) # StackPage(q)
BY DEF StackPage, Wrap8

\* From an sp in page one every push writes in page one.
LEMMA PushSlotInPageOne ==
    ASSUME sp \in PageOne, NEW i \in 1 .. 256
    PROVE  PushSlot(i) = StackPage(sp - i + 1) /\ PushSlot(i) \in PageOne
<1>1. CASE i = 1
  BY <1>1 DEF PushSlot, StackPage, Wrap8, PageOne
<1>2. CASE i # 1
  <2>1. PushSlot(i) = StackPage(sp - (i - 1)) /\ sp - (i - 1) = sp - i + 1 /\ sp - i + 1 \in Int
    BY <1>2 DEF PushSlot, PageOne
  <2> QED BY <2>1, StackPageOfSum
<1> QED BY <1>1, <1>2

\* The bytes of a burst land in different cells, each in its own.
LEMMA PushCellsHold ==
    ASSUME sp \in PageOne, NEW n \in 1 .. 256, NEW bytes \in [1 .. n -> Bytes]
    PROVE  /\ Len(bytes) = n
           /\ DOMAIN PushCells(bytes) = {PushSlot(i) : i \in 1 .. n}
           /\ \A j \in 1 .. n : PushCells(bytes)[PushSlot(j)] = bytes[j]
<1>1. Len(bytes) = n
  OBVIOUS
<1>2. ASSUME NEW i \in 1 .. n, NEW j \in 1 .. n, PushSlot(i) = PushSlot(j)
      PROVE  i = j
  <2> i \in 1 .. 256 /\ j \in 1 .. 256 /\ sp \in Int
    BY DEF PageOne
  <2>1. StackPage(sp - i + 1) = StackPage(sp - j + 1)
    BY <1>2, PushSlotInPageOne
  <2>2. ~(i < j)
    <3>1. sp - j + 1 \in Int /\ sp - i + 1 \in Int /\ sp - i + 1 < (sp - j + 1) + 256
      OBVIOUS
    <3>2. i < j => sp - j + 1 < sp - i + 1
      OBVIOUS
    <3> QED BY <2>1, <3>1, <3>2, StackPageDistinct
  <2>3. ~(j < i)
    <3>1. sp - j + 1 \in Int /\ sp - i + 1 \in Int /\ sp - j + 1 < (sp - i + 1) + 256
      OBVIOUS
    <3>2. j < i => sp - i + 1 < sp - j + 1
      OBVIOUS
    <3> QED BY <2>1, <3>1, <3>2, StackPageDistinct
  <2> QED BY <2>2, <2>3
<1>3. ASSUME NEW j \in 1 .. n
      PROVE  PushCells(bytes)[PushSlot(j)] = bytes[j]
  <2>1. PushCells(bytes)[PushSlot(j)]
            = bytes[CHOOSE i \in 1 .. n : PushSlot(j) = PushSlot(i)]
    BY <1>1 DEF PushCells
  <2>2. (CHOOSE i \in 1 .. n : PushSlot(j) = PushSlot(i)) = j
    BY <1>2
  <2> QED BY <2>1, <2>2
<1>4. DOMAIN PushCells(bytes) = {PushSlot(i) : i \in 1 .. n}
  BY <1>1 DEF PushCells
<1> QED BY <1>1, <1>3, <1>4

-----------------------------------------------------------------------------
\* The numbers of a state, and how long a burst can be.
LEMMA StackNumbers ==
    ASSUME StackTypeOK
    PROVE  sp \in PageOne /\ sp \in Int /\ depth \in 0 .. 256
<1>1. sp \in PageOne /\ depth \in 0 .. 256
  BY DEF StackTypeOK
<1> QED BY <1>1 DEF PageOne

LEMMA BurstFits == ASSUME NEW n \in 1 .. Burst PROVE n \in 1 .. 256
<1>1. Burst \in 1 .. 256
  BY StackHostAssumption DEF StackHostAssumption
<1> QED BY <1>1

\* What a pull finds: a cell of page one, which Read finds in the RAM.
LEMMA PulledCell ==
    ASSUME StackTypeOK, NEW i \in Int
    PROVE  /\ Pulled(i) = memory[StackPage(sp + i)]
           /\ Pulled(i) \in Bytes
           /\ StackPage(sp + i) \in PageOne
<1>1. sp \in Int /\ sp + i \in Int
  BY StackNumbers
<1>2. StackPage(sp + i) \in PageOne
  BY <1>1, StackPageOfSum
<1>3. StackPage(sp + i) \in DOMAIN memory
  BY <1>2 DEF StackTypeOK
<1> QED BY <1>2, <1>3 DEF Pulled, Read, StackTypeOK

\* A push in page one changes its cells and no others.
LEMMA PushStores ==
    ASSUME StackTypeOK, NEW n \in 1 .. 256, NEW bytes \in [1 .. n -> Bytes], Push(bytes)
    PROVE  /\ sp' = StackPage(sp - n) /\ sp' \in PageOne
           /\ \A j \in 1 .. n : memory'[PushSlot(j)] = bytes[j]
           /\ \A a \in PageOne : (\A j \in 1 .. n : a # PushSlot(j)) => memory'[a] = memory[a]
           /\ DOMAIN memory' = DOMAIN memory
           /\ memory' \in [DOMAIN memory -> Bytes]
<1> DEFINE cells == [a \in DOMAIN PushCells(bytes) \ {output_addr} |-> PushCells(bytes)[a]]
<1>1. /\ Len(bytes) = n
      /\ DOMAIN PushCells(bytes) = {PushSlot(i) : i \in 1 .. n}
      /\ \A j \in 1 .. n : PushCells(bytes)[PushSlot(j)] = bytes[j]
  BY PushCellsHold DEF StackTypeOK
<1>2. sp' = StackPage(sp - n) /\ sp' \in PageOne
  <2>1. sp - n \in Int
    BY StackNumbers
  <2>2. sp' = StackPage(sp - n)
    BY <1>1 DEF Push
  <2> QED BY <2>1, <2>2, StackPageOfSum
<1>3. \A i \in 1 .. n : PushSlot(i) \in PageOne
  <2>1. \A i \in 1 .. n : i \in 1 .. 256
    OBVIOUS
  <2> QED BY <2>1, PushSlotInPageOne DEF StackTypeOK
<1>4. DOMAIN cells = {PushSlot(i) : i \in 1 .. n} /\ \A a \in DOMAIN cells : cells[a] = PushCells(bytes)[a]
  BY <1>1, <1>3, StackHostAssumption DEF StackHostAssumption
<1>5. memory' = Stored(memory, cells)
  BY DEF Push, Write
<1> HIDE DEF cells
<1>6. DOMAIN memory' = DOMAIN memory \cup DOMAIN cells
  BY <1>5 DEF Stored
<1>7. DOMAIN memory' = DOMAIN memory
  <2>1. DOMAIN cells \subseteq DOMAIN memory
    BY <1>3, <1>4 DEF StackTypeOK
  <2> QED BY <1>6, <2>1
<1>8. \A a \in DOMAIN memory : memory'[a] = IF a \in DOMAIN cells THEN cells[a] ELSE memory[a]
  BY <1>5, <1>6, <1>7 DEF Stored
<1>9. \A j \in 1 .. n : memory'[PushSlot(j)] = bytes[j]
  BY <1>1, <1>3, <1>4, <1>8 DEF StackTypeOK
<1>10. \A a \in PageOne : (\A j \in 1 .. n : a # PushSlot(j)) => memory'[a] = memory[a]
  BY <1>4, <1>8 DEF StackTypeOK
<1>11. memory' \in [DOMAIN memory -> Bytes]
  <2>1. \A a \in DOMAIN memory : memory'[a] \in Bytes
    <3> SUFFICES ASSUME NEW a \in DOMAIN memory
                 PROVE  memory'[a] \in Bytes
      OBVIOUS
    <3>1. CASE a \in DOMAIN cells
      BY <1>4, <1>9, <3>1
    <3>2. CASE a \notin DOMAIN cells
      BY <1>8, <3>2 DEF StackTypeOK
    <3> QED BY <3>1, <3>2
  <2>2. memory' = [a \in DOMAIN memory |-> memory'[a]]
    BY <1>5, <1>7 DEF Stored
  <2> QED BY <2>1, <2>2
<1> QED BY <1>2, <1>7, <1>9, <1>10, <1>11

-----------------------------------------------------------------------------
\* The type invariant holds of the first state and is kept by every step.
LEMMA StackTypeInit == StackInit => StackTypeOK
BY StackHostAssumption DEF StackHostAssumption, StackInit, StackTypeOK

LEMMA StackTypeStep == StackTypeOK /\ [StackNext]_stackVars => StackTypeOK'
<1> SUFFICES ASSUME StackTypeOK, [StackNext]_stackVars
             PROVE  StackTypeOK'
  OBVIOUS
<1>1. CASE UNCHANGED stackVars
  BY <1>1 DEF stackVars, dataVars, StackTypeOK
<1>2. ASSUME NEW n \in 1 .. Burst, PullSome(n)
      PROVE  StackTypeOK'
  <2>1. sp \in Int /\ depth \in 0 .. 256 /\ n \in Nat
    BY StackNumbers
  <2>2. sp + n \in Int
    BY <2>1
  <2>3. sp' \in PageOne
    BY <1>2, <2>2, StackPageOfSum DEF PullSome, Pull
  <2>4. depth' \in 0 .. 256
    BY <1>2, <2>1 DEF PullSome
  <2>5. memory' = memory
    BY <1>2 DEF PullSome, Pull, Quiet, dataVars
  <2> QED BY <2>3, <2>4, <2>5 DEF StackTypeOK
<1>3. ASSUME NEW n \in 1 .. Burst, NEW bytes \in [1 .. n -> Bytes], PushSome(bytes)
      PROVE  StackTypeOK'
  <2>1. n \in 1 .. 256
    BY BurstFits
  <2>2. /\ sp' \in PageOne
        /\ DOMAIN memory' = DOMAIN memory
        /\ memory' \in [DOMAIN memory -> Bytes]
    BY <1>3, <2>1, PushStores DEF PushSome
  <2>3. depth' \in 0 .. 256
    <3>1. depth \in 0 .. 256 /\ Len(bytes) = n
      BY StackNumbers
    <3>2. depth' = IF depth + n > 256 THEN 256 ELSE depth + n
      BY <1>3, <3>1 DEF PushSome
    <3> QED BY <3>1, <3>2
  <2> QED BY <2>2, <2>3 DEF StackTypeOK
<1> QED BY <1>1, <1>2, <1>3 DEF StackNext

\* Whatever is pushed and pulled, sp stays in page one and no more than the
\* page is counted as held.
THEOREM StackTypeCorrect == StackSpec => []StackTypeOK
<1>1. StackInit => StackTypeOK
  BY StackTypeInit
<1>2. StackTypeOK /\ [StackNext]_stackVars => StackTypeOK'
  BY StackTypeStep
<1> QED BY <1>1, <1>2, PTL DEF StackSpec

-----------------------------------------------------------------------------
\* A pull takes the newest bytes off the abstract stack.
LEMMA PullImplements ==
    ASSUME StackTypeOK, NEW n \in 1 .. 256, PullSome(n)
    PROVE  AsLifo!Pull(n)
<1>1. sp \in Int /\ depth \in 0 .. 256 /\ depth' = depth - n /\ n <= depth
  BY StackNumbers DEF PullSome
<1>2. Len(Contents) = depth /\ \A i \in 1 .. depth : Contents[i] = Pulled(i)
  BY <1>1 DEF Contents
<1>3. \A i \in 1 .. depth - n : Pulled(i)' = Pulled(n + i)
  <2> SUFFICES ASSUME NEW i \in 1 .. depth - n
               PROVE  Pulled(i)' = Pulled(n + i)
    OBVIOUS
  <2>1. sp + n \in Int /\ i \in Int /\ (sp + n) + i = sp + (n + i)
    BY <1>1
  <2>2. StackPage(sp' + i) = StackPage(sp + (n + i))
    BY <2>1, StackPageOfSum DEF PullSome, Pull
  <2>3. memory' = memory
    BY DEF PullSome, Pull, Quiet, dataVars
  <2> QED BY <2>2, <2>3 DEF Pulled, Read
<1>4. Contents' = [i \in 1 .. depth - n |-> Pulled(n + i)]
  BY <1>1, <1>3 DEF Contents
<1>5. Contents' = [i \in 1 .. Len(Contents) - n |-> Contents[n + i]]
  BY <1>1, <1>2, <1>4
<1>6. pulled' = [i \in 1 .. n |-> Contents[i]]
  BY <1>1, <1>2 DEF PullSome
<1> QED BY <1>1, <1>2, <1>5, <1>6 DEF AsLifo!Pull

\* A push puts its bytes on top and lets what no longer fits go.
LEMMA PushImplements ==
    ASSUME StackTypeOK, NEW n \in 1 .. 256, NEW bytes \in [1 .. n -> Bytes], PushSome(bytes)
    PROVE  AsLifo!Push(bytes)
<1> DEFINE kept == IF n + depth > 256 THEN 256 ELSE n + depth
<1>1. sp \in PageOne /\ sp \in Int /\ depth \in 0 .. 256 /\ Len(bytes) = n
  BY StackNumbers
<1>2. Len(Contents) = depth /\ \A i \in 1 .. depth : Contents[i] = Pulled(i)
  BY <1>1 DEF Contents
<1>3. depth' = kept /\ kept \in 0 .. 256
  BY <1>1 DEF PushSome
<1>4. /\ sp' = StackPage(sp - n)
      /\ \A j \in 1 .. n : memory'[PushSlot(j)] = bytes[j]
      /\ \A a \in PageOne : (\A j \in 1 .. n : a # PushSlot(j)) => memory'[a] = memory[a]
      /\ DOMAIN memory' = DOMAIN memory
  BY PushStores DEF PushSome
<1>5. \A i \in 1 .. 256 :
          Pulled(i)' = IF i <= n THEN bytes[n - i + 1] ELSE Pulled(i - n)
  <2> SUFFICES ASSUME NEW i \in 1 .. 256
               PROVE  Pulled(i)' = IF i <= n THEN bytes[n - i + 1] ELSE Pulled(i - n)
    OBVIOUS
  <2> DEFINE cell == StackPage(sp + (i - n))
  <2>1. sp - n \in Int /\ (sp - n) + i = sp + (i - n) /\ sp + (i - n) \in Int
    BY <1>1
  <2>2. StackPage(sp' + i) = cell /\ cell \in PageOne
    BY <1>4, <2>1, StackPageOfSum
  <2>3. Pulled(i)' = memory'[cell]
    <3>1. cell \in DOMAIN memory'
      BY <1>4, <2>2 DEF StackTypeOK
    <3> QED BY <2>2, <3>1 DEF Pulled, Read
  <2>4. CASE i <= n
    <3>1. n - i + 1 \in 1 .. n /\ n - i + 1 \in 1 .. 256 /\ sp - (n - i + 1) + 1 = sp + (i - n)
      BY <1>1, <2>4
    <3>2. PushSlot(n - i + 1) = cell
      BY <1>1, <3>1, PushSlotInPageOne
    <3> QED BY <1>4, <2>3, <2>4, <3>1, <3>2
  <2>5. CASE ~(i <= n)
    <3>1. \A j \in 1 .. n : cell # PushSlot(j)
      <4> SUFFICES ASSUME NEW j \in 1 .. n
                   PROVE  cell # PushSlot(j)
        OBVIOUS
      <4>1. j \in 1 .. 256 /\ sp - j + 1 \in Int /\ sp - j + 1 < sp + (i - n)
            /\ sp + (i - n) < (sp - j + 1) + 256
        BY <1>1, <2>5
      <4>2. PushSlot(j) = StackPage(sp - j + 1)
        BY <1>1, <4>1, PushSlotInPageOne
      <4> QED BY <2>1, <4>1, <4>2, StackPageDistinct
    <3>2. Pulled(i - n) = memory[cell]
      BY <2>5, PulledCell
    <3>3. memory'[cell] = memory[cell]
      BY <1>4, <2>2, <3>1
    <3> QED BY <2>3, <2>5, <3>2, <3>3
  <2> QED BY <2>4, <2>5
<1>6. \A i \in 1 .. kept :
          Pulled(i)' = IF i <= Len(bytes) THEN bytes[Len(bytes) - i + 1] ELSE Contents[i - Len(bytes)]
  <2> SUFFICES ASSUME NEW i \in 1 .. kept
               PROVE  Pulled(i)' = IF i <= n THEN bytes[n - i + 1] ELSE Contents[i - n]
    BY <1>1
  <2>1. i \in 1 .. 256 /\ (~(i <= n) => i - n \in 1 .. depth)
    BY <1>1
  <2> QED BY <1>2, <1>5, <2>1
<1>7. Contents' = [i \in 1 .. kept |-> Pulled(i)']
  BY <1>3 DEF Contents
<1>8. AsLifo!Kept(Len(bytes) + Len(Contents)) = kept
  BY <1>1, <1>2 DEF AsLifo!Kept
<1> HIDE DEF kept
<1>9. Contents' = [i \in 1 .. kept |-> IF i <= Len(bytes) THEN bytes[Len(bytes) - i + 1]
                                                        ELSE Contents[i - Len(bytes)]]
  BY <1>6, <1>7
<1>10. pulled' = pulled
  BY DEF PushSome
<1> QED BY <1>8, <1>9, <1>10 DEF AsLifo!Push

\* The stack that the host sees is the abstract one: every push and pull of it
\* is one of the abstract stack, at every sp and every depth.
THEOREM StackImplementsLifo == StackSpec => StackIsLifo
<1>1. StackInit => AsLifo!Init
  <2> SUFFICES ASSUME StackInit
               PROVE  AsLifo!Init
    OBVIOUS
  <2>1. StackTypeOK
    BY StackTypeInit
  <2>2. depth \in 0 .. 256
    BY <2>1, StackNumbers
  <2>3. \A i \in 1 .. depth : Pulled(i) \in Bytes
    BY <2>1, <2>2, PulledCell
  <2>4. Contents \in Seq(Bytes) /\ Len(Contents) = depth
    BY <2>2, <2>3 DEF Contents
  <2>5. pulled = <<>>
    BY DEF StackInit
  <2> QED BY <2>2, <2>4, <2>5 DEF AsLifo!Init
<1>2. StackTypeOK /\ [StackNext]_stackVars => [AsLifo!Next]_AsLifo!vars
  <2> SUFFICES ASSUME StackTypeOK, [StackNext]_stackVars
               PROVE  AsLifo!Next \/ UNCHANGED AsLifo!vars
    OBVIOUS
  <2>1. CASE UNCHANGED stackVars
    <3>1. memory' = memory /\ sp' = sp /\ depth' = depth /\ pulled' = pulled
      BY <2>1 DEF stackVars, dataVars
    <3> QED BY <3>1 DEF AsLifo!vars, Contents, Pulled, Read
  <2>2. ASSUME NEW n \in 1 .. Burst, PullSome(n)
        PROVE  AsLifo!Next
    <3>1. n \in 1 .. 256
      BY BurstFits
    <3>2. AsLifo!Pull(n)
      BY <2>2, <3>1, PullImplements
    <3> QED BY <3>2 DEF AsLifo!Next
  <2>3. ASSUME NEW n \in 1 .. Burst, NEW bytes \in [1 .. n -> Bytes], PushSome(bytes)
        PROVE  AsLifo!Next
    <3>1. n \in 1 .. 256
      BY BurstFits
    <3>2. AsLifo!Push(bytes)
      BY <2>3, <3>1, PushImplements
    <3> QED BY <3>2 DEF AsLifo!Next
  <2> QED BY <2>1, <2>2, <2>3 DEF StackNext
<1> QED BY <1>1, <1>2, StackTypeCorrect, PTL DEF StackSpec, StackIsLifo, AsLifo!Spec
===============================================================================
