------------------------------- MODULE BusHost -------------------------------
(***************************************************************************)
(* The data side of a bus on its own: a host that loads, pokes and sets    *)
(* vectors, and a CPU that writes, in any order.  history records what was *)
(* asked of the bus, one entry per byte.                                   *)
(***************************************************************************)
EXTENDS Bus, FiniteSets

CONSTANTS
    Addresses,    \* where the host and the CPU write
    Values,       \* what they write
    Blocks,       \* the byte sequences that are loaded
    MaxStores     \* a bound on the length of history

ASSUME BusHostAssumption ==
    /\ Addresses \subseteq Word
    /\ Values \subseteq Byte
    /\ Blocks \subseteq Seq(Byte) /\ \A b \in Blocks : Len(b) <= 65536
    /\ MaxStores \in Nat

VARIABLE history

allVars == <<lineVars, dataVars, history>>

Entries(by, addr, bytes) ==
    [i \in 1 .. Len(bytes) |-> [by |-> by, at |-> (addr + i - 1) % 65536, value |-> bytes[i]]]

Recorded(by, addr, bytes) ==
    /\ Len(history) + Len(bytes) <= MaxStores
    /\ history' = history \o Entries(by, addr, bytes)

Init == BusInit /\ history = <<>>

CpuWrites == \E a \in Addresses, v \in Values :
    Recorded("cpu", a, <<v>>) /\ Write([c \in {a} |-> v]) /\ UNCHANGED lineVars

HostPokes == \E a \in Addresses, v \in Values :
    Recorded("host", a, <<v>>) /\ Poke(a, v)

HostLoads == \E a \in Addresses, b \in Blocks : Recorded("host", a, b) /\ Load(a, b)

HostSetsVector ==
    \E v \in {ResetVector, NmiVector, IrqVector}, target \in Addresses :
        Recorded("host", v, <<target % 256, target \div 256>>) /\ SetVector(v, target)

Next == CpuWrites \/ HostPokes \/ HostLoads \/ HostSetsVector

Spec == Init /\ [][Next]_allVars

-----------------------------------------------------------------------------
ToConsole(e) == e.by = "cpu" /\ e.at = output_addr

\* RAM is a memory: a read returns the last byte that was stored there by the
\* host or the CPU, in whatever order and overlap, also where a load wraps
\* past $FFFF into page zero; a CPU write to the console leaves the cell alone.
ReadsLastStore ==
    \A a \in {e.at : e \in {history[i] : i \in DOMAIN history}} :
        LET stores == {i \in DOMAIN history : history[i].at = a /\ ~ToConsole(history[i])}
        IN  IF stores = {} THEN Read(a) = 0
            ELSE Read(a) = history[CHOOSE i \in stores : \A j \in stores : j <= i].value

\* The console shows the CPU's writes to its address and nothing else: the n-th
\* of them is the n-th byte of the output; loads and pokes that pass over the
\* address print nothing.
ConsoleShowsWrites ==
    LET writes == {i \in DOMAIN history : ToConsole(history[i])}
    IN  /\ Len(output) = Cardinality(writes)
        /\ \A i \in writes : output[Cardinality({j \in writes : j <= i})] = history[i].value
=============================================================================
