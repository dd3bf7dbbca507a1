------------------------------- MODULE MC_bus -------------------------------
\* Addresses at both ends of the address space and at the console.
EXTENDS BusHost

MCAddresses == {0, 61440, 61441, 65533, 65535}
MCBlocks    == {<<7, 8>>, <<7, 8, 9>>}
=============================================================================
