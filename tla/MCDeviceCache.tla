---------------------------- MODULE MCDeviceCache -----------------------------
(* Small instances of DeviceCache for TLC. *)
EXTENDS DeviceCache, TLC

CONSTANT r1

InFirst == [d \in Device |-> r1]

Symmetry == Permutations(Slot)
==============================================================================
