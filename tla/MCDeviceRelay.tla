---------------------------- MODULE MCDeviceRelay ----------------------------
(* Small instances of DeviceRelay for TLC. *)
EXTENDS DeviceRelay, TLC

CONSTANTS d1, g1

OneGateway == [r \in Relay |-> g1]
NoDevice == {}
FirstDevice == {d1}

(* Request slots are interchangeable. *)
SlotSymmetry == Permutations(Request)
==============================================================================
