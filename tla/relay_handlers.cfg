CONSTANTS
    d1 = d1
    g1 = g1
    Device = {d1}
    Relay = {r1}
    Gateway = {g1}
    GatewayOf <- OneGateway
    Request = {q1, q2}
    Installed <- NoDevice
SPECIFICATION Spec
SYMMETRY SlotSymmetry
INVARIANT IInv
PROPERTIES ObservedBeforeShown GoneForGood ImplementsMirror
