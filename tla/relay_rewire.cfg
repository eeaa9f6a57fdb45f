CONSTANTS
    d1 = d1
    g1 = g1
    Device = {d1}
    Relay = {r1, r2}
    Gateway = {g1}
    GatewayOf <- OneGateway
    Request = {q1}
    Installed <- FirstDevice
SPECIFICATION FairSpec
INVARIANT Evidence
PROPERTIES HandlersReturn EventuallySynced ImplementsMirror
