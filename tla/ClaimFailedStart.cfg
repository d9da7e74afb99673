CONSTANTS
    Buses = {b1, b2, b3}
    Clients = {p1, p2, p3, p4}
    Resubs = {r1, r2}
    NumChannels = 2
    MaxFaults = 1
    NoBus = NoBus
    NoClient = NoClient
    Browsers = {s1, s2}
SPECIFICATION Spec
INVARIANT
    FailedStartLeavesNothing
