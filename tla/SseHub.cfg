CONSTANTS
    Buses = {b1, b2, b3}
    Clients = {p1, p2, p3, p4}
    Resubs = {r1, r2}
    NumChannels = 2
    MaxFaults = 2
    NoBus = NoBus
    NoClient = NoClient
    Browsers = {s1, s2}
SPECIFICATION FairSpec
INVARIANTS
    TypeOK
    SubscribedBrowsersAreServed
    OneListenConnection
PROPERTIES
    SharedHubSpec
    UnwatchedHubStops
    EveryChannelIsHeard
