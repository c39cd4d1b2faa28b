CONSTANTS
    NumBackends = 2
    a1 = a1
    a2 = a2
    Addr = {a1, a2}
    AddrOf <- MCAddrOf
    Markers = {c1}
    HealthyThreshold = 2
    UnhealthyThreshold = 2
    CounterSize = 3
SPECIFICATION FairSpec
INVARIANTS
    TypeOK
    RotationMatchesCounts
    GaugeTracksFlag
PROPERTIES
    ImplementsHealthMachine
    DownLeavesRotation
    UpReturnsToRotation
    CancellationStops
