CONSTANTS
    NumBackends = 3
    a1 = a1
    a2 = a2
    Addr = {a1, a2}
    AddrOf <- MCAddrOf
    Markers = {m1, m2}
SPECIFICATION PoolSpec
INVARIANTS
    QuiescentCacheExact
