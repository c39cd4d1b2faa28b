CONSTANTS
    NumBackends = 2
    c1 = c1
    c2 = c2
    Conns = {c1, c2}
    HashOf <- MCHashOf
    CounterSize = 4
SPECIFICATION FairSpec
INVARIANTS
    TypeOK
    GuardsCounted
    LeastWhenCalm
PROPERTIES
    Drains
    RequestsEnd
