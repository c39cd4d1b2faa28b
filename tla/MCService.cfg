CONSTANTS
    Text = {"a", "alias of a", "b", "bad"}
    SocketAddr <- MCSocketAddr
    c1 = c1
    c2 = c2
    Clients = {c1, c2}
    OctetsOf <- MCOctetsOf
    CounterSize = 4
    Files <- MCFiles
    Environments <- MCEnvironments
SPECIFICATION Spec
INVARIANTS
    TypeOK
    PoolAlwaysBuilds
    AliasesOnly
    InTurn
    Affinity
CHECK_DEADLOCK FALSE
