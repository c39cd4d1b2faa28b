CONSTANTS
    Recorders = {r1, r2}
    Labels = {"none"}
    Statuses = {200, 503}
    ActiveCounts = {1}
    MaxUpdates = 2
    Backends = {b1}
    Scrapers = {k1}
    Probers = {k2}
    GatherOrder <- MCGatherOrder
SPECIFICATION FairSpec
INVARIANTS
    TypeOK
    RecordsPaired
    ScrapeBracketed
PROPERTIES
    ReadyzSettles
    BacklogResolved
    CancellationEndsLoop
