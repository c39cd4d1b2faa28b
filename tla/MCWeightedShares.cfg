CONSTANTS
    NumBackends = 3
    WeightOf <- MCWeightOf
    Callers = {t1, t2}
    I64Min <- MCI64Min
SPECIFICATION TrailsSpec
SYMMETRY MCSymmetry
INVARIANTS
    ExactShares
    NoBurst
    LessThanOneAhead
    DriftBounded
    SelectReturns
    Trailed
