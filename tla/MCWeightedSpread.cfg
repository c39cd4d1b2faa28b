CONSTANTS
    NumBackends = 3
    WeightOf <- MCWeightOf
    Callers = {t1, t2}
    I64Min <- MCI64Min
SPECIFICATION SpreadSpec
SYMMETRY MCSymmetry
INVARIANTS
    TypeOK
    CreditsConserved
    SpreadBounded
