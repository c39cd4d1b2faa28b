CONSTANTS
    NumBackends = 2
    WeightOf <- MCWeightOf
    Callers = {t1}
    I64Min <- MCI64Min
SPECIFICATION Spec
INVARIANTS
    SelectReturns
