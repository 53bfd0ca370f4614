CONSTANTS
    m = m
    r = r
    u = u
    v = v
    w = w
    v2 = v2
    NRels = 5
    StratumCap = 8
    Facts <- MCFacts
    RelOf <- MCRelOf
    Inputs = {m, r, v}
    Programs <- Joins
    ValuesOf <- MCValuesOf
    Fragile = {m}
    RebuildDenom = 1
    AdHoc <- MCAdHoc
SPECIFICATION Spec
INVARIANT DeletesExact
