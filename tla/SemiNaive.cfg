CONSTANTS
    e = e
    g = g
    u = u
    v = v
    w = w
    Facts = {e, g, u, v, w}
    Heads = {u, v, w}
    RuleSets <- MCRuleSets
SPECIFICATION FixpointFairSpec
INVARIANTS Exact
PROPERTY Terminates
CHECK_DEADLOCK FALSE
