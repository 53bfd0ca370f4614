CONSTANTS
    a = a
    v1 = v1
    v2 = v2
    r1 = r1
    rev = rev
    Facts = {a, v1, v2}
    NoFact = NoFact
    RevRows <- MCRevRows
    Swaps <- MCSwaps
    Rels = {r1, rev}
    NoRel = NoRel
    RelOf <- MCRelOf
    MaxWal = 1
    MaxTxn = 2
    MaxTxnWal = 1
    Features = {"direct"}
SPECIFICATION Spec
INVARIANT RecoveryExact
CONSTRAINT SwapLast
