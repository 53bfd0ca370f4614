CONSTANTS
    a = a
    b = b
    c = c
    r1 = r1
    r2 = r2
    Facts = {a, b, c}
    NoFact = NoFact
    Rels = {r1, r2}
    RelOf <- TwoRelations
    Readers = {p}
    Txns <- Exchanges
    MaxWal = 2
    MaxTxnWal = 1
    MaxMoments = 3
SPECIFICATION Spec
INVARIANTS ReadsRealState
PROPERTY OpenIsAtomic
SYMMETRY Symmetry
CONSTRAINT FewMoments
