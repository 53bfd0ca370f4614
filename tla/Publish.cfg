CONSTANTS
    Rels = {r, s}
    Contents = {x, y}
    Missing = Missing
    Retain = 2
    MaxVersion = 3
    MaxRev = 1
    Slots = 1
SPECIFICATION Spec
INVARIANTS CurrentComplete SkipIsSound ViewsCoherent
PROPERTY KeepsSnapshotContract
SYMMETRY Symmetry
