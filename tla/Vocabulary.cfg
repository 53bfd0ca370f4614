CONSTANTS
    Names = {a, b, c}
    MaxIds = 2
    MaxSnaps = 2
SPECIFICATION Spec
INVARIANTS FactsKeepMeaning SnapshotIdsHold
PROPERTY KeepsNameContract
SYMMETRY Symmetry
CONSTRAINT NothingLost
