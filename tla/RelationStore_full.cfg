CONSTANTS
    Facts = {a, b}
    NoFact = NoFact
    MaxWal = 4
    Features = {"load", "compact", "iofail"}
SPECIFICATION Spec
INVARIANTS ReadsAreCurrent KillSafe PowerSafe
PROPERTY KeepsPromise
