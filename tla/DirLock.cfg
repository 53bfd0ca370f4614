CONSTANTS
    WriterProcs = {p1, p2}
    ReaderProcs = {p3, p4}
    MaxTries = 1
SPECIFICATION FairSpec
INVARIANTS OneWriter WindowExclusive
PROPERTIES KeepsLockContract QueueServed ReaderBounded WindowServed
