SPECIFICATION FairSpec
CONSTANTS
    ca = ca
    cb = cb
    Ids = {ca, cb}
    NoId = NoId
    MaxSeq = 6
INVARIANTS
    ExecutorPromise
    ExecInv
PROPERTIES ClaimResolved
    KeepsPromise
