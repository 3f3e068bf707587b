\* rewind called while the indexer keeps polling.
SPECIFICATION Spec
CONSTANTS
    cv = cv
    ce = ce
    cf = cf
    ci = ci
    k1 = k1
    Contracts = {cv}
    ContractName <- NameOf
    Keys <- OneKey
    Amounts = {0, 1, 2}
    MaxBigint = 3
    NULL = NULL
    NoRow = NoRow
    Ingesters = {w1}
    Emits <- EmitsOf
    Slots <- OneSlot
    Quiet = Quiet
    FirstContract = cv
    NextContract <- InOrder
    Cutoff = 1
    RewindWhileRunning = TRUE
    NoCursor = NoCursor
    MaxHead = 3
    MaxFaults = 0
    MaxReorgs = 1
INVARIANTS
    NoGap
