\* Re-application of final escrow events.
SPECIFICATION Spec
CONSTANTS
    cv = cv
    ce = ce
    cf = cf
    ci = ci
    k1 = k1
    Contracts = {ce}
    ContractName <- NameOf
    Keys <- OneKey
    Amounts = {0, 1, 2}
    MaxBigint = 3
    NULL = NULL
    NoRow = NoRow
    Ingesters = {w1}
    Emits <- EmitsOf
    Slots <- OneSlot
    Quiet = Quiet
    FirstContract = ce
    NextContract <- InOrder
    Cutoff = 1
    RewindWhileRunning = FALSE
    NoCursor = NoCursor
    MaxHead = 4
    MaxFaults = 0
    MaxReorgs = 0
INVARIANTS
    ReplaySafe
