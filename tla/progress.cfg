\* Progress under a fault and a re-org, next to a contract that cannot be projected.
SPECIFICATION FairSpec
CONSTANTS
    cv = cv
    ce = ce
    cf = cf
    ci = ci
    k1 = k1
    Contracts = {cv, ce}
    ContractName <- NameOf
    Keys <- OneKey
    Amounts = {0, 1, 2}
    MaxBigint = 1
    NULL = NULL
    NoRow = NoRow
    Ingesters = {w1}
    Emits <- EmitsPoison
    Slots <- OneSlot
    Quiet = Quiet
    FirstContract = ce
    NextContract <- InOrder
    Cutoff = 1
    RewindWhileRunning = FALSE
    NoCursor = NoCursor
    MaxHead = 3
    MaxFaults = 1
    MaxReorgs = 1
PROPERTIES
    CursorMonotone
    EventuallyStored
    AppliedWhenNewer
