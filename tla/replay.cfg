\* Re-application of final events after aborted passes.
SPECIFICATION Spec
CONSTANTS
    cv = cv
    ce = ce
    cf = cf
    ci = ci
    k1 = k1
    Contracts = {cv, ce, cf, ci}
    ContractName <- NameOf
    Keys <- OneKey
    Amounts = {0, 1, 2}
    MaxBigint = 4
    NULL = NULL
    NoRow = NoRow
    Ingesters = {w1}
    Emits <- EmitsOf
    Slots <- OneSlot
    Quiet = Quiet
    FirstContract = cv
    NextContract <- InOrder
    Cutoff = 1
    RewindWhileRunning = FALSE
    NoCursor = NoCursor
    MaxHead = 4
    MaxFaults = 1
    MaxReorgs = 0
INVARIANTS
    ReplaySafeButReleases
    ReleasesNotLost
