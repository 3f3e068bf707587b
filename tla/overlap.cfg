\* Two instances of the indexer on one database, a re-org and a fault.
SPECIFICATION Spec
CONSTANTS
    cv = cv
    ce = ce
    cf = cf
    ci = ci
    k1 = k1
    Contracts = {cv}
    ContractName <- NameOf
    Keys <- OneKey
    Amounts = {0, 1, 2}
    MaxBigint = 3
    NULL = NULL
    NoRow = NoRow
    Ingesters = {w1, w2}
    Emits <- EmitsOf
    Slots <- OneSlot
    Quiet = Quiet
    FirstContract = cv
    NextContract <- InOrder
    Cutoff = 1
    RewindWhileRunning = FALSE
    NoCursor = NoCursor
    MaxHead = 3
    MaxFaults = 1
    MaxReorgs = 1
INVARIANTS
    TypeOK
    NoGap
    NoOrphans
    FinalityGate
    VerificationsReplaySafe
    VerificationsExact
PROPERTIES
    RevocationPermanent
    ImplementsLog
