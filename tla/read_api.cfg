\* Every list, walked through while its table changes, and the gets.
SPECIFICATION Spec
CONSTANTS
    cv = cv
    ce = ce
    cf = cf
    ci = ci
    Contracts = {cv, ce, cf, ci}
    ContractName <- NameOf
    Keys <- Counters
    Amounts = {1}
    MaxBigint = 9
    NULL = NULL
    NoRow = NoRow
    Resources <- AllResources
    Emits <- EmitsOf
    Filters <- FiltersOf
    StartPages <- Pages
    PageSizes = {0, 4}
    MaxPageSize = 2
    StopRule <- StopRuleOf
    MaxI64 = 3
    PadWidth = 1
    MaxU64 = 19
    MaxFeed <- MaxFeedOf
INVARIANTS
    TypeOK
    WalkSeesAll
    TotalCoversPage
    PromisedPageNonEmpty
    ExistingIsFound
    OnlyOverflowRejected
