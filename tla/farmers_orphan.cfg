SPECIFICATION RetrySpec
CONSTANTS
    ci = ci
    m0 = m0
    Contracts = {ci}
    ContractName <- IdentityOnly
    IdentityContract = ci
    Emits <- EmitsOf
    Keys = {k1}
    Wallets = {k1, k2}
    Amounts <- NoAmount
    MaxBigint = 1
    NULL = NULL
    NoRow = NoRow
    Handlers = {h1}
    Metadata = {m0, m1}
    Blank <- BlankProfile
    EmptyObject = EmptyObject
    Malformed = Malformed
    Anonymous = Anonymous
    StubLedger = 10
    MaxFeed = 0
    MaxFaults = 1
    MaxRestarts = 0
PROPERTY RegistrationPersisted
