\* One farmer, another wallet, two handlers, the projection, a fault, a restart.
SPECIFICATION Spec
SYMMETRY Symmetry
CONSTANTS
    ci = ci
    m0 = m0
    Contracts = {ci}
    ContractName <- IdentityOnly
    IdentityContract = ci
    Emits <- EmitsOf
    Keys = {k1}
    Wallets = {k1, k2}
    Amounts <- NoAmount
    MaxBigint = 1
    NULL = NULL
    NoRow = NoRow
    Handlers = {h1, h2}
    Metadata = {m0, m1, m2}
    Blank <- BlankProfile
    EmptyObject = EmptyObject
    Malformed = Malformed
    Anonymous = Anonymous
    StubLedger = 10
    MaxFeed = 2
    MaxFaults = 1
    MaxRestarts = 1
INVARIANTS
    TypeOK
    OwnProfile
    LatestStored
    RegisteredIsStored
    CreatedReadable
PROPERTIES
    CreatedOnce
    ReadYourUpdate
    NoInternalError
