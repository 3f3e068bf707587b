\* Two events in a page, chains of at most six events, one re-org.
SPECIFICATION Spec
CONSTANTS
    PageLimit = 2
    PerLedger = 2
    MaxLedger = 3
    MaxReorgs = 1
    NoPage = NoPage
INVARIANT TypeOK
PROPERTY ReadsAtomically
