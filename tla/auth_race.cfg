\* Two verifications at a time.
SPECIFICATION Spec
SYMMETRY Symmetry
CONSTANTS
    h1 = h1
    h2 = h2
    t1 = t1
    t2 = t2
    n1 = n1
    n2 = n2
    Handlers = {h1, h2}
    Addresses = {a1}
    Malformed = Malformed
    Domains = {d1}
    Nonces = {n1}
    Tokens = {t1, t2}
    ChallengeTTL = 1
    SessionTTL = 1
    NoRow = NoRow
    NoReq = NoReq
    MaxTime = 2
    MaxFaults = 0
INVARIANTS
    SingleUse
