SPECIFICATION Spec
CONSTANTS
    None = None  NextUpdateIn = 2  MaxSafeEpoch = 1000
    keeper = keeper
    Ids <- MCIds  Atts <- MCAtts  Revs <- MCRevs
    Clients = {keeper}  Retaining = {keeper}  Credited = {keeper}  Omitting = {}
    Offset <- SlowClock  Skew = 1  MaxTime = 5  MaxLists = 2
INVARIANTS RevocationReaches RelianceIsExact OverStaysOver HonestListUsable
CHECK_DEADLOCK FALSE
