SPECIFICATION Spec
CONSTANTS
    None = None  NextUpdateIn = 1  MaxSafeEpoch = 1000
    commissioned = commissioned  manual = manual
    crit = crit  minor = minor  a1 = a1  a2 = a2
    Reviews <- OneReview  EngineReviews = {commissioned}
    Embargo <- AlsoOneDay  Ordered = {commissioned}
    FindingIds = {crit, minor}  Critical = {crit}
    AttIds = {a1, a2}  IdsOf <- TwoIds
    Coverages = {"none", "complete"}  Refusals = {TRUE, FALSE}
    MaxTime = 1  MaxCrashes = 1  MaxFaults = 1
INVARIANTS SignedWhole EmbargoKept
PROPERTIES FrozenOnceSigned
CHECK_DEADLOCK FALSE
