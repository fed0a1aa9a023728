SPECIFICATION Spec
CONSTANTS
    None = None  NextUpdateIn = 1  MaxSafeEpoch = 1000
    commissioned = commissioned  manual = manual
    crit = crit  minor = minor  a1 = a1  a2 = a2
    Reviews <- TwoReviews  EngineReviews = {commissioned}
    Embargo <- OneDay  Ordered = {commissioned}
    FindingIds = {crit}  Critical = {crit}
    AttIds = {a1, a2}  IdsOf <- OwnIds
    Coverages = {"complete"}  Refusals = {FALSE}
    MaxTime = 1  MaxCrashes = 0  MaxFaults = 1
INVARIANTS ListMatchesTree
PROPERTIES NeverModified
CHECK_DEADLOCK FALSE
