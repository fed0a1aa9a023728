SPECIFICATION Spec
CONSTANTS
    None = None
    v1 = v1  v2 = v2  report = report  o1 = o1  r1 = r1
    NextUpdateIn = 2  MaxSafeEpoch = 1000
    Ids <- MCIds  Atts <- AttsAll  Revs <- RevOne  Orders <- MCOrders
    OrderIds = {o1}  DocNames = {report}  Versions = {v1, v2}
    Manifests <- ManifestForever  RespIds = {r1}
    MaxResponses = 1  MaxInbox = 1  Quota = 5  Skew = 0
    MaxTime = 2  MaxCrashes = 1  MaxFaults = 1  MaxSteps = 1
INVARIANTS ListMatchesTree QueueSound
PROPERTIES NeverModified EmbargoKept ReleasedWhole EpochAdvances ListOnlyGrows
CHECK_DEADLOCK FALSE
