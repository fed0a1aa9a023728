SPECIFICATION Spec
CONSTANTS
    None = None
    alice = alice  bob = bob
    Addresses = {alice, bob}  Studios = {alice, bob}
    Burst = 2  Rate = 1  Costs = {1, 2}  MaxBuckets = 0
    ClaimCost = 1  RegisterCost = 2
    TTL = 2  MaxUntil = 2  MaxVersion = 2  MaxKeys = 2
    MaxCrashes = 1  MaxFaults = 1
INVARIANTS NameSound
PROPERTIES Succession LimiterPromise
SYMMETRY Swaps
CHECK_DEADLOCK FALSE
