SPECIFICATION Spec
CONSTANTS
    None = None
    site = site  alice = alice  bob = bob  courier = courier
    Own = site  Hosted = {alice, bob}  Founders = {bob}  Rank <- MCRank
    Attestations = {}  Worlds = {}  Lives = {2, 9}
    MaxEntries = 2  Window = 1  Renew = 0  Gap = 1  Goroutines = {1, 2}
    MaxTime = 2  MaxEdits = 2  MaxMishaps = 1
INVARIANTS ChainSound QuietMeansListed
PROPERTIES OneSuccessor ChangeRate NewcomersWait
CHECK_DEADLOCK FALSE
