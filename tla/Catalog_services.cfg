SPECIFICATION Spec
CONSTANTS
    None = None
    site = site  alice = alice  bob = bob  courier = courier
    Own = site  Hosted = {alice}  Founders = {alice}  Rank <- MCRank
    Attestations <- MCAttestations  Worlds <- MCWorlds  Lives = {9}
    MaxEntries = 2  Window = 1  Renew = 0  Gap = 1  Goroutines = {1, 2}
    MaxTime = 1  MaxEdits = 2  MaxMishaps = 1
PROPERTIES ServicesCatchUp Renewed
CHECK_DEADLOCK FALSE
