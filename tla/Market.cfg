SPECIFICATION Spec
CONSTANTS
    None = None
    alice = alice  bob = bob  q1 = q1  q2 = q2  dave = dave  eve = eve
    src = src  free = free  o1 = o1  o2 = o2
    Slugs = {alice, bob}
    Requests <- MCRequests  Offers <- OneOffer  Orders <- MCOrders
    MaxOpen = 1  MaxInbox = 1  MaxTime = 1  MaxAsking = 1  MaxCrashes = 1  MaxFaults = 1
INVARIANTS RequestsSound OrdersKept
PROPERTY ClosedByOrder
CHECK_DEADLOCK FALSE
