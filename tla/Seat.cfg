SPECIFICATION FairSpec
CONSTANTS
    None = None  a = a  b = b
    Ids = {1, 2}  Drafts <- MCDrafts  Orders <- MCOrders
    Bodies = {a, b}  StatusKeys = {a, b}  Plans <- MCPlans
    MaxInbox = 2  MaxRevisions = 1  MaxTroubles = 1
INVARIANTS SeatSound
PROPERTIES ListOnlyGrows  Recovers
CHECK_DEADLOCK FALSE
