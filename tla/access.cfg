SPECIFICATION AccessSpec
CONSTANTS
    ResourceTypes <- Types
    Admins = {a1, a2}
    AdminRequests <- MCAdminRequests
    EventTable <- MCEvents
    Arriving <- MCArriving
    Edges <- MCEdges
    ReadRequests <- MCReads
    WriteRequests <- MCWrites
    Verifications = {"v"}
    MaxAdmin = 3
    MaxChanges = 1
    MaxWalks = 1
SYMMETRY Symmetric

INVARIANTS TableFollowsLog WalkIsExact
 
CHECK_DEADLOCK FALSE
