SPECIFICATION RoomSpec
CONSTANTS
    Users = {creator, teammate}
    Creator = creator
    Requests = {request1, request2}
    MaxRequests = 4
    MaxEvents = 1
INVARIANT LastOwner
CHECK_DEADLOCK FALSE
