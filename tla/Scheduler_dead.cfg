SPECIFICATION FairSpec
CONSTANTS
    b1 = b1
    b2 = b2
    Broadcast = {b1, b2}
    r1 = r1
    r2 = r2
    RoomName = {r1, r2}
    MaxTime = 1
    MaxSent = 2
    None = None
    Ops = {"delete"}
PROPERTIES
    DeliveredIfPossible
