SPECIFICATION Spec
SYMMETRY Symmetry
CONSTANTS
    b1 = b1
    b2 = b2
    b3 = b3
    Broadcast = {b1, b2, b3}
    r1 = r1
    r2 = r2
    RoomName = {r1, r2}
    MaxTime = 2
    MaxSent = 2
    None = None
    Ops = {"delete", "unpadded", "crash"}
INVARIANTS
    SentWasDispatched
    
