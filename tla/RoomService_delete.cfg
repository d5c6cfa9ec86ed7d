SPECIFICATION Spec
SYMMETRY Symmetry
CONSTANTS
    u1 = u1
    u2 = u2
    User = {u1, u2}
    System = System
    Global = Global
    r1 = r1
    RoomName = {Global, r1}
    MatchRoom = {}
    ClientRoom = {r1}
    PoolRoom = {}
    Capacity = {2}
    MatchCapacity = 2
    GlobalCapacity = 4
    Password = {}
    NoPassword = NoPassword
    None = None
    Ops = {"create", "delete"}
PROPERTIES
    OnlyOwnerDeletes
