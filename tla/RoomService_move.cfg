SPECIFICATION Spec
SYMMETRY Symmetry
CONSTANTS
    u1 = u1
    u2 = u2
    u3 = u3
    User = {u1, u2, u3}
    System = System
    Global = Global
    r1 = r1
    r2 = r2
    RoomName = {Global, r1, r2}
    MatchRoom = {}
    ClientRoom = {r1, r2}
    PoolRoom = {}
    Capacity = {4}
    MatchCapacity = 4
    GlobalCapacity = 4
    Password = {}
    NoPassword = NoPassword
    None = None
    Ops = {"join", "leave", "create", "disconnect"}
INVARIANTS
    TypeOK
    SettledInOneRoom
    NoGhosts
