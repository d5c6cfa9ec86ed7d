SPECIFICATION FairSpec
CONSTANTS
    u1 = u1
    u2 = u2
    u3 = u3
    User = {u1, u2, u3}
    System = System
    Global = Global
    m1 = m1
    RoomName = {Global, m1}
    MatchRoom = {m1}
    ClientRoom = {}
    PoolRoom = {m1}
    Capacity = {2}
    MatchCapacity = 2
    GlobalCapacity = 4
    Password = {}
    NoPassword = NoPassword
    None = None
    Ops = {"matchmake", "disconnect"}
INVARIANTS
    NoGhosts
PROPERTIES
    HandlersReturn
    MatchEndsTogether
