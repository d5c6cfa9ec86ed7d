SPECIFICATION Spec
SYMMETRY Symmetry
CONSTANTS
    u1 = u1
    u2 = u2
    User = {u1, u2}
    System = System
    Global = Global
    m1 = m1
    RoomName = {Global, m1}
    MatchRoom = {m1}
    Capacity = {0, 2}
    GlobalCapacity = 1
    p1 = p1
    Password = {p1}
    NoPassword = NoPassword
    None = None
INVARIANTS
    PersistedAreMembers
    MemoryIsTheRowsRoom
    WithinCapacity
