SPECIFICATION Spec
SYMMETRY Symmetry
CONSTANTS
    u1 = u1
    u2 = u2
    User = {u1, u2}
    r1 = r1
    r2 = r2
    RoomName = {r1, r2}
    o1 = o1
    o2 = o2
    o3 = o3
    Object = {o1, o2, o3}
    None = None
    Ops = {"status", "leave"}
INVARIANTS
    OneVoiceRoom
    NoEmptyVoiceRoom
