SPECIFICATION Spec
SYMMETRY Symmetry
CONSTANTS
    a1 = a1
    a2 = a2
    Account = {a1, a2}
    p1 = p1
    p2 = p2
    Password = {p1, p2}
    c1 = c1
    c2 = c2
    Conn = {c1, c2}
    t1 = t1
    t2 = t2
    Token = {t1, t2}
    MaxPackets = 2
    None = None
    Ops = {"register", "reconnect", "age", "crash"}
INVARIANTS
    ConnectionsAreServed

    
