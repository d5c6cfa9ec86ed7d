SPECIFICATION TalkSpec
CONSTANTS
    u1 = u1
    u2 = u2
    User = {u1, u2}
    None = None
    Ops = {"remove", "crash"}
    a = a
    b = b
    Client = {a, b}
    global = global
    r1 = r1
    Room = {global, r1}
    Global = global
    Nowhere = Nowhere
    Nothing = Nothing
    Travellers = {b}
    Buffer = 1
    MaxAsked = 2
INVARIANTS
    FriendsWereAsked
    ChatTypeOK
    
    RoomAgrees
    DeliveredIsSeen
    InOrderSaid
PROPERTIES
    EveryoneServed
