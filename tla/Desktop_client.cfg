SPECIFICATION ClientSpec
CONSTANTS
    o1 = o1
    Person = {o1}
    global = global
    r1 = r1
    Room = {global, r1}
    Global = global
    NoName = NoName
    NoToken = NoToken
    MaxMessages = 2
    MaxPackets = 2
    MayChooseEarly = FALSE
    s = s
    l = l
    Talker = {s, l}
    Speakers = {s}
    Listener = l
    VoiceRoom = {global, r1}
    Absent = Absent
    MaxClients = 3
    MaxSaid = 3
    MaxSequence = 2
    MaxFrames = 2
    MaxFaults = 1
    MaxAll = 7
    u1 = u1
    u2 = u2
    t1 = t1
    t2 = t2
    t3 = t3
    p1 = p1
    p2 = p2
    None = None
    User = {u1, u2}
    Transfer = {t1, t2, t3}
    Path = {p1, p2}
    Sender <- SenderOf
    Target <- TargetOf
    TotalChunks = 2
    MaxIndex = 3
    MaxBuffer = 2
    Ops = {"disconnect", "crash"}
INVARIANTS
    ClientTypeOK
    OpenedOnce
    FormIsFree
    ShowsTheRoom
    
    UnreadIsExact
    VoiceAsTold
    PlayedInOrder
    HeardWhereSaid
    BufferBounded
    WrittenIsWhole
    
PROPERTIES
    SignsInSpec
    SentIsAnswered
    
