CONSTANTS
    Tabs = {t1}
    Launching = {t1}
    MaxRequests = 3
    MaxSockets = 3
    MaxAsks = 2
    MaxDrops = 1
    Relays = {"busy", "idle"}
    CallsOf <- MCCallsOf
    MaxTroubles = 1
    Windows = {w1}
    Agent = Agent
    Nobody = Nobody
    Parts = {p1, p2}
    NoPart = NoPart
    Texts = {x1}
    Blank = Blank
    Initial = p1
    Already = {}
    Capacity = 2
    MaxEdits = 1
    MaxFailures = 1
    MaxRestarts = 1
    Quiet = {"start", "connect"}
SPECIFICATION ConnectionsSpec
CHECK_DEADLOCK FALSE
INVARIANTS LinkIsSound OwnReply NobodyWaitsOnNobody RelayIsSound
PROPERTIES ConnectingEnds EveryMessageOfAClient Converges
