\* One connection, one level.
CONSTANTS
    c1 = c1
    u1 = u1
    w1 = w1
    Conns = {c1}
    Names = {u1}
    NoName = NoName
    Chunks = 0
    Workers = {w1}
    MaxPlayers = 1
    EnableOldClients = FALSE
    BannedIPs = {}
    BannedUsers = {}
    Whitelist = {u1}
    ExtCounts = {}
    ExtNames = {}
    SupportLevels = {}
SPECIFICATION Spec
SYMMETRY Symmetry
PROPERTIES
    DownNeverJoins
