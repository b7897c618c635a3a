\* Two connections log in, are sent a level of two ticks and spawn.
CONSTANTS
    c1 = c1
    c2 = c2
    u1 = u1
    u2 = u2
    w1 = w1
    Conns = {c1, c2}
    Names = {u1, u2}
    NoName = NoName
    Chunks = 5
    Workers = {w1}
    MaxPlayers = 2
    EnableOldClients = FALSE
    BannedIPs = {}
    BannedUsers = {}
    Whitelist = {u1, u2}
    ExtCounts = {}
    ExtNames = {}
    SupportLevels = {}
SPECIFICATION Spec
SYMMETRY Symmetry
INVARIANTS
    TypeOK
    SpawnOnRequest
    SeeEachOtherUnlessClash
