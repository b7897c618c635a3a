\* Four connections, one of them from a banned address, compete for two places
\* and three admissible names; no levels.
CONSTANTS
    c1 = c1
    c2 = c2
    c3 = c3
    c4 = c4
    u1 = u1
    u2 = u2
    u3 = u3
    u4 = u4
    Conns = {c1, c2, c3, c4}
    Names = {u1, u2, u3, u4}
    NoName = NoName
    Chunks = 0
    Workers = {}
    MaxPlayers = 2
    EnableOldClients = FALSE
    BannedIPs = {c4}
    BannedUsers = {u3}
    Whitelist = {u1, u2, u3, u4, NoName}
    ExtCounts = {}
    ExtNames = {}
    SupportLevels = {}
SPECIFICATION Spec
SYMMETRY Symmetry
INVARIANTS
    NamesUnique
    PlayersBounded
    PassMovesUp
PROPERTIES
    RosterSpec
