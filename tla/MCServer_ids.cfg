\* Three connections that ask for a level and never give a name; no packet is
\* lost and no pointer goes stale.
CONSTANTS
    c1 = c1
    c2 = c2
    c3 = c3
    w1 = w1
    Conns = {c1, c2, c3}
    Names = {}
    NoName = NoName
    Chunks = 0
    Workers = {w1}
    MaxPlayers = 2
    EnableOldClients = FALSE
    BannedIPs = {}
    BannedUsers = {}
    Whitelist = {}
    ExtCounts = {}
    ExtNames = {}
    SupportLevels = {FALSE}
SPECIFICATION Spec
SYMMETRY Symmetry
CONSTRAINT NoMishap
INVARIANTS
    SpawnedSeeEachOther
