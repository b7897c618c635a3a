\* One connection that comes and goes, with extensions and either kind of
\* thread.  Another comes from a banned address: it is disconnected at once and
\* stays in the table, before the first or behind it, until the removal loop, which
\* skips it when the first is removed before it, has got to it.
CONSTANTS
    c1 = c1
    c2 = c2
    u1 = u1
    w1 = w1
    Conns = {c1, c2}
    Names = {u1}
    NoName = NoName
    Chunks = 4
    Workers = {w1}
    MaxPlayers = 1
    EnableOldClients = FALSE
    BannedIPs = {c2}
    BannedUsers = {}
    Whitelist = {u1}
    ExtCounts = {1}
    ExtNames = {"FastMap", ""}
    SupportLevels = {TRUE}
SPECIFICATION FairSpec
PROPERTIES
    LevelArrives
    Reaped
