\* Two players: one has a level, the other has FastMap and a WebSocket.
CONSTANTS
    N = 2
    Fast = {2}
    WebSocket = {2}
    Loaded = {1, 2}
    Pos = {"p"}
    Block = {"air", "stone"}
    First = "air"
    Cap = 2
    MaxEdits = 2
    MaxAsks = 1
    MaxFaults = 2
SPECIFICATION FairSpec
INVARIANTS
    TypeOK
    OneSender
    NoRace
    GamesAgree
    NoEmbrace
CHECK_DEADLOCK FALSE
PROPERTY MainComesRound
