CONSTANTS
    Bytes = {0, 1, 2}
    Junk = 2
    Sizes = {0, 1, 2}
    MaxWrite = 2
    MaxBytes = 3
    Letters = {"a", "A", "b"}
    Lower <- LowerCase
    NameSize = 4
    MaxChars = 6
    Word = {"server", "map", "colours", "port", "width", "name", "public", "true",
            "web_proxies", "seed", "debug", "fixed_salt", "a", "x", "ff", "00", "0", "7",
            "65536", "-1", "131072"}
    Numbers = {"0", "7", "65536", "-1", "131072"}
    NumberOf <- Values
    Codes = {"a", "b"}
    Rgba = {"ff", "00"}
    ParserSize = 6
    ProxySize = 3
    SaltSize = 2
    UIntSize = 131072
    Resets = TRUE
    LineSet <- SomeLines
    MaxLines = 3
    Unset = Unset
    Slots = 2
    Names <- TagNames
    Leaves <- TagValues
    Lengths = {1, 2}
    MaxTags = 4
    Null = Null
    NoName = NoName
    Undefined = Undefined
    Width = 2
    Depth = 4
    Height = 2
    Block = {"air", "stone", "magenta_wool", "water", "lava"}
    Terrains <- Caves
    MaxCalls = 2
    PacketSize <- SizesOfPackets
    Field = {3}
    Keys <- SomeKeys
    RecvSize = 17
    MaxSent = 3
    MaxTorn = 1
SPECIFICATION PartsSpec
INVARIANTS
    OffsetInside NothingLost
    ListSays
    ConfigSays Usable
    RoundTrip FirstIsFound
    FillsReach FlowsSideways
    InStep
CHECK_DEADLOCK FALSE
