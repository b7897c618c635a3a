\* A corridor of seven blocks in bedrock, with water behind a sponge.
CONSTANTS
    Width = 7
    Depth = 7
    Height = 6
    Garbage = {"air", "sponge"}
    FirstBlocks <- Held
    Reach <- Spots
    Hand = {"air", "water", "still", "sponge", "sand"}
    Rights = {TRUE}
    Period = 4
    MaxEdits = 2
SPECIFICATION FairSpec
INVARIANTS
    TypeOK
    SpongeKeepsDry
    LiquidIsScheduled
PROPERTIES
    Settles
