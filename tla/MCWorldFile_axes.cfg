\* A slab of air that is deeper than high.
CONSTANTS
    Width = 1
    Depth = 3
    Height = 2
    Garbage = {"air"}
    FirstBlocks <- Airy
    Reach <- Pos
    Hand = {"air", "sand"}
    Rights = {FALSE}
    Period = 1
    MaxEdits = 2
    Faults = {"crash"}
    MaxStarts = 3
SPECIFICATION FileSpec
INVARIANTS
    SandFallsOn
CHECK_DEADLOCK FALSE
