\* A slab of air whose depth is its height, with restarts and every fault.
CONSTANTS
    Width = 1
    Depth = 3
    Height = 3
    Garbage = {"air"}
    FirstBlocks <- Airy
    Reach <- Pos
    Hand = {"air", "sand"}
    Rights = {FALSE}
    Period = 1
    MaxEdits = 2
    Faults = {"crash", "deflate", "disk"}
    MaxStarts = 3
SPECIFICATION FairFileSpec
INVARIANTS
    FileTypeOK
    StopSaves
    UnmodifiedIsSaved
    WholeUnlessFault
    SandFallsOn
CHECK_DEADLOCK FALSE
PROPERTIES
    SettlesAgain
