\* The main thread, two helper threads and three signals.
CONSTANTS
    Main = main
    h1 = h1
    h2 = h2
    Helpers = {h1, h2}
    Nobody = Nobody
    MaxSignals = 3
SPECIFICATION FairSpec
INVARIANTS
    TypeOK
    OneWriter
    SignalKept
PROPERTY WillExitUnlessNested
CHECK_DEADLOCK FALSE
