SPECIFICATION FairSpec
CONSTANTS
    p1 = p1
    p2 = p2
    w1 = w1
    Listed <- MCListed
    Windows = {w1}
    WindowOf <- MCWindowOf
    Screens = {"working", "visible_idle"}
    Options <- MCOptions
    MaxFrames = 2
    MinInterval = 1
    TicksPerSecond = 2
    None = None
    MaxAge = 3
    MaxEvents = 3
INVARIANTS
    TypeOK
    PublishedIsShown
PROPERTIES
    CapturedNextScan
    LineConverges

