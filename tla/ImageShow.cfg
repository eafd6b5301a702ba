CONSTANTS
    still = still
    single = single
    short = short
    long = long
    corrupt = corrupt
    text = text
    NoFile = NoFile
    NoFrame = NoFrame
    Files = {still, single, short, long, corrupt, text}
    Readable = {still, single, short, long, corrupt}
    Decodable = {still, single, short, long}
    Frames <- MCFrames
    Delayed <- MCDelayed
    ShowBound = 3
SPECIFICATION FairSpec
INVARIANTS
    TypeOK
    FrameExists
    DimensionsMatchScreen
    OriginalOnScreen
    ChainAlive
    TimersAreOfShows
PROPERTIES
    AnimationPlays
    StillPictureSettles
