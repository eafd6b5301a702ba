CONSTANTS
    still = still
    single = single
    short = short
    long = long
    corrupt = corrupt
    text = text
    NoFile = NoFile
    NoFrame = NoFrame
    Files = {short, long}
    Readable = {short, long}
    Decodable = {short, long}
    Frames <- MCFrames
    Delayed <- MCDelayed
    ShowBound = 3
SPECIFICATION Spec
INVARIANT OneTimer
