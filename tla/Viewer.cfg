CONSTANTS
    d1 = d1
    d2 = d2
    other = other
    NoFile = NoFile
    NoFrame = NoFrame
    Dirs = {d1, d2}
    Names <- MCNames
    Listings <- MCListings
    Unlisted = {other}
    Readable <- MCReadable
    Decodable <- MCDecodable
    Frames <- MCFrames
    Delayed <- MCDelayed
    ShowBound = 2
    FileSize <- MCFileSize
    Base = 4
    Scale <- MCScale
SPECIFICATION Spec
INVARIANTS
    TypeOK
    PictureAtHand
    PanelsAtPicture
    SizeOfPicture
PROPERTY ImplementsViewing
