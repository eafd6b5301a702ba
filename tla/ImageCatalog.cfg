CONSTANTS
    d1 = d1
    d2 = d2
    other = other
    NoFile = NoFile
    Dirs = {d1, d2}
    Names <- MCNames
    Listings <- MCListings
    Unlisted = {other}
SPECIFICATION Spec
INVARIANTS
    TypeOK
    IndexInRange
PROPERTIES
    OpenedFileIsShown
    ImplementsBrowsing
