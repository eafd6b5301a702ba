CONSTANTS
    wide = wide
    small = small
    NullImage = NullImage
    Images <- MCImages
    Extent <- MCExtent
    Areas <- MCAreas
    Styles = {plain, framed}
    OneScale = 2
    ZoomStep = 1
    MinScale = 1
    MaxScale = 4
    WheelSteps <- MCWheelSteps
    Pinches <- MCPinches
    OffsetStep = 2
    Drags <- MCDrags
    ScaleBound = 4
    BlindBound = 1
SPECIFICATION Spec
INVARIANT FitToWindow
