CONSTANTS
    zoomIn = zoomIn
    quit = quit
    border = border
    language = language
    first = first
    second = second
    Unset = Unset
    Actions = {zoomIn, quit}
    Looks = {border}
    Others = {language}
    Values = {first, second}
    Default <- MCDefault
SPECIFICATION Spec
INVARIANT ShortcutsAreStored
