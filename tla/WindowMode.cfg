CONSTANTS
    toolBar = toolBar
    navigation = navigation
    statusBar = statusBar
    Bars = {toolBar, navigation, statusBar}
SPECIFICATION Spec
SYMMETRY BarSymmetry
PROPERTY ImplementsTwoModes
