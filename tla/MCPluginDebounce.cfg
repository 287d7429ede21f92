SPECIFICATION FairSpec
CONSTANTS
    TileSizePx = 1
    NoTask = NoTask
    NoContext = 0
    Zooms = {1}
    DocRows = {2}
    ViewHeights = {1}
    Inputs = {"debounce", "edit", "expose"}
    MaxInputs = 3
PROPERTY DebouncedUpdatesArePainted
CHECK_DEADLOCK FALSE
