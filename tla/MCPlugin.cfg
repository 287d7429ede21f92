SPECIFICATION BoundedSpec
CONSTANTS
    TileSizePx = 1
    NoTask = NoTask
    NoContext = 0
    Zooms = {1, 2}
    DocRows = {1, 3}
    ViewHeights = {1, 3}
    Inputs = {"edit", "edit_all", "scroll", "zoom", "viewport", "expose", "size", "invalidate", "debounce", "stop_debouncing"}
    MaxInputs = 2
INVARIANTS TypeOK BarriersCountTheirTiles ValidTilesAreCurrent
PROPERTIES ScreenSettles
CHECK_DEADLOCK FALSE
